----------------------------- MODULE GatesProofs -----------------------------
(***************************************************************************)
(* Theorems about the automation around the repository, for any contents   *)
(* a dependency update may have, any reviewers, any tests, any samples of  *)
(* the telemetry and any advisories: what is armed is safe and every head  *)
(* is judged, a baseline turns green only on an approval that stood, the   *)
(* flake history says what its runs have shown, and alerts and audits do   *)
(* not fall silent.                                                        *)
(*                                                                         *)
(* The parts share no state.  Each has an inductive invariant of its own   *)
(* (AutomergeInv, GateInv, FlakeInv, AlertInv, AuditInv); the last section *)
(* puts them together.                                                     *)
(***************************************************************************)
EXTENDS MCGates, WellFoundedInduction, FiniteSetTheorems, SequenceTheorems, TLAPS

\* A set of natural numbers has a least element: induction is done by looking
\* at the least counterexample.
LEMMA LeastNumber ==
  ASSUME NEW T, T \subseteq Nat, T # {}
  PROVE  \E x \in T : \A y \in T : x <= y
<1>1. \A x, y \in Nat : x < y => <<x, y>> \in OpToRel(<, Nat)
  BY DEF OpToRel
<1>2. \E R : IsWellFoundedOn(R, Nat) /\ \A x, y \in Nat : x < y => <<x, y>> \in R
  BY <1>1, NatLessThanWellFounded, Zenon
<1>3. PICK R : IsWellFoundedOn(R, Nat) /\ \A x, y \in Nat : x < y => <<x, y>> \in R
  BY <1>2
<1>4. PICK x \in T : \A y \in T : ~(<<y, x>> \in R)
  BY <1>3, WFMin
<1>5. \A y \in T : x <= y
  <2> SUFFICES ASSUME NEW y \in T PROVE x <= y
    OBVIOUS
  <2>1. x \in Nat /\ y \in Nat /\ ~(y < x)
    BY <1>3, <1>4
  <2>. QED
    BY <2>1
<1>. QED
  BY <1>5

\* What holds of 0, and of each number up to m after its predecessor.
LEMMA Induction ==
  ASSUME NEW m \in Nat, NEW Good, 0 \in Good,
         \A n \in 1..m : n - 1 \in Good => n \in Good
  PROVE  0..m \subseteq Good
<1> DEFINE Bad == {n \in 0..m : n \notin Good}
<1> SUFFICES ASSUME Bad # {}
             PROVE  FALSE
  OBVIOUS
<1>0. Bad \subseteq Nat
  OBVIOUS
<1>1. PICK n \in Bad : \A k \in Bad : n <= k
  BY <1>0, LeastNumber
<1>2. n # 0 /\ n \in 1..m /\ n - 1 \in 0..m /\ n - 1 \notin Bad
  BY <1>1
<1>3. n - 1 \in Good
  BY <1>2
<1>4. n \in Good
  BY <1>2, <1>3
<1>. QED
  BY <1>1, <1>4

-----------------------------------------------------------------------------
(***************************************************************************)
(* The alert rules.                                                        *)
(***************************************************************************)

AlertInv ==
  /\ errorSample \in ErrorSamples /\ vitalsSample \in VitalsSamples
  /\ firing = evaluateAlerts(errorSample, vitalsSample)

LEMMA AlertInitInv == AlertInit => AlertInv
BY DEF AlertInit, AlertInv

LEMMA AlertNextInv == AlertInv /\ [AlertNext]_alertVars => AlertInv'
BY DEF AlertInv, AlertNext, ErrorWindow, VitalsWindow, alertVars

\* No two rules have the same name: a name that fires is its rule's doing.
LEMMA FiringErrorRule ==
  ASSUME NEW e, NEW w, NEW r \in ERROR_RULES
  PROVE  r.name \in evaluateAlerts(e, w) <=> evaluateErrorRate(r, e)
<1>1. \A q \in ERROR_RULES : q.name = r.name => q = r
  BY DEF ERROR_RULES, errorRule
<1>2. \A q \in VITALS_RULES : q.name # r.name
  BY DEF ERROR_RULES, errorRule, VITALS_RULES, vitalsRule
<1>. QED
  BY <1>1, <1>2 DEF evaluateAlerts

LEMMA FiringVitalsRule ==
  ASSUME NEW e, NEW w, NEW r \in VITALS_RULES
  PROVE  r.name \in evaluateAlerts(e, w) <=> r.metric = w.metric /\ evaluateWebVitals(r, w)
<1>1. \A q \in VITALS_RULES : q.name = r.name => q = r
  BY DEF VITALS_RULES, vitalsRule
<1>2. \A q \in ERROR_RULES : q.name # r.name
  BY DEF ERROR_RULES, errorRule, VITALS_RULES, vitalsRule
<1>. QED
  BY <1>1, <1>2 DEF evaluateAlerts

\* The floor, the ratio and the count are crossed together with the errors.
LEMMA WorseErrorsFire ==
  ASSUME NEW s, NEW z, NEW r \in ERROR_RULES,
         s.totalEvents \in Int, s.errorEvents \in Int, z.totalEvents \in Int, z.errorEvents \in Int,
         z.errorEvents >= s.errorEvents, 0 <= Successes(z), Successes(z) <= Successes(s),
         evaluateErrorRate(r, s)
  PROVE  evaluateErrorRate(r, z)
<1>1. \/ r.minEvents = 20 /\ r.maxErrorRatio = 50 /\ r.maxErrorCount = 100
      \/ r.minEvents = 50 /\ r.maxErrorRatio = 10 /\ r.maxErrorCount = 250
  BY DEF ERROR_RULES, errorRule
<1>. QED
  BY <1>1 DEF evaluateErrorRate, errorSampleIsUsable, Successes

\* So are the budget and the regression with the p75.
LEMMA WorseVitalsFire ==
  ASSUME NEW s, NEW z, NEW r \in VITALS_RULES,
         s.sampleCount \in Int, s.p75 \in Int, z.sampleCount \in Int, z.p75 \in Int,
         s.baselineP75 \in Int \union {NoBaseline},
         webVitalsSampleIsUsable(z), z.metric = s.metric,
         z.sampleCount >= s.sampleCount, z.p75 >= s.p75,
         z.baselineP75 = s.baselineP75 \/ s.baselineP75 = NoBaseline,
         evaluateWebVitals(r, s)
  PROVE  evaluateWebVitals(r, z)
<1>1. r.minSamples = 100 /\ r.maxP75 \in Int /\ r.maxRegressionRatio \in Int
  BY DEF VITALS_RULES, vitalsRule
<1>2. z.sampleCount >= r.minSamples
  BY <1>1 DEF evaluateWebVitals
<1>3. CASE s.p75 > r.maxP75
  BY <1>1, <1>2, <1>3 DEF evaluateWebVitals
<1>4. CASE s.baselineP75 # NoBaseline /\ RegressionExceeded(r, s)
  <2> DEFINE limit == s.baselineP75 * (1000 + r.maxRegressionRatio)
  <2>1. z.baselineP75 = s.baselineP75 /\ limit \in Int /\ (limit + 500) \div 1000 \in Int
    BY <1>1, <1>4
  <2>2. RegressionExceeded(r, z)
    <3>1. CASE s.metric = "CLS"
      <4>1. s.p75 > (limit + 500) \div 1000
        BY <1>4, <3>1 DEF RegressionExceeded
      <4>2. z.p75 > (limit + 500) \div 1000
        <5> HIDE DEF limit
        <5>. QED
          BY <2>1, <4>1
      <4>. QED
        BY <2>1, <3>1, <4>2 DEF RegressionExceeded
    <3>2. CASE s.metric # "CLS"
      <4>1. s.p75 * 1000 > limit
        BY <1>4, <3>2 DEF RegressionExceeded
      <4>2. z.p75 * 1000 > limit
        <5> HIDE DEF limit
        <5>. QED
          BY <2>1, <4>1
      <4>. QED
        BY <2>1, <3>2, <4>2 DEF RegressionExceeded
    <3>. QED
      BY <3>1, <3>2
  <2>. QED
    BY <1>2, <1>4, <2>1, <2>2 DEF evaluateWebVitals
<1>. QED
  BY <1>3, <1>4 DEF evaluateWebVitals

\* A page that is slow for the critical rule is slow for the warning.
LEMMA CriticalWarns ==
  ASSUME NEW s, NEW r \in VITALS_RULES, NEW q \in VITALS_RULES,
         s.p75 \in Int, s.sampleCount \in Int, s.baselineP75 \in Int \union {NoBaseline}, s.metric # "CLS",
         \/ r.maxP75 = 4000 /\ q.maxP75 = 2500
         \/ r.maxP75 = 500 /\ q.maxP75 = 200,
         r.maxRegressionRatio = 500, q.maxRegressionRatio = 250,
         evaluateWebVitals(r, s)
  PROVE  evaluateWebVitals(q, s)
<1>1. r.minSamples = 100 /\ q.minSamples = 100
  BY DEF VITALS_RULES, vitalsRule
<1>2. CASE s.p75 > r.maxP75
  BY <1>1, <1>2 DEF evaluateWebVitals
<1>3. CASE s.baselineP75 # NoBaseline /\ RegressionExceeded(r, s)
  <2>1. s.baselineP75 \in Int /\ s.baselineP75 >= 0
    BY <1>3 DEF evaluateWebVitals, webVitalsSampleIsUsable
  <2>2. s.p75 * 1000 > s.baselineP75 * 1500
    BY <1>3 DEF RegressionExceeded
  <2>3. s.p75 * 1000 > s.baselineP75 * 1250
    BY <2>1, <2>2
  <2>4. RegressionExceeded(q, s)
    BY <2>3 DEF RegressionExceeded
  <2>. QED
    BY <1>1, <1>3, <2>4 DEF evaluateWebVitals
<1>. QED
  BY <1>2, <1>3 DEF evaluateWebVitals

CriticalsWarn ==
  /\ "LCP-p75-critical" \in firing => "LCP-p75-warning" \in firing
  /\ "INP-p75-critical" \in firing => "INP-p75-warning" \in firing

LEMMA WarningsFire == AlertInv => CriticalsWarn
<1> SUFFICES ASSUME AlertInv
             PROVE  CriticalsWarn
  OBVIOUS
<1> DEFINE s == vitalsSample
<1>1. s.p75 \in Int /\ s.sampleCount \in Int /\ s.baselineP75 \in Int \union {NoBaseline}
  BY SamplesAssumption DEF AlertInv
<1>2. ASSUME NEW r \in VITALS_RULES, NEW q \in VITALS_RULES,
             r.name \in firing, r.metric = q.metric, r.metric # "CLS",
             \/ r.maxP75 = 4000 /\ q.maxP75 = 2500
             \/ r.maxP75 = 500 /\ q.maxP75 = 200,
             r.maxRegressionRatio = 500, q.maxRegressionRatio = 250
      PROVE  q.name \in firing
  <2>1. r.metric = s.metric /\ evaluateWebVitals(r, s)
    BY <1>2, FiringVitalsRule DEF AlertInv
  <2>2. evaluateWebVitals(q, s)
    BY <1>1, <1>2, <2>1, CriticalWarns
  <2>3. q.metric = s.metric
    BY <1>2, <2>1
  <2>4. q.name \in evaluateAlerts(errorSample, s)
    BY <2>2, <2>3, FiringVitalsRule, Zenon
  <2>. QED
    BY <2>4 DEF AlertInv
<1>3. "LCP-p75-critical" \in firing => "LCP-p75-warning" \in firing
  <2> DEFINE r == vitalsRule("LCP-p75-critical", "LCP", 4000, 500)
             q == vitalsRule("LCP-p75-warning", "LCP", 2500, 250)
  <2>1. r \in VITALS_RULES /\ q \in VITALS_RULES
    BY DEF VITALS_RULES
  <2>2. /\ r.name = "LCP-p75-critical" /\ q.name = "LCP-p75-warning"
        /\ r.metric = "LCP" /\ q.metric = "LCP" /\ r.maxP75 = 4000 /\ q.maxP75 = 2500
        /\ r.maxRegressionRatio = 500 /\ q.maxRegressionRatio = 250
    BY DEF vitalsRule
  <2>. QED
    BY <1>2, <2>1, <2>2
<1>4. "INP-p75-critical" \in firing => "INP-p75-warning" \in firing
  <2> DEFINE r == vitalsRule("INP-p75-critical", "INP", 500, 500)
             q == vitalsRule("INP-p75-warning", "INP", 200, 250)
  <2>1. r \in VITALS_RULES /\ q \in VITALS_RULES
    BY DEF VITALS_RULES
  <2>2. /\ r.name = "INP-p75-critical" /\ q.name = "INP-p75-warning"
        /\ r.metric = "INP" /\ q.metric = "INP" /\ r.maxP75 = 500 /\ q.maxP75 = 200
        /\ r.maxRegressionRatio = 500 /\ q.maxRegressionRatio = 250
    BY DEF vitalsRule
  <2>. QED
    BY <1>2, <2>1, <2>2
<1>. QED
  BY <1>3, <1>4 DEF CriticalsWarn

LEMMA WarningsFireNext == AlertInv' => CriticalsWarn'
BY WarningsFire, PTL

StillFires ==
  /\ ErrorsGetWorse => \A r \in ERROR_RULES : r.name \in firing => r.name \in firing'
  /\ VitalsGetWorse => \A r \in VITALS_RULES : r.name \in firing => r.name \in firing'
  /\ "LCP-p75-critical" \in firing' => "LCP-p75-warning" \in firing'
  /\ "INP-p75-critical" \in firing' => "INP-p75-warning" \in firing'

LEMMA WorseStep == AlertInv /\ AlertInv' => StillFires
<1> SUFFICES ASSUME AlertInv, AlertInv'
             PROVE  StillFires
  OBVIOUS
<1>1. /\ errorSample.totalEvents \in Int /\ errorSample.errorEvents \in Int
      /\ errorSample'.totalEvents \in Int /\ errorSample'.errorEvents \in Int
  BY SamplesAssumption DEF AlertInv
<1>2. /\ vitalsSample.sampleCount \in Int /\ vitalsSample.p75 \in Int
      /\ vitalsSample.baselineP75 \in Int \union {NoBaseline}
      /\ vitalsSample'.sampleCount \in Int /\ vitalsSample'.p75 \in Int
  BY SamplesAssumption DEF AlertInv
<1>3. ASSUME ErrorsGetWorse, NEW r \in ERROR_RULES, r.name \in firing
      PROVE  r.name \in firing'
  <2>1. evaluateErrorRate(r, errorSample)
    BY <1>3, FiringErrorRule DEF AlertInv
  <2>2. evaluateErrorRate(r, errorSample')
    BY <1>1, <1>3, <2>1, WorseErrorsFire DEF ErrorsGetWorse
  <2>. QED
    BY <2>2, FiringErrorRule DEF AlertInv
<1>4. ASSUME VitalsGetWorse, NEW r \in VITALS_RULES, r.name \in firing
      PROVE  r.name \in firing'
  <2>1. r.metric = vitalsSample.metric /\ evaluateWebVitals(r, vitalsSample)
    BY <1>4, FiringVitalsRule DEF AlertInv
  <2>2. evaluateWebVitals(r, vitalsSample')
    BY <1>2, <1>4, <2>1, WorseVitalsFire DEF VitalsGetWorse
  <2>. QED
    BY <1>4, <2>1, <2>2, FiringVitalsRule DEF AlertInv, VitalsGetWorse
<1>5. CriticalsWarn'
  BY WarningsFireNext
<1>. QED
  BY <1>3, <1>4, <1>5 DEF StillFires, CriticalsWarn

-----------------------------------------------------------------------------
(***************************************************************************)
(* The dependency audit.                                                   *)
(***************************************************************************)

Scopes == {"production", "development", "absent"}

\* What would block a report that has the advisory.
Outstanding(a) ==
  /\ ~isCovered(a)
  /\ \/ deps[a.packageName] = "production" /\ a.severity \in {"high", "critical"}
     \/ deps[a.packageName] = "development" /\ a.severity = "critical"

AuditTypes ==
  /\ published \subseteq Advisories
  /\ deps \in [Packages -> Scopes]
  /\ today \in Int /\ exceptions \subseteq Entries
  /\ job.at \in {"idle", "production", "full"}
  /\ job.known \subseteq published
  /\ outcome.is \in {"none", "green", "red"}
  /\ job = [at |-> job.at, prod |-> job.prod, full |-> job.full, known |-> job.known]
  /\ outcome = [is |-> outcome.is, failed |-> outcome.failed, committed |-> outcome.committed]

\* The reports of the job in progress are of the present tree.
ReportsAreOfTheTree ==
  /\ job.at \in {"production", "full"} /\ job.prod # NoAnswer =>
       job.prod = {a \in job.known : deps[a.packageName] = "production"}
  /\ job.at = "full" /\ job.full # NoAnswer =>
       /\ {a \in job.known : deps[a.packageName] \in {"production", "development"}} \subseteq job.full
       /\ \A a \in job.full : a \in published /\ deps[a.packageName] \in {"production", "development"}

\* A red judgement has its reason until something is committed, and a job
\* that began after it knows the reason.
RedHasReason ==
  outcome.is = "red" /\ ~outcome.failed /\ ~outcome.committed =>
    \/ invalid # {}
    \/ \E a \in published : Outstanding(a) /\ (job.at # "idle" => a \in job.known)

AuditInv == AuditTypes /\ ReportsAreOfTheTree /\ RedHasReason

LEMMA AuditInitInv == AuditInit => AuditInv
BY DEF AuditInit, AuditInv, AuditTypes, ReportsAreOfTheTree, RedHasReason, IdleJob, Scopes

\* The ranks of the severities against the thresholds of the scopes.
LEMMA Blocks ==
  ASSUME NEW a \in Advisories
  PROVE  /\ Blocking(a, "production") <=> a.severity \in {"high", "critical"}
         /\ Blocking(a, "development") <=> a.severity = "critical"
<1>1. /\ SEVERITY_RANK["moderate"] = 2 /\ SEVERITY_RANK["high"] = 3 /\ SEVERITY_RANK["critical"] = 4
      /\ DEFAULT_THRESHOLDS["production"] = "high" /\ DEFAULT_THRESHOLDS["development"] = "critical"
  BY DEF SEVERITY_RANK, DEFAULT_THRESHOLDS
<1>2. a.severity \in {"moderate", "high", "critical"}
  BY AdvisoriesAssumption
<1>3. CASE a.severity = "moderate"
  BY <1>1, <1>3 DEF Blocking
<1>4. CASE a.severity = "high"
  BY <1>1, <1>4 DEF Blocking
<1>5. CASE a.severity = "critical"
  BY <1>1, <1>5 DEF Blocking
<1>. QED
  BY <1>2, <1>3, <1>4, <1>5

\* What fails a full job is outstanding, and what is outstanding and known
\* fails it.
LEMMA FailuresAreOutstanding ==
  ASSUME AuditInv, job.at = "full", job.prod # NoAnswer, job.full # NoAnswer
  PROVE  /\ \A a \in failures : a \in published /\ Outstanding(a)
         /\ \A a \in job.known : Outstanding(a) => a \in failures
<1> USE DEF AuditInv, AuditTypes, ReportsAreOfTheTree
<1>1. ASSUME NEW a \in failures PROVE a \in published /\ Outstanding(a)
  <2>1. CASE a \in job.prod /\ Blocking(a, "production") /\ ~isCovered(a)
    <3>1. a \in published /\ a \in Advisories /\ deps[a.packageName] = "production"
      BY <2>1
    <3>. QED
      BY <2>1, <3>1, Blocks DEF Outstanding
  <2>2. CASE a \in job.full /\ a \notin job.prod /\ Blocking(a, "development") /\ ~isCovered(a)
    <3>1. a \in published /\ a \in Advisories /\ deps[a.packageName] \in {"production", "development"}
      BY <2>2
    <3>. QED
      BY <2>2, <3>1, Blocks DEF Outstanding
  <2>. QED
    BY <1>1, <2>1, <2>2 DEF failures
<1>2. ASSUME NEW a \in job.known, Outstanding(a) PROVE a \in failures
  <2>0. a \in Advisories /\ ~isCovered(a)
    BY <1>2 DEF Outstanding
  <2>1. CASE deps[a.packageName] = "production" /\ a.severity \in {"high", "critical"}
    <3>1. a \in job.prod
      BY <2>1
    <3>. QED
      BY <2>0, <2>1, <3>1, Blocks DEF failures
  <2>2. CASE deps[a.packageName] = "development" /\ a.severity = "critical"
    <3>1. a \in job.full /\ a \notin job.prod
      BY <2>2
    <3>. QED
      BY <2>0, <2>2, <3>1, Blocks DEF failures
  <2>. QED
    BY <1>2, <2>1, <2>2 DEF Outstanding
<1>. QED
  BY <1>1, <1>2

\* What is outstanding remains so as days pass and advisories appear.
LEMMA RemainsOutstanding ==
  ASSUME AuditTypes, NEW a, Outstanding(a), UNCHANGED <<deps, exceptions>>,
         today' = today \/ today' = today + 1
  PROVE  Outstanding(a)'
<1>1. ASSUME NEW e \in active' PROVE e \in active
  <2>1. e \in exceptions /\ e.complete /\ today' < e.expires
    BY <1>1 DEF active
  <2>2. e.expires \in Int /\ today \in Int
    BY <2>1 DEF AuditTypes, Entries
  <2>3. today < e.expires
    BY <2>1, <2>2
  <2>. QED
    BY <2>1, <2>3 DEF active
<1>. QED
  BY <1>1 DEF Outstanding, isCovered

Earned ==
  /\ TurnsGreen => \A a \in job.known : Accepted(a)
  /\ outcome.is = "red" /\ ~outcome.failed /\ ~outcome.committed => outcome'.is = "red"

LEMMA EnforceInv ==
  ASSUME AuditInv, EnforceThresholds
  PROVE  AuditInv' /\ Earned
<1> DEFINE failed == job.prod = NoAnswer \/ job.full = NoAnswer
           is == IF ~failed /\ failures = {} /\ invalid = {} THEN "green" ELSE "red"
<1>0. AuditTypes /\ ReportsAreOfTheTree /\ RedHasReason
  BY DEF AuditInv
<1>1. /\ job.at = "full" /\ job' = IdleJob /\ job'.at = "idle" /\ job'.known = {}
      /\ UNCHANGED <<published, deps, exceptions, today>>
      /\ outcome' = [is |-> is, failed |-> failed, committed |-> FALSE]
  BY DEF EnforceThresholds, IdleJob
<1>2. outcome'.is = is /\ outcome'.failed = failed /\ outcome'.committed = FALSE
  BY <1>1
<1>3. ~failed => /\ \A a \in failures : a \in published /\ Outstanding(a)
                 /\ \A a \in job.known : Outstanding(a) => a \in failures
  BY <1>1, FailuresAreOutstanding
<1>4. AuditTypes'
  BY <1>0, <1>1, <1>2 DEF AuditTypes, IdleJob
<1>5. RedHasReason'
  <2> SUFFICES ASSUME is = "red", ~failed
               PROVE  invalid' # {} \/ \E a \in published : Outstanding(a)'
    BY <1>1, <1>2 DEF RedHasReason
  <2>1. failures # {} \/ invalid # {}
    OBVIOUS
  <2>2. invalid' = invalid
    BY <1>1 DEF invalid
  <2>3. \A a : Outstanding(a) => Outstanding(a)'
    BY <1>0, <1>1, RemainsOutstanding
  <2>. QED
    BY <1>3, <2>1, <2>2, <2>3
<1>6. ASSUME TurnsGreen, NEW a \in job.known PROVE Accepted(a)
  <2>1. ~failed /\ failures = {}
    BY <1>2, <1>6 DEF TurnsGreen
  <2>2. ~Outstanding(a)
    BY <1>3, <2>1
  <2>3. a \in Advisories /\ a.packageName \in Packages /\ a.severity \in {"moderate", "high", "critical"}
        /\ deps[a.packageName] \in Scopes
    BY <1>0, AdvisoriesAssumption DEF AuditTypes
  <2>4. CASE isCovered(a)
    BY <2>4 DEF isCovered, active, Accepted
  <2>5. CASE ~isCovered(a)
    BY <2>2, <2>3, <2>5 DEF Outstanding, Accepted, Scopes
  <2>. QED
    BY <2>4, <2>5
<1>7. ASSUME outcome.is = "red", ~outcome.failed, ~outcome.committed PROVE is = "red"
  <2>1. invalid # {} \/ \E a \in job.known : Outstanding(a)
    BY <1>0, <1>1, <1>7 DEF RedHasReason
  <2>. QED
    BY <1>3, <2>1
<1>8. ReportsAreOfTheTree'
  BY <1>1 DEF ReportsAreOfTheTree
<1>. QED
  BY <1>2, <1>4, <1>5, <1>6, <1>7, <1>8 DEF AuditInv, Earned

LEMMA CommitInv ==
  ASSUME AuditInv, NEW newDeps \in [Packages -> Scopes], NEW newExceptions \in SUBSET Entries,
         Commit(newDeps, newExceptions)
  PROVE  AuditInv' /\ Earned
<1>0. AuditTypes
  BY DEF AuditInv
<1>1. /\ deps' = newDeps /\ exceptions' = newExceptions /\ job' = IdleJob
      /\ outcome' = [outcome EXCEPT !.committed = outcome.is # "none"]
      /\ UNCHANGED <<published, today>>
  BY DEF Commit
<1>2. /\ outcome'.is = outcome.is /\ outcome'.committed = (outcome.is # "none")
      /\ outcome' = [is |-> outcome'.is, failed |-> outcome'.failed, committed |-> outcome'.committed]
  BY <1>0, <1>1 DEF AuditTypes
<1>3. job'.at = "idle" /\ job'.known = {}
      /\ job' = [at |-> job'.at, prod |-> job'.prod, full |-> job'.full, known |-> job'.known]
  BY <1>1 DEF IdleJob
<1>4. AuditTypes'
  BY <1>0, <1>1, <1>2, <1>3 DEF AuditTypes
<1>5. ReportsAreOfTheTree' /\ RedHasReason'
  BY <1>2, <1>3 DEF ReportsAreOfTheTree, RedHasReason
<1>. QED
  BY <1>2, <1>4, <1>5 DEF AuditInv, Earned, TurnsGreen

LEMMA AuditStep == AuditInv /\ [AuditNext]_auditVars => AuditInv' /\ Earned
<1> SUFFICES ASSUME AuditInv, [AuditNext]_auditVars
             PROVE  AuditInv' /\ Earned
  OBVIOUS
<1>0. AuditTypes /\ ReportsAreOfTheTree /\ RedHasReason
  BY DEF AuditInv
<1>1. ASSUME NEW a \in Advisories, Publish(a) PROVE AuditInv' /\ Earned
  <2>1. published' = published \union {a} /\ UNCHANGED <<deps, exceptions, today, job, outcome>>
    BY <1>1 DEF Publish
  <2>2. \A b : Outstanding(b) => Outstanding(b)'
    BY <1>0, <2>1, RemainsOutstanding
  <2>3. invalid' = invalid
    BY <2>1 DEF invalid
  <2>4. RedHasReason'
    BY <1>0, <2>1, <2>2, <2>3 DEF RedHasReason
  <2>5. AuditTypes'
    BY <1>0, <2>1 DEF AuditTypes
  <2>6. ReportsAreOfTheTree'
    BY <1>0, <2>1 DEF ReportsAreOfTheTree
  <2>. QED
    BY <2>1, <2>4, <2>5, <2>6 DEF AuditInv, Earned, TurnsGreen
<1>2. CASE DayPasses
  <2>1. today' = today + 1 /\ UNCHANGED <<published, deps, exceptions, job, outcome>>
    BY <1>2 DEF DayPasses
  <2>2. \A b : Outstanding(b) => Outstanding(b)'
    BY <1>0, <2>1, RemainsOutstanding
  <2>3. invalid' = invalid
    BY <2>1 DEF invalid
  <2>4. RedHasReason'
    BY <1>0, <2>1, <2>2, <2>3 DEF RedHasReason
  <2>5. today' \in Int
    BY <1>0, <2>1 DEF AuditTypes
  <2>6. AuditTypes'
    BY <1>0, <2>1, <2>5 DEF AuditTypes
  <2>7. ReportsAreOfTheTree'
    BY <1>0, <2>1 DEF ReportsAreOfTheTree
  <2>. QED
    BY <2>1, <2>4, <2>6, <2>7 DEF AuditInv, Earned, TurnsGreen
<1>3. ASSUME NEW p \in Packages, NEW scope \in Scopes, MoveDependency(p, scope)
      PROVE  AuditInv' /\ Earned
  <2>1. [deps EXCEPT ![p] = scope] \in [Packages -> Scopes] /\ exceptions \in SUBSET Entries
    BY <1>0 DEF AuditTypes
  <2>. QED
    BY <1>3, <2>1, CommitInv DEF MoveDependency
<1>4. ASSUME NEW e \in Entries, AddException(e) PROVE AuditInv' /\ Earned
  BY <1>0, <1>4, CommitInv DEF AddException, AuditTypes
<1>5. ASSUME NEW e \in exceptions, DropException(e) PROVE AuditInv' /\ Earned
  BY <1>0, <1>5, CommitInv DEF DropException, AuditTypes
<1>6. CASE AuditProduction
  <2>1. PICK report \in {AuditReport({"production"}), NoAnswer} :
          job' = [job EXCEPT !.at = "production", !.prod = report, !.known = published]
    BY <1>6 DEF AuditProduction
  <2>2. job.at = "idle" /\ UNCHANGED <<published, deps, exceptions, today, outcome>>
    BY <1>6 DEF AuditProduction
  <2>3. /\ job'.at = "production" /\ job'.prod = report /\ job'.known = published
        /\ job' = [at |-> job'.at, prod |-> job'.prod, full |-> job'.full, known |-> job'.known]
    BY <1>0, <2>1 DEF AuditTypes
  <2>4. AuditTypes'
    BY <1>0, <2>2, <2>3 DEF AuditTypes
  <2>5. ReportsAreOfTheTree'
    BY <1>0, <2>2, <2>3 DEF ReportsAreOfTheTree, AuditReport
  <2>6. \A b : Outstanding(b) => Outstanding(b)'
    BY <1>0, <2>2, RemainsOutstanding
  <2>7. RedHasReason'
    BY <1>0, <2>2, <2>3, <2>6 DEF RedHasReason, invalid
  <2>. QED
    BY <2>2, <2>3, <2>4, <2>5, <2>7 DEF AuditInv, Earned, TurnsGreen
<1>7. CASE AuditFull
  <2>1. PICK report \in {AuditReport({"production", "development"}), NoAnswer} :
          job' = [job EXCEPT !.at = "full", !.full = report]
    BY <1>7 DEF AuditFull
  <2>2. job.at = "production" /\ UNCHANGED <<published, deps, exceptions, today, outcome>>
    BY <1>7 DEF AuditFull
  <2>3. /\ job'.at = "full" /\ job'.prod = job.prod /\ job'.full = report /\ job'.known = job.known
        /\ job' = [at |-> job'.at, prod |-> job'.prod, full |-> job'.full, known |-> job'.known]
    BY <1>0, <2>1 DEF AuditTypes
  <2>4. AuditTypes'
    BY <1>0, <2>2, <2>3 DEF AuditTypes
  <2>5. ReportsAreOfTheTree'
    BY <1>0, <2>2, <2>3 DEF ReportsAreOfTheTree, AuditReport, AuditTypes
  <2>6. \A b : Outstanding(b) => Outstanding(b)'
    BY <1>0, <2>2, RemainsOutstanding
  <2>7. RedHasReason'
    BY <1>0, <2>2, <2>3, <2>6 DEF RedHasReason, invalid
  <2>. QED
    BY <2>2, <2>3, <2>4, <2>5, <2>7 DEF AuditInv, Earned, TurnsGreen
<1>8. CASE EnforceThresholds
  BY <1>8, EnforceInv
<1>9. CASE StepFails
  <2>1. /\ outcome' = [is |-> "red", failed |-> TRUE, committed |-> FALSE]
        /\ job' = IdleJob /\ UNCHANGED <<published, deps, exceptions, today>>
    BY <1>9 DEF StepFails
  <2>2. outcome'.is = "red" /\ outcome'.failed = TRUE /\ outcome'.committed = FALSE
    BY <2>1
  <2>3. AuditTypes'
    BY <1>0, <2>1, <2>2 DEF AuditTypes, IdleJob
  <2>4. ReportsAreOfTheTree' /\ RedHasReason'
    BY <2>1, <2>2 DEF IdleJob, ReportsAreOfTheTree, RedHasReason
  <2>. QED
    BY <2>2, <2>3, <2>4 DEF AuditInv, Earned, TurnsGreen
<1>10. CASE UNCHANGED auditVars
  BY <1>0, <1>10 DEF auditVars, AuditInv, AuditTypes, ReportsAreOfTheTree, RedHasReason, invalid,
     Outstanding, isCovered, active, Earned, TurnsGreen
<1>. QED
  BY <1>1, <1>2, <1>3, <1>4, <1>5, <1>6, <1>7, <1>8, <1>9, <1>10 DEF AuditNext, Scopes

-----------------------------------------------------------------------------
(***************************************************************************)
(* The gate on changes of the visual baseline.                             *)
(***************************************************************************)

ReviewType ==
  [user: Users, state: {"APPROVED", "CHANGES_REQUESTED", "COMMENTED", "DISMISSED"},
   signal: BOOLEAN, commitId: Nat]

Permissions == {"unasked", "write", "none", "unknown"}

GateTypes ==
  /\ pushes \in Seq(PushKinds) /\ verdict \in Seq({"none", "green", "red"})
  /\ Len(verdict) = Len(pushes) /\ Len(pushes) >= 1
  /\ reviews \in Seq(ReviewType)
  /\ writers \subseteq Users
  /\ permissions \in [Users -> Permissions]
  /\ gate.at \in {"none", "started", "listed", "evaluated"}
  /\ gate = [at |-> gate.at, of |-> gate.of, approved |-> gate.approved, stood |-> gate.stood]
  /\ gate.at # "none" => gate.of \in 1..Len(pushes)

\* Whoever is found to have write access had it when the job began.
FoundAreEntitled ==
  /\ gate.at # "none" => writers \subseteq entitled
  /\ \A u \in Users : permissions[u] = "write" => u \in entitled

\* What the job in progress has let pass stood when it decided.
PassedStood ==
  gate.at = "evaluated" /\ gate.approved /\ pushes[gate.of] = "changed" => gate.stood

GateInv == GateTypes /\ FoundAreEntitled /\ PassedStood /\ GreenIsApproved

LEMMA GateInitInv == GateInit => GateInv
<1> SUFFICES ASSUME GateInit
             PROVE  GateInv
  OBVIOUS
<1>1. PICK p \in PushKinds : pushes = <<p>>
  BY DEF GateInit
<1>2. pushes \in Seq(PushKinds) /\ Len(pushes) = 1
  BY <1>1
<1>3. verdict \in Seq({"none", "green", "red"}) /\ Len(verdict) = 1 /\ verdict[1] = "none"
      /\ DOMAIN pushes = {1}
  BY <1>1 DEF GateInit
<1>4. reviews \in Seq(ReviewType)
  BY EmptySeq DEF GateInit
<1>5. permissions \in [Users -> Permissions] /\ \A u \in Users : permissions[u] = "unasked"
  BY DEF GateInit, NoPermissions, Permissions
<1>6. gate = [at |-> "started", of |-> 1, approved |-> FALSE, stood |-> FALSE]
  BY DEF GateInit, NoGate
<1>7. GateTypes
  <2>1. writers \subseteq Users /\ Len(verdict) = Len(pushes) /\ Len(pushes) >= 1
    BY <1>2, <1>3, GateAssumption DEF GateInit
  <2>2. gate.at = "started" /\ gate.of = 1 /\ gate.of \in 1..Len(pushes)
        /\ gate = [at |-> gate.at, of |-> gate.of, approved |-> gate.approved, stood |-> gate.stood]
    BY <1>2, <1>6
  <2>. QED
    BY <1>2, <1>3, <1>4, <1>5, <2>1, <2>2 DEF GateTypes
<1>8. FoundAreEntitled /\ PassedStood
  BY <1>5, <1>6 DEF GateInit, FoundAreEntitled, PassedStood
<1>9. GreenIsApproved
  BY <1>3 DEF GateInit, GreenIsApproved
<1>. QED
  BY <1>7, <1>8, <1>9 DEF GateInv

\* The decision lets a change pass only on an approval that stands: the last
\* review of someone other than the author who could write when the job began
\* or, where the lookup failed, who is associated.
LEMMA DecisionIsIndependent ==
  ASSUME GateTypes, FoundAreEntitled, NEW of, pushes[of] = "changed",
         evaluateBaselineApproval(of)
  PROVE  IndependentlyApproved(of)
<1>1. PICK u \in Users : \E i \in latestReviewPerUser(u) : ValidApproval(i, of)
  BY DEF evaluateBaselineApproval
<1>2. PICK i \in latestReviewPerUser(u) : ValidApproval(i, of)
  BY <1>1
<1>3. /\ i \in DOMAIN reviews /\ reviews[i].user = u
      /\ \A j \in DOMAIN reviews : reviews[j].user = reviews[i].user => j <= i
  BY <1>2 DEF latestReviewPerUser
<1>4. DOMAIN reviews = 1..Len(reviews) /\ Len(reviews) \in Nat
  BY DEF GateTypes
<1>5. \A j \in DOMAIN reviews : j > i /\ reviews[j].user = reviews[i].user => FALSE
  BY <1>3, <1>4
<1>6. resolvePermission(u) = "write"
  BY <1>2, <1>3 DEF ValidApproval
<1>7. u \in entitled \/ (permissions[u] = "unknown" /\ u \in Associates)
  BY <1>6 DEF resolvePermission, FoundAreEntitled
<1>. QED
  BY <1>2, <1>3, <1>5, <1>7 DEF ValidApproval, IndependentlyApproved

\* A job that begins has found nobody yet.
LEMMA JobBegins ==
  ASSUME GateTypes, NEW of, GateStarts(of), writers' = writers
  PROVE  /\ gate' = [at |-> "started", of |-> of, approved |-> FALSE, stood |-> FALSE]
         /\ permissions' \in [Users -> Permissions]
         /\ FoundAreEntitled'
<1>1. permissions' = [u \in Users |-> "unasked"] /\ entitled' = writers
  BY DEF GateStarts, NoPermissions
<1>. QED
  BY <1>1 DEF GateStarts, NoGate, Permissions, FoundAreEntitled

\* A job that ends leaves nothing behind but its colour.
LEMMA JobEnds ==
  ASSUME GateEnds
  PROVE  /\ gate'.at = "none"
         /\ gate' = [at |-> gate'.at, of |-> gate'.of, approved |-> gate'.approved, stood |-> gate'.stood]
         /\ permissions' \in [Users -> Permissions]
         /\ FoundAreEntitled'
<1>1. permissions' = [u \in Users |-> "unasked"] /\ gate' = NoGate
  BY DEF GateEnds, NoPermissions
<1>. QED
  BY <1>1 DEF NoGate, Permissions, FoundAreEntitled

\* The job ends in green only for a commit without a change of the baseline
\* that it looks at, or on an approval that stood.
LEMMA ColourInv ==
  ASSUME GateInv, gate.at # "none", NEW colour \in {"green", "red"}, Colour(gate.of, colour),
         colour = "green" /\ pushes[gate.of] = "changed" => gate.stood
  PROVE  GateInv'
<1> DEFINE k == gate.of
<1>0. /\ GateTypes /\ GreenIsApproved /\ GateEnds /\ UNCHANGED <<pushes, reviews, writers>>
      /\ verdict' = [verdict EXCEPT ![k] = colour]
      /\ standing' = IF colour = "green" /\ gate.stood THEN standing \union {k} ELSE standing \ {k}
  BY DEF Colour, GateInv
<1>1. k \in 1..Len(pushes) /\ k \in 1..Len(verdict)
      /\ DOMAIN pushes = 1..Len(pushes) /\ DOMAIN verdict = 1..Len(verdict)
  BY <1>0 DEF GateTypes
<1>2. verdict' \in Seq({"none", "green", "red"}) /\ Len(verdict') = Len(verdict)
  BY <1>0, <1>1, ExceptSeq DEF GateTypes
<1>3. GateTypes'
  BY <1>0, <1>2, JobEnds DEF GateTypes
<1>4. GreenIsApproved'
  <2> SUFFICES ASSUME NEW m \in DOMAIN pushes, verdict'[m] = "green", pushes[m] = "changed"
               PROVE  m \in standing'
    BY <1>0 DEF GreenIsApproved
  <2>1. CASE m = k
    <3>1. colour = "green"
      BY <1>0, <1>1, <2>1
    <3>. QED
      BY <1>0, <2>1, <3>1
  <2>2. CASE m # k
    <3>1. verdict[m] = "green"
      BY <1>0, <1>1, <2>2 DEF GateTypes
    <3>. QED
      BY <1>0, <2>2, <3>1 DEF GreenIsApproved
  <2>. QED
    BY <2>1, <2>2
<1>. QED
  BY <1>0, <1>3, <1>4, JobEnds DEF GateInv, PassedStood

\* Reviews come and change: the job in progress is cancelled.
LEMMA ReviewedInv ==
  ASSUME GateInv, reviews' \in Seq(ReviewType), ReviewEvent,
         UNCHANGED <<pushes, writers, verdict, standing>>
  PROVE  GateInv'
<1>1. GateTypes'
  BY JobEnds DEF ReviewEvent, GateInv, GateTypes
<1>. QED
  BY <1>1, JobEnds DEF ReviewEvent, GateInv, PassedStood, GreenIsApproved

LEMMA GateNextInv == GateInv /\ [GateNext]_gateVars => GateInv'
<1> SUFFICES ASSUME GateInv, [GateNext]_gateVars
             PROVE  GateInv'
  OBVIOUS
<1>0. GateTypes /\ FoundAreEntitled /\ PassedStood /\ GreenIsApproved
  BY DEF GateInv
<1>d. /\ DOMAIN pushes = 1..Len(pushes) /\ Len(pushes) \in Nat
      /\ DOMAIN verdict = 1..Len(verdict) /\ DOMAIN reviews = 1..Len(reviews)
  BY <1>0 DEF GateTypes
<1>1. ASSUME NEW p \in PushKinds, PushCommit(p) PROVE GateInv'
  <2>1. /\ pushes' = Append(pushes, p) /\ verdict' = Append(verdict, "none")
        /\ GateStarts(Len(pushes) + 1)
        /\ UNCHANGED <<reviews, writers, standing>>
    BY <1>1 DEF PushCommit, headCommit
  <2>2. /\ pushes' \in Seq(PushKinds) /\ verdict' \in Seq({"none", "green", "red"})
        /\ Len(pushes') = Len(pushes) + 1 /\ Len(verdict') = Len(pushes')
        /\ \A k \in 1..Len(pushes) : pushes'[k] = pushes[k] /\ verdict'[k] = verdict[k]
        /\ verdict'[Len(pushes')] = "none" /\ DOMAIN pushes' = 1..Len(pushes')
    BY <1>0, <1>d, <2>1 DEF GateTypes
  <2>3. /\ gate' = [at |-> "started", of |-> Len(pushes'), approved |-> FALSE, stood |-> FALSE]
        /\ permissions' \in [Users -> Permissions] /\ FoundAreEntitled'
    BY <1>0, <2>1, <2>2, JobBegins
  <2>4. GateTypes'
    BY <1>0, <1>d, <2>1, <2>2, <2>3 DEF GateTypes
  <2>5. GreenIsApproved'
    <3> SUFFICES ASSUME NEW k \in DOMAIN pushes', verdict'[k] = "green", pushes'[k] = "changed"
                 PROVE  k \in standing
      BY <2>1 DEF GreenIsApproved
    <3>1. k \in 1..Len(pushes)
      BY <1>d, <2>2
    <3>. QED
      BY <1>0, <1>d, <2>2, <3>1 DEF GreenIsApproved
  <2>. QED
    BY <2>3, <2>4, <2>5 DEF GateInv, PassedStood
<1>2. ASSUME NEW u \in Users, NEW state \in {"APPROVED", "CHANGES_REQUESTED", "COMMENTED"},
             NEW signal \in BOOLEAN, SubmitReview(u, state, signal)
      PROVE  GateInv'
  <2>1. /\ reviews' = Append(reviews, [user |-> u, state |-> state, signal |-> signal,
                                       commitId |-> Len(pushes)])
        /\ ReviewEvent /\ UNCHANGED <<pushes, writers, verdict, standing>>
    BY <1>2 DEF SubmitReview, headCommit
  <2>2. [user |-> u, state |-> state, signal |-> signal, commitId |-> Len(pushes)] \in ReviewType
    BY <1>d DEF ReviewType
  <2>3. reviews' \in Seq(ReviewType)
    BY <1>0, <2>1, <2>2 DEF GateTypes
  <2>. QED
    BY <2>1, <2>3, ReviewedInv
<1>3. ASSUME NEW i \in DOMAIN reviews, EditReview(i) \/ DismissReview(i) PROVE GateInv'
  <2>0. i \in 1..Len(reviews) /\ reviews[i] \in ReviewType
    BY <1>0, <1>d DEF GateTypes
  <2>1. /\ \/ reviews' = [reviews EXCEPT ![i] = [reviews[i] EXCEPT !.signal = ~@]]
           \/ reviews' = [reviews EXCEPT ![i] = [reviews[i] EXCEPT !.state = "DISMISSED"]]
        /\ ReviewEvent /\ UNCHANGED <<pushes, writers, verdict, standing>>
    BY <1>3 DEF EditReview, DismissReview
  <2>2. /\ [reviews[i] EXCEPT !.signal = ~@] \in ReviewType
        /\ [reviews[i] EXCEPT !.state = "DISMISSED"] \in ReviewType
    BY <2>0 DEF ReviewType
  <2>3. reviews' \in Seq(ReviewType)
    <3>1. \A new \in ReviewType : [reviews EXCEPT ![i] = new] \in Seq(ReviewType)
      BY <1>0, <2>0, ExceptSeq DEF GateTypes
    <3>. QED
      BY <2>1, <2>2, <3>1
  <2>. QED
    BY <2>1, <2>3, ReviewedInv
<1>4. ASSUME NEW u \in Users, RevokeAccess(u) PROVE GateInv'
  BY <1>0, <1>4 DEF RevokeAccess, GateInv, GateTypes, FoundAreEntitled, PassedStood, GreenIsApproved
<1>5. CASE RunAgain
  <2>1. GateStarts(Len(pushes)) /\ UNCHANGED <<pushes, reviews, writers, verdict, standing>>
    BY <1>5 DEF RunAgain, headCommit
  <2>2. /\ gate' = [at |-> "started", of |-> Len(pushes), approved |-> FALSE, stood |-> FALSE]
        /\ permissions' \in [Users -> Permissions] /\ FoundAreEntitled'
    BY <1>0, <2>1, JobBegins
  <2>. QED
    BY <1>0, <2>1, <2>2 DEF GateInv, GateTypes, PassedStood, GreenIsApproved
<1>6. CASE ReportInactive
  BY <1>6, ColourInv DEF ReportInactive
<1>7. CASE ListReviews
  <2>1. gate.at = "started" /\ gate' = [gate EXCEPT !.at = "listed"]
        /\ UNCHANGED <<pushes, reviews, writers, permissions, verdict, entitled, standing>>
    BY <1>7 DEF ListReviews
  <2>2. gate'.at = "listed" /\ gate'.of = gate.of
        /\ gate' = [at |-> gate'.at, of |-> gate'.of, approved |-> gate'.approved, stood |-> gate'.stood]
    BY <1>0, <2>1 DEF GateTypes
  <2>. QED
    BY <1>0, <2>1, <2>2 DEF GateInv, GateTypes, FoundAreEntitled, PassedStood, GreenIsApproved
<1>8. ASSUME NEW i \in DOMAIN reviews, LookUpPermission(i) PROVE GateInv'
  <2> DEFINE user == reviews[i].user
  <2>1. PICK found \in {IF user \in writers THEN "write" ELSE "none", "unknown"} :
          permissions' = [permissions EXCEPT ![user] = found]
    BY <1>8 DEF LookUpPermission
  <2>2. gate.at = "listed" /\ UNCHANGED <<pushes, reviews, writers, gate, verdict, entitled, standing>>
    BY <1>8 DEF LookUpPermission
  <2>3. found \in Permissions /\ (found = "write" => user \in entitled)
    BY <1>0, <2>2 DEF Permissions, FoundAreEntitled
  <2>4. permissions' \in [Users -> Permissions]
    BY <1>0, <2>1, <2>3 DEF GateTypes
  <2>5. FoundAreEntitled'
    BY <1>0, <2>1, <2>2, <2>3 DEF GateTypes, FoundAreEntitled
  <2>. QED
    BY <1>0, <2>2, <2>4, <2>5 DEF GateInv, GateTypes, PassedStood, GreenIsApproved
<1>9. CASE GateFails
  BY <1>9, ColourInv DEF GateFails
<1>10. CASE EvaluateApproval
  <2>1. /\ gate.at = "listed"
        /\ gate' = [gate EXCEPT !.at = "evaluated", !.approved = evaluateBaselineApproval(gate.of),
                                !.stood = IndependentlyApproved(gate.of)]
        /\ UNCHANGED <<pushes, reviews, writers, permissions, verdict, entitled, standing>>
    BY <1>10 DEF EvaluateApproval
  <2>2. /\ gate'.at = "evaluated" /\ gate'.of = gate.of
        /\ gate'.approved = evaluateBaselineApproval(gate.of)
        /\ gate'.stood = IndependentlyApproved(gate.of)
        /\ gate' = [at |-> gate'.at, of |-> gate'.of, approved |-> gate'.approved, stood |-> gate'.stood]
    BY <1>0, <2>1, Zenon DEF GateTypes
  <2>3. PassedStood'
    BY <1>0, <2>1, <2>2, DecisionIsIndependent DEF PassedStood
  <2>4. GateTypes'
    BY <1>0, <2>1, <2>2 DEF GateTypes
  <2>. QED
    BY <1>0, <2>1, <2>2, <2>3, <2>4 DEF GateInv, FoundAreEntitled, GreenIsApproved
<1>11. CASE EnforceGate
  <2>1. PICK suiteGreen \in BOOLEAN : Colour(gate.of, Enforced(suiteGreen, gate.of))
    BY <1>11 DEF EnforceGate
  <2>2. gate.at = "evaluated" /\ Enforced(suiteGreen, gate.of) \in {"green", "red"}
    BY <1>11 DEF EnforceGate, Enforced
  <2>3. Enforced(suiteGreen, gate.of) = "green" /\ pushes[gate.of] = "changed" => gate.stood
    BY <1>0, <2>2 DEF Enforced, PassedStood
  <2>. QED
    BY <2>1, <2>2, <2>3, ColourInv
<1>12. CASE UNCHANGED gateVars
  BY <1>0, <1>12 DEF gateVars, GateInv, GateTypes, FoundAreEntitled, PassedStood, GreenIsApproved
<1>. QED
  BY <1>1, <1>2, <1>3, <1>4, <1>5, <1>6, <1>7, <1>8, <1>9, <1>10, <1>11, <1>12 DEF GateNext

-----------------------------------------------------------------------------
(***************************************************************************)
(* The policy of the automatic merge.                                      *)
(***************************************************************************)

MaybeVersions == Versions \union {Unreadable}
OnePatch(x, y) ==
  /\ x # Unreadable /\ y # Unreadable /\ ~x.pre /\ ~y.pre
  /\ x.major = y.major /\ x.minor = y.minor /\ x.patch < y.patch

\* bumpLevel() calls a patch what is one, and nothing else.
LEMMA PatchIsOnePatch ==
  ASSUME NEW x \in MaybeVersions, NEW y \in MaybeVersions, bumpLevel(x, y) = "patch"
  PROVE  OnePatch(x, y)
<1>1. /\ Unreadable \notin {x, y} /\ ~(x.pre \/ y.pre) /\ x # y /\ ~Precedes(y, x)
      /\ x.major = y.major /\ x.minor = y.minor
  BY DEF bumpLevel
<1>2. x \in Versions /\ y \in Versions
  BY <1>1 DEF MaybeVersions
<1>3. /\ x.patch \in Nat /\ y.patch \in Nat /\ x.pre = FALSE /\ y.pre = FALSE
      /\ x = [major |-> x.major, minor |-> x.minor, patch |-> x.patch, pre |-> x.pre]
      /\ y = [major |-> y.major, minor |-> y.minor, patch |-> y.patch, pre |-> y.pre]
  BY <1>1, <1>2 DEF Versions
<1>4. x.patch # y.patch
  BY <1>1, <1>3
<1>5. ~(y.patch < x.patch)
  BY <1>1 DEF Precedes
<1>. QED
  BY <1>1, <1>3, <1>4, <1>5 DEF OnePatch

\* A removal is a change to 0.0.0, which is no patch of anything.
LEMMA RemovalIsNoPatch ==
  ASSUME NEW x \in MaybeVersions
  PROVE  bumpLevel(x, Zero) # "patch"
<1> SUFFICES ASSUME bumpLevel(x, Zero) = "patch"
             PROVE  FALSE
  OBVIOUS
<1>1. Zero \in MaybeVersions /\ Zero.patch = 0
  BY DEF Zero, Versions, MaybeVersions
<1>2. OnePatch(x, Zero)
  BY <1>1, PatchIsOnePatch
<1>3. x.patch \in Nat
  BY <1>2 DEF OnePatch, MaybeVersions, Versions
<1>. QED
  BY <1>1, <1>2, <1>3 DEF OnePatch

LEMMA RefIsVersion ==
  ASSUME NEW ref \in Seq(Nat)
  PROVE  normaliseActionRef(ref) \in MaybeVersions
<1> DEFINE piece(i) == IF i <= Len(ref) THEN ref[i] ELSE 0
<1>1. \A i \in {1, 2, 3} : piece(i) \in Nat
  OBVIOUS
<1>2. CASE ref = <<>>
  BY <1>2 DEF normaliseActionRef, MaybeVersions
<1>3. CASE ref # <<>>
  <2>1. normaliseActionRef(ref) = [major |-> piece(1), minor |-> piece(2), patch |-> piece(3), pre |-> FALSE]
    BY <1>3 DEF normaliseActionRef
  <2> HIDE DEF piece
  <2>2. [major |-> piece(1), minor |-> piece(2), patch |-> piece(3), pre |-> FALSE] \in Versions
    BY <1>1 DEF Versions
  <2>. QED
    BY <2>1, <2>2 DEF MaybeVersions
<1>. QED
  BY <1>2, <1>3

\* The first use of an action exists, and is one of its uses.
LEMMA ReadRefIsRef ==
  ASSUME NEW uses_ \in Seq([name : STRING, ref : Seq(Nat)]), NEW n \in DOMAIN readActionRefs(uses_)
  PROVE  readActionRefs(uses_)[n] \in Seq(Nat)
<1> DEFINE own == {i \in DOMAIN uses_ : uses_[i].name = n}
           first == CHOOSE i \in DOMAIN uses_ :
                      uses_[i].name = n /\ \A j \in DOMAIN uses_ : uses_[j].name = n => i <= j
<1>1. own # {} /\ own \subseteq Nat
  BY DEF readActionRefs
<1>2. PICK i \in own : \A j \in own : i <= j
  BY <1>1, LeastNumber
<1>3. i \in DOMAIN uses_ /\ uses_[i].name = n /\ \A j \in DOMAIN uses_ : uses_[j].name = n => i <= j
  BY <1>2
<1>4. first \in DOMAIN uses_
  BY <1>3
<1>5. readActionRefs(uses_)[n] = uses_[first].ref
  BY DEF readActionRefs
<1>6. \A k \in DOMAIN uses_ : uses_[k] \in [name : STRING, ref : Seq(Nat)]
  <2> DEFINE T == [name : STRING, ref : Seq(Nat)]
  <2>1. uses_ \in Seq(T)
    OBVIOUS
  <2> HIDE DEF T
  <2>2. \A k \in DOMAIN uses_ : uses_[k] \in T
    BY <2>1
  <2>. QED
    BY <2>2 DEF T
<1> HIDE DEF first
<1>. QED
  BY <1>4, <1>5, <1>6

\* What ArmedIsSmall asks of the commit that is armed.
SmallChange(c) ==
  LET refs == readActionRefs(c.uses)
      baseRefs == readActionRefs(Base.uses)
  IN  /\ ~c.other /\ ~draft
      /\ \A n \in DOMAIN Base.deps :
           /\ n \in DOMAIN c.deps
           /\ \/ c.deps[n] = Base.deps[n]
              \/ n \notin Exempt /\ OnePatch(Base.deps[n].version, c.deps[n].version)
      /\ \A n \in DOMAIN baseRefs \intersect DOMAIN refs :
           \/ refs[n] = baseRefs[n]
           \/ OnePatch(normaliseActionRef(baseRefs[n]), normaliseActionRef(refs[n]))

\* The decision on the files and manifests of one and the same commit.
LEMMA DecidedIsSmall ==
  ASSUME NEW c \in Contents, NEW unread, NEW cs, NEW required,
         decideTriage(draft, FilesOf(c), CollectedChanges(FilesOf(c), c) \union unread, cs, required)
  PROVE  SmallChange(c) /\ evaluateCi(cs, required)
<1> DEFINE files == FilesOf(c)
           refs == readActionRefs(c.uses)
           baseRefs == readActionRefs(Base.uses)
<1>1. /\ ~draft /\ "other" \notin files /\ evaluateCi(cs, required)
      /\ \A d \in CollectedChanges(files, c) : d.level = "patch" /\ d.packageName \notin Exempt
  BY DEF decideTriage, isClassifiableFile
<1>2. ~c.other
  BY <1>1 DEF FilesOf
<1>3. ASSUME NEW n \in DOMAIN Base.deps
      PROVE  /\ n \in DOMAIN c.deps
             /\ \/ c.deps[n] = Base.deps[n]
                \/ n \notin Exempt /\ OnePatch(Base.deps[n].version, c.deps[n].version)
  <2>1. CASE c.deps = Base.deps
    BY <2>1
  <2>2. CASE c.deps # Base.deps
    <3>1. "package.json" \in files
      BY <2>2 DEF FilesOf
    <3>2. diffDependencyMaps(Base.deps, c.deps) \subseteq CollectedChanges(files, c)
      BY <3>1 DEF CollectedChanges
    <3>3. Base.deps[n].version \in MaybeVersions
      BY ContentsAssumption DEF MaybeVersions
    <3>4. n \in DOMAIN c.deps
      <4> SUFFICES ASSUME n \notin DOMAIN c.deps
                   PROVE  FALSE
        OBVIOUS
      <4>1. [packageName |-> n, level |-> bumpLevel(Base.deps[n].version, Zero)]
              \in diffDependencyMaps(Base.deps, c.deps)
        BY DEF diffDependencyMaps
      <4>2. bumpLevel(Base.deps[n].version, Zero) = "patch"
        BY <1>1, <3>2, <4>1
      <4>. QED
        BY <3>3, <4>2, RemovalIsNoPatch
    <3>5. CASE c.deps[n] # Base.deps[n]
      <4>1. [packageName |-> n, level |-> bumpLevel(Base.deps[n].version, c.deps[n].version)]
              \in diffDependencyMaps(Base.deps, c.deps)
        BY <3>4, <3>5 DEF diffDependencyMaps, Moved
      <4>2. bumpLevel(Base.deps[n].version, c.deps[n].version) = "patch" /\ n \notin Exempt
        BY <1>1, <3>2, <4>1
      <4>3. c.deps[n].version \in MaybeVersions
        BY <3>4, ContentsAssumption DEF MaybeVersions
      <4>. QED
        BY <3>3, <3>4, <4>2, <4>3, PatchIsOnePatch
    <3>. QED
      BY <3>4, <3>5
  <2>. QED
    BY <2>1, <2>2
<1>4. ASSUME NEW n \in DOMAIN baseRefs \intersect DOMAIN refs
      PROVE  \/ refs[n] = baseRefs[n]
             \/ OnePatch(normaliseActionRef(baseRefs[n]), normaliseActionRef(refs[n]))
  <2>1. CASE c.uses = Base.uses
    BY <2>1
  <2>2. CASE c.uses # Base.uses /\ refs[n] # baseRefs[n]
    <3>1. "workflow" \in files
      BY <2>2 DEF FilesOf
    <3>2. diffActionRefs(baseRefs, refs) \subseteq CollectedChanges(files, c)
      BY <3>1 DEF CollectedChanges
    <3>3. [packageName |-> n,
           level |-> bumpLevel(normaliseActionRef(baseRefs[n]), normaliseActionRef(refs[n]))]
            \in diffActionRefs(baseRefs, refs)
      BY <2>2 DEF diffActionRefs, Moved
    <3>4. bumpLevel(normaliseActionRef(baseRefs[n]), normaliseActionRef(refs[n])) = "patch"
      BY <1>1, <3>2, <3>3
    <3>5. /\ Base.uses \in Seq([name : STRING, ref : Seq(Nat)])
          /\ c.uses \in Seq([name : STRING, ref : Seq(Nat)])
      BY ContentsAssumption
    <3>6. baseRefs[n] \in Seq(Nat) /\ refs[n] \in Seq(Nat)
      BY <3>5, ReadRefIsRef
    <3>. QED
      BY <3>4, <3>6, RefIsVersion, PatchIsOnePatch
  <2>. QED
    BY <2>1, <2>2
<1>. QED
  BY <1>1, <1>2, <1>3, <1>4 DEF SmallChange

-----------------------------------------------------------------------------
(***************************************************************************)
(* The triage of a pull request.                                           *)
(***************************************************************************)

CheckStates == [Checks -> {"absent", "other", "success"}]

AutomergeTypes ==
  /\ commits \in Seq(Contents) /\ Len(commits) >= 1
  /\ checks \in Seq(CheckStates) /\ Len(checks) = Len(commits)
  /\ pending \in {0, head} /\ armed \in 0..head /\ comment.of \in 0..head
  /\ triage.at \in {"idle", "reading", "decided", "reported"}
  /\ triage.at # "idle" => triage.of \in 1..head
  /\ triage = [at |-> triage.at, of |-> triage.of, read |-> triage.read, files |-> triage.files,
               checks |-> triage.checks, required |-> triage.required, merge |-> triage.merge]

\* A run that has not been overtaken works on the head; one that was, leaves
\* a run for the head waiting.
RunsAreOfTheHead ==
  /\ triage.at # "idle" => (triage.of = head <=> pending = 0)
  /\ pending # 0 => comment.of # head
  /\ triage.at = "reported" => comment.of = triage.of

\* Checks that were green together are on record.
GreenIsNoted ==
  \A k \in 1..head :
    GreenNow(checks[k]) /\ (\E c \in Checks : checks[k][c] # "absent") => k \in wasGreen

\* What a run knows: the files of the head unless it has been overtaken, and
\* the checks of its commit.
FactsAreTrue ==
  /\ triage.at = "reading" /\ "files" \in triage.read /\ triage.of = head
       => triage.files = FilesOf(commits[head])
  /\ triage.at = "reading" /\ "checks" \in triage.read /\ evaluateCi(triage.checks, triage.required)
       => triage.of \in wasGreen

\* What it wants to merge, unless it has been overtaken; and what is armed.
DecisionIsSafe ==
  triage.at \in {"decided", "reported"} /\ triage.merge /\ triage.of = head
    => SmallChange(commits[head]) /\ head \in wasGreen
ArmedStaysSafe ==
  /\ armed # 0 => SmallChange(commits[armed]) /\ armed \in wasGreen
  /\ triage.at = "reported" => triage.merge

AutomergeInv ==
  /\ AutomergeTypes
  /\ RunsAreOfTheHead /\ HeadIsJudged
  /\ GreenIsNoted /\ FactsAreTrue
  /\ DecisionIsSafe /\ ArmedStaysSafe

LEMMA IdleShape ==
  /\ Idle.at = "idle"
  /\ Idle = [at |-> Idle.at, of |-> Idle.of, read |-> Idle.read, files |-> Idle.files,
             checks |-> Idle.checks, required |-> Idle.required, merge |-> Idle.merge]
BY DEF Idle

LEMMA NoChecksType == NoChecks \in CheckStates /\ \A c \in Checks : NoChecks[c] = "absent"
BY DEF NoChecks, CheckStates

LEMMA AutomergeInitInv == AutomergeInit => AutomergeInv
<1> SUFFICES ASSUME AutomergeInit
             PROVE  AutomergeInv
  OBVIOUS
<1>1. PICK c \in Contents : commits = <<c>>
  BY DEF AutomergeInit
<1>2. commits \in Seq(Contents) /\ Len(commits) = 1 /\ head = 1
  BY <1>1 DEF head
<1>3. checks \in Seq(CheckStates) /\ Len(checks) = 1 /\ checks[1] = NoChecks
  BY NoChecksType DEF AutomergeInit
<1>4. triage = Idle /\ pending = 1 /\ comment.of = 0 /\ armed = 0
  BY DEF AutomergeInit
<1>5. AutomergeTypes
  BY <1>2, <1>3, <1>4, IdleShape DEF AutomergeTypes
<1>6. RunsAreOfTheHead /\ HeadIsJudged
  BY <1>2, <1>4, IdleShape DEF RunsAreOfTheHead, HeadIsJudged, NoHeadIsForgotten, AnnouncedIsArmed
<1>7. GreenIsNoted
  BY <1>2, <1>3, NoChecksType DEF GreenIsNoted
<1>. QED
  BY <1>4, <1>5, <1>6, <1>7, IdleShape DEF AutomergeInv, FactsAreTrue, DecisionIsSafe, ArmedStaysSafe

\* All of the reported checks are green: so is the commit, by the record.
LEMMA ReportedGreen ==
  ASSUME AutomergeInv, NEW k \in 1..head, NEW required, evaluateCi(Reported(k), required)
  PROVE  k \in wasGreen
<1>1. checks[k] \in CheckStates
  BY DEF AutomergeInv, AutomergeTypes, head
<1> DEFINE names == {c \in Checks : checks[k][c] # "absent"}
<1>2. DOMAIN Reported(k) = names /\ \A c \in names : Reported(k)[c] = checks[k][c]
  BY DEF Reported
<1>3. names # {} /\ Expected \subseteq names /\ \A c \in names : checks[k][c] = "success"
  BY <1>2 DEF evaluateCi
<1>4. GreenNow(checks[k])
  BY <1>3, AutomergeAssumption DEF GreenNow
<1>. QED
  BY <1>3, <1>4 DEF AutomergeInv, GreenIsNoted

LEMMA PushInv ==
  ASSUME AutomergeInv, NEW c \in Contents, Push(c)
  PROVE  AutomergeInv'
<1> USE DEF AutomergeInv, AutomergeTypes, head
<1>1. /\ commits' = Append(commits, c) /\ checks' = Append(checks, NoChecks)
      /\ pending' = Len(commits) + 1 /\ armed' \in {armed, 0}
      /\ UNCHANGED <<draft, triage, comment, red, wasGreen>>
  BY DEF Push
<1>2. /\ commits' \in Seq(Contents) /\ Len(commits') = Len(commits) + 1 /\ Len(commits) \in Nat
      /\ \A k \in 1..Len(commits) : commits'[k] = commits[k]
  BY <1>1
<1>3. /\ checks' \in Seq(CheckStates) /\ Len(checks') = Len(checks) + 1
      /\ \A k \in 1..Len(checks) : checks'[k] = checks[k]
      /\ checks'[Len(checks) + 1] = NoChecks
  BY <1>1, NoChecksType
<1>4. AutomergeTypes'
  BY <1>1, <1>2, <1>3
<1>5. RunsAreOfTheHead' /\ HeadIsJudged'
  BY <1>1, <1>2 DEF RunsAreOfTheHead, HeadIsJudged, NoHeadIsForgotten, AnnouncedIsArmed
<1>6. GreenIsNoted'
  <2> SUFFICES ASSUME NEW k \in 1..Len(commits'), GreenNow(checks'[k]),
                      NEW d \in Checks, checks'[k][d] # "absent"
               PROVE  k \in wasGreen
    BY <1>1 DEF GreenIsNoted
  <2>1. CASE k = Len(commits) + 1
    BY <1>3, <2>1, NoChecksType
  <2>2. CASE k # Len(commits) + 1
    BY <1>2, <1>3, <2>2 DEF GreenIsNoted
  <2>. QED
    BY <2>1, <2>2
<1>7. triage.at # "idle" => triage'.of # Len(commits')
  BY <1>1, <1>2
<1>8. FactsAreTrue' /\ DecisionIsSafe'
  BY <1>1, <1>7 DEF FactsAreTrue, DecisionIsSafe
<1>9. ArmedStaysSafe'
  <2> SUFFICES ASSUME armed' # 0
               PROVE  SmallChange(commits[armed])' /\ armed' \in wasGreen
    BY <1>1 DEF ArmedStaysSafe
  <2>1. armed' = armed /\ armed \in 1..Len(commits) /\ SmallChange(commits[armed]) /\ armed \in wasGreen
    BY <1>1 DEF ArmedStaysSafe
  <2>2. commits'[armed'] = commits[armed]
    BY <1>2, <2>1
  <2>. QED
    BY <1>1, <2>1, <2>2 DEF SmallChange
<1>. QED
  BY <1>4, <1>5, <1>6, <1>8, <1>9

LEMMA CheckMovesInv ==
  ASSUME AutomergeInv, NEW c \in Checks, NEW status \in {"other", "success"}, CheckMoves(c, status)
  PROVE  AutomergeInv'
<1> USE DEF AutomergeInv, AutomergeTypes, head
<1>1. /\ checks' = [checks EXCEPT ![Len(commits)] = [checks[Len(commits)] EXCEPT ![c] = status]]
      /\ wasGreen' = IF GreenNow(checks'[Len(commits)]) THEN wasGreen \union {Len(commits)} ELSE wasGreen
      /\ UNCHANGED <<commits, draft, pending, triage, comment, armed, red>>
  BY DEF CheckMoves
<1>2. [checks[Len(commits)] EXCEPT ![c] = status] \in CheckStates
  BY DEF CheckStates
<1>3. /\ checks' \in Seq(CheckStates) /\ Len(checks') = Len(checks)
      /\ \A k \in 1..Len(checks) : k # Len(checks) => checks'[k] = checks[k]
  BY <1>1, <1>2, ExceptSeq
<1>4. wasGreen \subseteq wasGreen'
  BY <1>1
<1>5. AutomergeTypes'
  BY <1>1, <1>3
<1>6. RunsAreOfTheHead' /\ HeadIsJudged'
  BY <1>1 DEF RunsAreOfTheHead, HeadIsJudged, NoHeadIsForgotten, AnnouncedIsArmed
<1>7. GreenIsNoted'
  <2> SUFFICES ASSUME NEW k \in 1..Len(commits), GreenNow(checks'[k]),
                      NEW d \in Checks, checks'[k][d] # "absent"
               PROVE  k \in wasGreen'
    BY <1>1 DEF GreenIsNoted
  <2>1. CASE k = Len(commits)
    BY <1>1, <2>1
  <2>2. CASE k # Len(commits)
    BY <1>3, <1>4, <2>2 DEF GreenIsNoted
  <2>. QED
    BY <2>1, <2>2
<1>8. FactsAreTrue'
  BY <1>1, <1>4 DEF FactsAreTrue, FilesOf
<1>9. DecisionIsSafe' /\ ArmedStaysSafe'
  BY <1>1, <1>4 DEF DecisionIsSafe, ArmedStaysSafe, SmallChange
<1>. QED
  BY <1>5, <1>6, <1>7, <1>8, <1>9

LEMMA StartTriageInv ==
  ASSUME AutomergeInv, StartTriage
  PROVE  AutomergeInv'
<1> USE DEF AutomergeInv, AutomergeTypes, head
<1>1. /\ triage.at = "idle" /\ pending = Len(commits) /\ pending # 0 /\ pending' = 0
      /\ UNCHANGED <<commits, checks, draft, comment, armed, red, wasGreen>>
  BY DEF StartTriage
<1>2. triage' = [at |-> "reading", of |-> pending, read |-> {}, files |-> {}, checks |-> <<>>,
                 required |-> Required, merge |-> FALSE]
  BY DEF StartTriage, Idle
<1>3. AutomergeTypes'
  BY <1>1, <1>2
<1>4. RunsAreOfTheHead' /\ HeadIsJudged'
  BY <1>1, <1>2 DEF RunsAreOfTheHead, HeadIsJudged, NoHeadIsForgotten, AnnouncedIsArmed
<1>5. GreenIsNoted'
  BY <1>1 DEF GreenIsNoted
<1>6. FactsAreTrue' /\ DecisionIsSafe' /\ ArmedStaysSafe'
  BY <1>1, <1>2 DEF FactsAreTrue, DecisionIsSafe, ArmedStaysSafe, SmallChange
<1>. QED
  BY <1>3, <1>4, <1>5, <1>6

LEMMA ReadFilesInv ==
  ASSUME AutomergeInv, ReadFiles
  PROVE  AutomergeInv'
<1> USE DEF AutomergeInv, AutomergeTypes, head
<1>1. /\ triage.at = "reading" /\ "files" \notin triage.read
      /\ UNCHANGED <<commits, checks, draft, pending, comment, armed, red, wasGreen>>
  BY DEF ReadFiles
<1>2. triage' = [at |-> "reading", of |-> triage.of, read |-> triage.read \union {"files"},
                 files |-> FilesOf(commits[Len(commits)]), checks |-> triage.checks,
                 required |-> triage.required, merge |-> triage.merge]
  BY DEF ReadFiles
<1>3. AutomergeTypes'
  BY <1>1, <1>2
<1>4. RunsAreOfTheHead' /\ HeadIsJudged'
  BY <1>1, <1>2 DEF RunsAreOfTheHead, HeadIsJudged, NoHeadIsForgotten, AnnouncedIsArmed
<1>5. GreenIsNoted'
  BY <1>1 DEF GreenIsNoted
<1>6. FactsAreTrue'
  BY <1>1, <1>2 DEF FactsAreTrue, FilesOf
<1>7. DecisionIsSafe' /\ ArmedStaysSafe'
  BY <1>1, <1>2 DEF DecisionIsSafe, ArmedStaysSafe, SmallChange
<1>. QED
  BY <1>3, <1>4, <1>5, <1>6, <1>7

LEMMA ReadChecksInv ==
  ASSUME AutomergeInv, ReadChecks
  PROVE  AutomergeInv'
<1> USE DEF AutomergeInv, AutomergeTypes, head
<1>1. /\ triage.at = "reading" /\ triage.of \in 1..Len(commits)
      /\ UNCHANGED <<commits, checks, draft, pending, comment, armed, red, wasGreen>>
  BY DEF ReadChecks, collectRequiredContexts
<1>2. PICK required \in {Required, Unknown} :
        triage' = [triage EXCEPT !.read = @ \union {"checks"}, !.checks = Reported(triage.of),
                                 !.required = required]
  BY DEF ReadChecks, collectRequiredContexts
<1>3. triage' = [at |-> "reading", of |-> triage.of, read |-> triage.read \union {"checks"},
                 files |-> triage.files, checks |-> Reported(triage.of),
                 required |-> required, merge |-> triage.merge]
  BY <1>1, <1>2
<1>4. AutomergeTypes'
  BY <1>1, <1>3
<1>5. RunsAreOfTheHead' /\ HeadIsJudged'
  BY <1>1, <1>3 DEF RunsAreOfTheHead, HeadIsJudged, NoHeadIsForgotten, AnnouncedIsArmed
<1>6. GreenIsNoted'
  BY <1>1 DEF GreenIsNoted
<1>7. evaluateCi(Reported(triage.of), required) => triage.of \in wasGreen
  BY <1>1, ReportedGreen
<1>8. FactsAreTrue'
  BY <1>1, <1>3, <1>7 DEF FactsAreTrue, FilesOf
<1>9. DecisionIsSafe' /\ ArmedStaysSafe'
  BY <1>1, <1>3 DEF DecisionIsSafe, ArmedStaysSafe, SmallChange
<1>. QED
  BY <1>4, <1>5, <1>6, <1>8, <1>9

LEMMA DecideInv ==
  ASSUME AutomergeInv, Decide
  PROVE  AutomergeInv'
<1> USE DEF AutomergeInv, AutomergeTypes, head
<1>1. /\ triage.at = "reading" /\ triage.read = {"files", "checks"} /\ triage.of \in 1..Len(commits)
      /\ UNCHANGED <<commits, checks, draft, pending, comment, armed, red, wasGreen>>
  BY DEF Decide
<1>2. PICK unread \in {{}, {UnreadableChange}} :
        triage' = [Idle EXCEPT !.at = "decided", !.of = triage.of,
          !.merge = decideTriage(draft, triage.files,
                                 CollectedChanges(triage.files, commits[triage.of]) \union unread,
                                 triage.checks, triage.required)]
  BY DEF Decide
<1> DEFINE verdictNow == decideTriage(draft, triage.files,
                                   CollectedChanges(triage.files, commits[triage.of]) \union unread,
                                   triage.checks, triage.required)
<1> HIDE DEF verdictNow
<1>3. triage' = [at |-> "decided", of |-> triage.of, read |-> {}, files |-> {}, checks |-> <<>>,
                 required |-> Required, merge |-> verdictNow]
  BY <1>2 DEF Idle, verdictNow
<1>4. AutomergeTypes'
  BY <1>1, <1>3
<1>5. RunsAreOfTheHead' /\ HeadIsJudged'
  BY <1>1, <1>3 DEF RunsAreOfTheHead, HeadIsJudged, NoHeadIsForgotten, AnnouncedIsArmed
<1>6. GreenIsNoted'
  BY <1>1 DEF GreenIsNoted
<1>7. FactsAreTrue' /\ ArmedStaysSafe'
  BY <1>1, <1>3 DEF FactsAreTrue, ArmedStaysSafe, SmallChange
<1>8. ASSUME triage.of = Len(commits), verdictNow
      PROVE  SmallChange(commits[Len(commits)]) /\ Len(commits) \in wasGreen
  <2>1. triage.files = FilesOf(commits[Len(commits)])
    BY <1>1, <1>8 DEF FactsAreTrue
  <2>2. commits[Len(commits)] \in Contents
    OBVIOUS
  <2>3. decideTriage(draft, FilesOf(commits[Len(commits)]),
                     CollectedChanges(FilesOf(commits[Len(commits)]), commits[Len(commits)]) \union unread,
                     triage.checks, triage.required)
    BY <1>8, <2>1 DEF verdictNow
  <2>4. SmallChange(commits[Len(commits)]) /\ evaluateCi(triage.checks, triage.required)
    BY <2>2, <2>3, DecidedIsSmall
  <2>. QED
    BY <1>1, <1>8, <2>4 DEF FactsAreTrue
<1>9. DecisionIsSafe'
  <2> SUFFICES ASSUME triage.of = Len(commits), verdictNow
               PROVE  (SmallChange(commits[head]) /\ head \in wasGreen)'
    BY <1>1, <1>3 DEF DecisionIsSafe
  <2>. QED
    BY <1>1, <1>8 DEF SmallChange
<1>. QED
  BY <1>4, <1>5, <1>6, <1>7, <1>9

LEMMA CommentInv ==
  ASSUME AutomergeInv, Comment
  PROVE  AutomergeInv'
<1> USE DEF AutomergeInv, AutomergeTypes, head
<1>1. /\ triage.at = "decided" /\ triage.of \in 1..Len(commits)
      /\ comment' = [of |-> triage.of, merge |-> triage.merge]
      /\ UNCHANGED <<commits, checks, draft, pending, armed, red, wasGreen>>
  BY DEF Comment
<1>2. GreenIsNoted'
  BY <1>1 DEF GreenIsNoted
<1>3. CASE triage.merge
  <2>1. triage' = [at |-> "reported", of |-> triage.of, read |-> triage.read, files |-> triage.files,
                   checks |-> triage.checks, required |-> triage.required, merge |-> triage.merge]
    BY <1>3 DEF Comment
  <2>2. AutomergeTypes'
    BY <1>1, <2>1
  <2>3. RunsAreOfTheHead'
    BY <1>1, <2>1 DEF RunsAreOfTheHead
  <2>4. HeadIsJudged'
    BY <2>1 DEF HeadIsJudged, NoHeadIsForgotten, AnnouncedIsArmed
  <2>5. FactsAreTrue' /\ ArmedStaysSafe'
    BY <1>1, <1>3, <2>1 DEF FactsAreTrue, ArmedStaysSafe, SmallChange
  <2>6. DecisionIsSafe'
    BY <1>1, <1>3, <2>1 DEF DecisionIsSafe, SmallChange
  <2>. QED
    BY <1>2, <2>2, <2>3, <2>4, <2>5, <2>6
<1>4. CASE ~triage.merge
  <2>1. triage' = Idle
    BY <1>4 DEF Comment
  <2>2. AutomergeTypes'
    BY <1>1, <2>1, IdleShape
  <2>3. RunsAreOfTheHead'
    BY <1>1, <2>1, IdleShape DEF RunsAreOfTheHead
  <2>4. HeadIsJudged'
    BY <1>1, <1>4 DEF HeadIsJudged, NoHeadIsForgotten, AnnouncedIsArmed, RunsAreOfTheHead
  <2>5. FactsAreTrue' /\ DecisionIsSafe' /\ ArmedStaysSafe'
    BY <1>1, <2>1, IdleShape DEF FactsAreTrue, DecisionIsSafe, ArmedStaysSafe, SmallChange
  <2>. QED
    BY <1>2, <2>2, <2>3, <2>4, <2>5
<1>. QED
  BY <1>3, <1>4

LEMMA ArmInv ==
  ASSUME AutomergeInv, Arm
  PROVE  AutomergeInv'
<1> USE DEF AutomergeInv, AutomergeTypes, head
<1>1. /\ triage.at = "reported" /\ triage.of = Len(commits) /\ armed' = Len(commits) /\ triage' = Idle
      /\ UNCHANGED <<commits, checks, draft, pending, comment, red, wasGreen>>
  BY DEF Arm
<1>2. AutomergeTypes'
  BY <1>1, IdleShape
<1>3. RunsAreOfTheHead' /\ HeadIsJudged'
  BY <1>1, IdleShape DEF RunsAreOfTheHead, HeadIsJudged, NoHeadIsForgotten, AnnouncedIsArmed
<1>4. GreenIsNoted'
  BY <1>1 DEF GreenIsNoted
<1>5. SmallChange(commits[Len(commits)]) /\ Len(commits) \in wasGreen
  BY <1>1 DEF DecisionIsSafe, ArmedStaysSafe
<1>6. ArmedStaysSafe'
  BY <1>1, <1>5, IdleShape DEF ArmedStaysSafe, SmallChange
<1>7. FactsAreTrue' /\ DecisionIsSafe'
  BY <1>1, IdleShape DEF FactsAreTrue, DecisionIsSafe
<1>. QED
  BY <1>2, <1>3, <1>4, <1>6, <1>7

LEMMA TriageFailsInv ==
  ASSUME AutomergeInv, TriageFails
  PROVE  AutomergeInv'
<1> USE DEF AutomergeInv, AutomergeTypes, head
<1>1. /\ triage.at # "idle" /\ triage.of \in 1..Len(commits)
      /\ red' = red \union {triage.of} /\ triage' = Idle
      /\ UNCHANGED <<commits, checks, draft, pending, comment, armed, wasGreen>>
  BY DEF TriageFails
<1>2. AutomergeTypes'
  BY <1>1, IdleShape
<1>3. RunsAreOfTheHead' /\ HeadIsJudged'
  BY <1>1, IdleShape DEF RunsAreOfTheHead, HeadIsJudged, NoHeadIsForgotten, AnnouncedIsArmed
<1>4. GreenIsNoted'
  BY <1>1 DEF GreenIsNoted
<1>5. FactsAreTrue' /\ DecisionIsSafe' /\ ArmedStaysSafe'
  BY <1>1, IdleShape DEF FactsAreTrue, DecisionIsSafe, ArmedStaysSafe, SmallChange
<1>. QED
  BY <1>2, <1>3, <1>4, <1>5

LEMMA AutomergeStays ==
  ASSUME AutomergeInv, UNCHANGED automergeVars
  PROVE  AutomergeInv'
<1>1. UNCHANGED <<commits, checks, draft, pending, triage, comment, armed, red, wasGreen>>
  BY DEF automergeVars
<1>2. /\ AutomergeTypes' /\ RunsAreOfTheHead' /\ HeadIsJudged' /\ GreenIsNoted'
  BY <1>1 DEF AutomergeInv, AutomergeTypes, head, RunsAreOfTheHead, HeadIsJudged, NoHeadIsForgotten,
              AnnouncedIsArmed, GreenIsNoted
<1>3. FactsAreTrue' /\ DecisionIsSafe' /\ ArmedStaysSafe'
  BY <1>1 DEF AutomergeInv, head, FactsAreTrue, FilesOf, DecisionIsSafe, ArmedStaysSafe, SmallChange
<1>. QED
  BY <1>2, <1>3 DEF AutomergeInv

LEMMA AutomergeNextInv == AutomergeInv /\ [AutomergeNext]_automergeVars => AutomergeInv'
<1> SUFFICES ASSUME AutomergeInv, [AutomergeNext]_automergeVars
             PROVE  AutomergeInv'
  OBVIOUS
<1>1. ASSUME NEW c \in Contents, Push(c) PROVE AutomergeInv'
  BY <1>1, PushInv
<1>2. ASSUME NEW c \in Checks, NEW status \in {"other", "success"}, CheckMoves(c, status)
      PROVE  AutomergeInv'
  BY <1>2, CheckMovesInv
<1>3. CASE StartTriage
  BY <1>3, StartTriageInv
<1>4. CASE ReadFiles
  BY <1>4, ReadFilesInv
<1>5. CASE ReadChecks
  BY <1>5, ReadChecksInv
<1>6. CASE Decide
  BY <1>6, DecideInv
<1>7. CASE Comment
  BY <1>7, CommentInv
<1>8. CASE Arm
  BY <1>8, ArmInv
<1>9. CASE TriageFails
  BY <1>9, TriageFailsInv
<1>10. CASE UNCHANGED automergeVars
  BY <1>10, AutomergeStays
<1>. QED
  BY <1>1, <1>2, <1>3, <1>4, <1>5, <1>6, <1>7, <1>8, <1>9, <1>10 DEF AutomergeNext

\* What the invariant says of the commit that is armed.
LEMMA SafeWhileArmed == AutomergeInv => ArmedIsSafe
BY DEF AutomergeInv, ArmedStaysSafe, ArmedIsSafe, ArmedIsSmall, ArmedWasGreen, SmallChange, OnePatch

-----------------------------------------------------------------------------
(***************************************************************************)
(* The history of the flakes.                                              *)
(***************************************************************************)

Verdicts == {"failed", "skipped", "flaky", "passed"}

LEMMA VerdictType ==
  ASSUME NEW o \in Outcomes
  PROVE  classify(o) \in Verdicts
<1>1. o.state \in {"passed", "failed", "pending"} /\ o.retried \in BOOLEAN
  BY DEF Outcomes
<1>2. CASE o.state = "failed"
  BY <1>2 DEF classify, Verdicts
<1>3. CASE o.state = "pending"
  BY <1>3 DEF classify, Verdicts
<1>4. CASE o.state = "passed" /\ o.retried
  BY <1>4 DEF classify, Verdicts
<1>5. CASE o.state = "passed" /\ ~o.retried
  BY <1>5 DEF classify, Verdicts
<1>. QED
  BY <1>1, <1>2, <1>3, <1>4, <1>5

\* The end of a list: its length and its items.
LEMMA LastShape ==
  ASSUME NEW T, NEW s \in Seq(T), NEW n \in Nat
  PROVE  /\ Last(s, n) \in Seq(T)
         /\ Len(Last(s, n)) = IF Len(s) > n THEN n ELSE Len(s)
         /\ Len(s) > n => \A i \in 1..n : Last(s, n)[i] = s[Len(s) - n + i]
         /\ ~(Len(s) > n) => Last(s, n) = s
<1> DEFINE first == IF Len(s) > n THEN Len(s) - n + 1 ELSE 1
<1>1. /\ Last(s, n) = SubSeq(s, first, Len(s))
      /\ first \in 1..(Len(s) + 1)
  BY DEF Last
<1>2. /\ Last(s, n) \in Seq(T) /\ Len(Last(s, n)) = Len(s) - first + 1
      /\ \A i \in 1..(Len(s) - first + 1) : Last(s, n)[i] = s[first + i - 1]
  <2>1. first \in Int /\ Len(s) \in Int /\ \A i \in first..Len(s) : s[i] \in T
    BY <1>1
  <2> HIDE DEF first
  <2>2. /\ SubSeq(s, first, Len(s)) \in Seq(T)
        /\ Len(SubSeq(s, first, Len(s))) = IF first <= Len(s) THEN Len(s) - first + 1 ELSE 0
        /\ \A i \in 1..(Len(s) - first + 1) : SubSeq(s, first, Len(s))[i] = s[first + i - 1]
    BY <2>1, SubSeqProperties
  <2>. QED
    BY <1>1, <2>1, <2>2
<1>3. CASE Len(s) > n
  <2>1. first = Len(s) - n + 1 /\ Len(s) - first + 1 = n
    BY <1>3
  <2>2. \A i \in 1..n : first + i - 1 = Len(s) - n + i
    BY <2>1
  <2>. QED
    BY <1>2, <1>3, <2>1, <2>2
<1>4. CASE ~(Len(s) > n)
  <2>1. first = 1
    BY <1>4
  <2>2. Len(Last(s, n)) = Len(s) /\ \A i \in 1..Len(s) : Last(s, n)[i] = s[i]
    BY <1>2, <2>1
  <2>3. Last(s, n) = s
    BY <1>2, <2>2, SeqEqual
  <2>. QED
    BY <1>4, <2>3
<1>. QED
  BY <1>2, <1>3, <1>4

\* Trimming before an item is added makes no difference.
LEMMA LastOfLast ==
  ASSUME NEW T, NEW s \in Seq(T), NEW x \in T, NEW n \in Nat \ {0}
  PROVE  Last(Append(Last(s, n), x), n) = Last(Append(s, x), n)
<1> DEFINE short == Last(s, n)
           a == Append(short, x)
           b == Append(s, x)
<1>1. CASE ~(Len(s) > n)
  BY <1>1, LastShape
<1>2. CASE Len(s) > n
  <2>1. short \in Seq(T) /\ Len(short) = n /\ \A i \in 1..n : short[i] = s[Len(s) - n + i]
    BY <1>2, LastShape
  <2> HIDE DEF short
  <2>2. /\ a \in Seq(T) /\ Len(a) = n + 1 /\ a[n + 1] = x
        /\ \A i \in 1..n : a[i] = short[i]
    BY <2>1
  <2>3. /\ b \in Seq(T) /\ Len(b) = Len(s) + 1 /\ b[Len(s) + 1] = x
        /\ \A i \in 1..Len(s) : b[i] = s[i]
    OBVIOUS
  <2>l. Len(s) \in Nat
    OBVIOUS
  <2> HIDE DEF a, b
  <2>4. /\ Last(a, n) \in Seq(T) /\ Len(Last(a, n)) = n
        /\ \A i \in 1..n : Last(a, n)[i] = a[1 + i]
    <3>1. Len(a) > n /\ \A i \in 1..n : Len(a) - n + i = 1 + i
      BY <2>2
    <3>. QED
      BY <3>1, <2>2, LastShape
  <2>5. /\ Last(b, n) \in Seq(T) /\ Len(Last(b, n)) = n
        /\ \A i \in 1..n : Last(b, n)[i] = b[Len(s) - n + 1 + i]
    <3>1. Len(b) > n /\ \A i \in 1..n : Len(b) - n + i = Len(s) - n + 1 + i
      BY <1>2, <2>3, <2>l
    <3>. QED
      BY <3>1, <2>3, LastShape
  <2>6. ASSUME NEW i \in 1..n PROVE a[1 + i] = b[Len(s) - n + 1 + i]
    <3>1. CASE i = n
      <4>1. Len(s) - n + 1 + n = Len(s) + 1 /\ 1 + n = n + 1
        BY <2>l
      <4>. QED
        BY <3>1, <4>1, <2>2, <2>3
    <3>2. CASE i # n
      <4>1. 1 + i \in 1..n /\ Len(s) - n + (1 + i) \in 1..Len(s)
        BY <3>2, <1>2, <2>l
      <4>2. Len(s) - n + (1 + i) = Len(s) - n + 1 + i
        BY <2>l
      <4>. QED
        BY <4>1, <4>2, <2>1, <2>2, <2>3
    <3>. QED
      BY <3>1, <3>2
  <2>7. Last(a, n) = Last(b, n)
    <3>1. \A i \in 1..n : Last(a, n)[i] = Last(b, n)[i]
      BY <2>4, <2>5, <2>6
    <3>. QED
      BY <3>1, <2>4, <2>5, SeqEqual
  <2>. QED
    BY <2>7 DEF a, b, short
<1>. QED
  BY <1>1, <1>2

\* The runs of a list that ran a test, round by round.
Rounds(g, runs, verdicts, t, n) ==
  g = [i \in 0..n |-> IF i = 0 THEN <<>>
                      ELSE IF verdicts[runs[i]][t] # "skipped" THEN Append(g[i - 1], runs[i])
                      ELSE g[i - 1]]

LEMMA RoundsExist ==
  ASSUME NEW runs, NEW verdicts, NEW t, NEW n \in Nat
  PROVE  \E g : Rounds(g, runs, verdicts, t, n)
<1> DEFINE Good == {m \in Nat : \E g : Rounds(g, runs, verdicts, t, m)}
<1>1. 0 \in Good
  <2> DEFINE g == [i \in 0..0 |-> <<>>]
  <2>1. Rounds(g, runs, verdicts, t, 0)
    BY DEF Rounds
  <2>. QED
    BY <2>1
<1>2. ASSUME NEW m \in 1..n, m - 1 \in Good PROVE m \in Good
  <2>1. PICK h : Rounds(h, runs, verdicts, t, m - 1)
    BY <1>2
  <2> DEFINE round(f, i) == IF i = 0 THEN <<>>
                            ELSE IF verdicts[runs[i]][t] # "skipped" THEN Append(f[i - 1], runs[i])
                            ELSE f[i - 1]
  <2> DEFINE g == [i \in 0..m |-> IF i = m THEN round(h, m) ELSE h[i]]
  <2>2. \A i \in 0..(m - 1) : h[i] = round(h, i)
    BY <2>1 DEF Rounds
  <2>3. \A i \in 0..m : g[i] = round(g, i)
    BY <2>2
  <2>4. g = [i \in 0..m |-> round(g, i)]
    BY <2>3
  <2>5. Rounds(g, runs, verdicts, t, m)
    BY <2>4 DEF Rounds
  <2> HIDE DEF g
  <2>6. m \in Nat /\ \E r : Rounds(r, runs, verdicts, t, m)
    BY <2>5
  <2>. QED
    BY <2>6
<1> HIDE DEF Good
<1>3. n \in Good
  BY <1>1, <1>2, Induction
<1>. QED
  BY <1>3 DEF Good

LEMMA RanIsLastRound ==
  ASSUME NEW runs, NEW verdicts, NEW t, Len(runs) \in Nat
  PROVE  \E g : Rounds(g, runs, verdicts, t, Len(runs)) /\ RanIn(runs, verdicts, t) = g[Len(runs)]
<1> DEFINE ran == CHOOSE g : Rounds(g, runs, verdicts, t, Len(runs))
<1>1. Rounds(ran, runs, verdicts, t, Len(runs))
  BY RoundsExist
<1>2. RanIn(runs, verdicts, t) = ran[Len(runs)]
  BY DEF RanIn, Rounds
<1>. QED
  BY <1>1, <1>2

\* The rounds over the part two lists and two records have in common.
LEMMA SameRounds ==
  ASSUME NEW m \in Nat, NEW n \in Nat, m <= n,
         NEW runs, NEW verdicts, NEW g, NEW more, NEW later, NEW k, NEW t,
         Rounds(g, runs, verdicts, t, m), Rounds(k, more, later, t, n),
         \A i \in 1..m : more[i] = runs[i] /\ later[more[i]] = verdicts[runs[i]]
  PROVE  \A i \in 0..m : g[i] = k[i]
<1> DEFINE Good == {i \in 0..m : g[i] = k[i]}
<1>1. \A i \in 0..m :
        g[i] = IF i = 0 THEN <<>>
               ELSE IF verdicts[runs[i]][t] # "skipped" THEN Append(g[i - 1], runs[i]) ELSE g[i - 1]
  BY DEF Rounds
<1>2. \A i \in 0..n :
        k[i] = IF i = 0 THEN <<>>
               ELSE IF later[more[i]][t] # "skipped" THEN Append(k[i - 1], more[i]) ELSE k[i - 1]
  BY DEF Rounds
<1>3. 0 \in Good
  BY <1>1, <1>2
<1>4. ASSUME NEW i \in 1..m, i - 1 \in Good PROVE i \in Good
  <2>1. g[i - 1] = k[i - 1] /\ i \in 0..m /\ i \in 0..n /\ i # 0
    BY <1>4
  <2>2. more[i] = runs[i] /\ later[more[i]] = verdicts[runs[i]]
    OBVIOUS
  <2>. QED
    BY <1>1, <1>2, <2>1, <2>2
<1> HIDE DEF Good
<1>5. 0..m \subseteq Good
  BY <1>3, <1>4, Induction
<1>. QED
  BY <1>5 DEF Good

\* One more run: it is one more that ran the test, or was skipped.
LEMMA RanInMore ==
  ASSUME NEW last \in Nat, NEW runs \in Seq(1..last), NEW t, NEW verdicts, NEW later,
         \A k \in 1..last : later[k] = verdicts[k]
  PROVE  /\ later[last + 1][t] # "skipped" =>
              RanIn(Append(runs, last + 1), later, t) = Append(RanIn(runs, verdicts, t), last + 1)
         /\ later[last + 1][t] = "skipped" =>
              RanIn(Append(runs, last + 1), later, t) = RanIn(runs, verdicts, t)
<1> DEFINE more == Append(runs, last + 1)
           n == Len(runs)
<1>1. /\ n \in Nat /\ Len(more) = n + 1 /\ more[n + 1] = last + 1
      /\ \A i \in 1..n : more[i] = runs[i] /\ later[more[i]] = verdicts[runs[i]]
  OBVIOUS
<1> HIDE DEF more
<1>2. PICK g : Rounds(g, runs, verdicts, t, n) /\ RanIn(runs, verdicts, t) = g[n]
  BY <1>1, RanIsLastRound
<1>3. PICK k : Rounds(k, more, later, t, n + 1) /\ RanIn(more, later, t) = k[n + 1]
  <2>1. Len(more) \in Nat
    BY <1>1
  <2>2. \E k : Rounds(k, more, later, t, Len(more)) /\ RanIn(more, later, t) = k[Len(more)]
    BY <2>1, RanIsLastRound
  <2>. QED
    BY <2>2, <1>1
<1>4. g[n] = k[n]
  BY <1>1, <1>2, <1>3, SameRounds
<1>5. k[n + 1] = IF later[more[n + 1]][t] # "skipped" THEN Append(k[n], more[n + 1]) ELSE k[n]
  <2>1. n + 1 \in 0..(n + 1) /\ n + 1 # 0 /\ n + 1 - 1 = n
    BY <1>1
  <2>2. k[n + 1] = [i \in 0..(n + 1) |->
                      IF i = 0 THEN <<>>
                      ELSE IF later[more[i]][t] # "skipped" THEN Append(k[i - 1], more[i])
                      ELSE k[i - 1]][n + 1]
    BY <1>3 DEF Rounds
  <2>. QED
    BY <2>1, <2>2
<1>. QED
  BY <1>1, <1>2, <1>3, <1>4, <1>5 DEF more

\* A longer record of verdicts changes nothing in an old list.
LEMMA RanInSame ==
  ASSUME NEW last \in Nat, NEW runs \in Seq(1..last), NEW t, NEW verdicts, NEW later,
         \A k \in 1..last : later[k] = verdicts[k]
  PROVE  RanIn(runs, later, t) = RanIn(runs, verdicts, t)
<1> DEFINE n == Len(runs)
<1>1. n \in Nat /\ \A i \in 1..n : runs[i] = runs[i] /\ later[runs[i]] = verdicts[runs[i]]
  OBVIOUS
<1>2. PICK g : Rounds(g, runs, verdicts, t, n) /\ RanIn(runs, verdicts, t) = g[n]
  BY <1>1, RanIsLastRound
<1>3. PICK k : Rounds(k, runs, later, t, n) /\ RanIn(runs, later, t) = k[n]
  BY <1>1, RanIsLastRound
<1>4. g[n] = k[n]
  BY <1>1, <1>2, <1>3, SameRounds
<1>. QED
  BY <1>2, <1>3, <1>4

\* What is left of the first m runs of a list.
Left(s, T, runs, verdicts, t, m) ==
  /\ s \in Seq(T)
  /\ \A i \in 1..Len(s) : verdicts[s[i]][t] # "skipped"
  /\ s = <<>> <=> \A i \in 1..m : verdicts[runs[i]][t] = "skipped"

\* What is left are runs of the list that ran the test, in its order, and
\* nothing is left only if none did.
LEMMA RanInType ==
  ASSUME NEW T, NEW runs \in Seq(T), NEW verdicts, NEW t
  PROVE  /\ RanIn(runs, verdicts, t) \in Seq(T)
         /\ \A i \in 1..Len(RanIn(runs, verdicts, t)) :
              verdicts[RanIn(runs, verdicts, t)[i]][t] # "skipped"
         /\ RanIn(runs, verdicts, t) = <<>> <=> \A i \in 1..Len(runs) : verdicts[runs[i]][t] = "skipped"
<1> DEFINE n == Len(runs)
<1>0. n \in Nat
  OBVIOUS
<1>1. PICK g : Rounds(g, runs, verdicts, t, n) /\ RanIn(runs, verdicts, t) = g[n]
  BY <1>0, RanIsLastRound
<1>2. \A i \in 0..n :
        g[i] = IF i = 0 THEN <<>>
               ELSE IF verdicts[runs[i]][t] # "skipped" THEN Append(g[i - 1], runs[i]) ELSE g[i - 1]
  BY <1>1 DEF Rounds
<1> DEFINE Good == {m \in 0..n : Left(g[m], T, runs, verdicts, t, m)}
<1>3. 0 \in Good
  <2>1. g[0] = <<>> /\ 0 \in 0..n
    BY <1>0, <1>2
  <2>2. Left(<<>>, T, runs, verdicts, t, 0)
    BY DEF Left
  <2>. QED
    BY <2>1, <2>2
<1>4. ASSUME NEW m \in 1..n, m - 1 \in Good PROVE m \in Good
  <2>1. Left(g[m - 1], T, runs, verdicts, t, m - 1) /\ m \in 0..n /\ m # 0
    BY <1>4
  <2>2. CASE verdicts[runs[m]][t] = "skipped"
    <3>1. g[m] = g[m - 1]
      BY <1>2, <2>1, <2>2
    <3>2. \A i \in 1..m : i = m \/ i \in 1..(m - 1)
      OBVIOUS
    <3>3. Left(g[m - 1], T, runs, verdicts, t, m)
      BY <2>1, <2>2, <3>2 DEF Left
    <3>. QED
      BY <2>1, <3>1, <3>3
  <2>3. CASE verdicts[runs[m]][t] # "skipped"
    <3> DEFINE r == g[m - 1]
               q == Append(r, runs[m])
    <3>0. runs[m] \in T
      OBVIOUS
    <3>1. g[m] = q
      BY <1>2, <2>1, <2>3
    <3>2. r \in Seq(T) /\ \A i \in 1..Len(r) : verdicts[r[i]][t] # "skipped"
      BY <2>1 DEF Left
    <3> HIDE DEF r
    <3>3. /\ q \in Seq(T) /\ Len(q) = Len(r) + 1 /\ q[Len(r) + 1] = runs[m]
          /\ \A i \in 1..Len(r) : q[i] = r[i]
      BY <3>0, <3>1, <3>2
    <3>l. Len(r) \in Nat
      BY <3>2
    <3> HIDE DEF q
    <3>4. \A i \in 1..Len(q) : i = Len(r) + 1 \/ i \in 1..Len(r)
      BY <3>l, <3>3
    <3>5. \A i \in 1..Len(q) : verdicts[q[i]][t] # "skipped"
      BY <2>3, <3>2, <3>3, <3>4
    <3>6. q # <<>>
      BY <3>l, <3>3
    <3>7. Left(q, T, runs, verdicts, t, m)
      BY <2>3, <3>3, <3>5, <3>6 DEF Left
    <3>. QED
      BY <2>1, <3>1, <3>7
  <2>. QED
    BY <2>2, <2>3
<1> HIDE DEF Good
<1>5. n \in Good
  <2>1. 0..n \subseteq Good
    BY <1>0, <1>3, <1>4, Induction
  <2>. QED
    BY <1>0, <2>1
<1>. QED
  BY <1>1, <1>5 DEF Good, Left

\* The verdicts of a list of runs of one test.
Shown(verdicts, runs, t) == [i \in 1..Len(runs) |-> verdicts[runs[i]][t]]

LEMMA ShownType ==
  ASSUME NEW last \in Nat, NEW runs \in Seq(1..last), NEW t \in Tests,
         NEW verdicts \in Seq([Tests -> Verdicts]), Len(verdicts) = last
  PROVE  /\ Shown(verdicts, runs, t) \in Seq(Verdicts) /\ Len(Shown(verdicts, runs, t)) = Len(runs)
         /\ \A i \in 1..Len(runs) : Shown(verdicts, runs, t)[i] = verdicts[runs[i]][t]
<1>1. \A i \in 1..Len(runs) : runs[i] \in 1..last
  OBVIOUS
<1>2. \A k \in 1..last : verdicts[k] \in [Tests -> Verdicts]
  OBVIOUS
<1>3. \A i \in 1..Len(runs) : verdicts[runs[i]][t] \in Verdicts
  BY <1>1, <1>2
<1>4. Len(runs) \in Nat
  OBVIOUS
<1> DEFINE item(i) == verdicts[runs[i]][t]
<1>5. \A i \in 1..Len(runs) : item(i) \in Verdicts
  BY <1>3
<1> HIDE DEF item
<1>6. LET s == [i \in 1..Len(runs) |-> item(i)]
      IN  s \in Seq(Verdicts) /\ Len(s) = Len(runs) /\ \A i \in 1..Len(runs) : s[i] = item(i)
  BY <1>4, <1>5
<1>. QED
  BY <1>6 DEF item, Shown

\* Trimming the runs trims what they have shown.
LEMMA LastShown ==
  ASSUME NEW last \in Nat, NEW runs \in Seq(1..last), NEW t \in Tests,
         NEW verdicts \in Seq([Tests -> Verdicts]), Len(verdicts) = last, NEW n \in Nat
  PROVE  Shown(verdicts, Last(runs, n), t) = Last(Shown(verdicts, runs, t), n)
<1> DEFINE all == Shown(verdicts, runs, t)
           some == Last(runs, n)
<1>1. /\ all \in Seq(Verdicts) /\ Len(all) = Len(runs)
      /\ \A i \in 1..Len(runs) : all[i] = verdicts[runs[i]][t]
  BY ShownType
<1>2. some \in Seq(1..last)
  BY LastShape
<1>3. /\ Shown(verdicts, some, t) \in Seq(Verdicts) /\ Len(Shown(verdicts, some, t)) = Len(some)
      /\ \A i \in 1..Len(some) : Shown(verdicts, some, t)[i] = verdicts[some[i]][t]
  BY <1>2, ShownType
<1> HIDE DEF all
<1>4. CASE ~(Len(runs) > n)
  <2>1. some = runs /\ Last(all, n) = all
    BY <1>1, <1>4, LastShape
  <2>. QED
    BY <2>1 DEF all
<1>5. CASE Len(runs) > n
  <2>1. Len(some) = n /\ \A i \in 1..n : some[i] = runs[Len(runs) - n + i]
    BY <1>5, LastShape
  <2>2. /\ Last(all, n) \in Seq(Verdicts) /\ Len(Last(all, n)) = n
        /\ \A i \in 1..n : Last(all, n)[i] = all[Len(runs) - n + i]
    <3>1. Len(all) > n /\ all \in Seq(Verdicts)
      BY <1>1, <1>5
    <3>2. /\ Last(all, n) \in Seq(Verdicts) /\ Len(Last(all, n)) = n
          /\ \A i \in 1..n : Last(all, n)[i] = all[Len(all) - n + i]
      BY <3>1, LastShape
    <3>. QED
      BY <3>2, <1>1
  <2>l. Len(runs) \in Nat
    OBVIOUS
  <2> HIDE DEF some
  <2>3. \A i \in 1..n : Len(runs) - n + i \in 1..Len(runs)
    BY <1>5, <2>l
  <2>4. \A i \in 1..n : Shown(verdicts, some, t)[i] = Last(all, n)[i]
    BY <1>1, <1>3, <2>1, <2>2, <2>3
  <2>5. Shown(verdicts, some, t) = Last(all, n)
    BY <1>3, <2>1, <2>2, <2>4, SeqEqual
  <2>. QED
    BY <2>5 DEF all, some
<1>. QED
  BY <1>4, <1>5

\* The record of the verdicts grows at its end.
Longer(verdicts, later, last) ==
  /\ last \in Nat
  /\ verdicts \in Seq([Tests -> Verdicts]) /\ Len(verdicts) = last
  /\ later \in Seq([Tests -> Verdicts]) /\ Len(later) = last + 1
  /\ \A k \in 1..last : later[k] = verdicts[k]

\* The window after one more run that ran the test.
LEMMA WindowMoves ==
  ASSUME NEW verdicts, NEW later, NEW last, Longer(verdicts, later, last),
         NEW runs \in Seq(1..last), NEW t \in Tests
  PROVE  Last(Append(Shown(verdicts, Last(runs, WindowRuns), t), later[last + 1][t]), WindowRuns)
           = Shown(later, Last(Append(runs, last + 1), WindowRuns), t)
<1> DEFINE n == WindowRuns
           x == later[last + 1][t]
           s == Shown(verdicts, runs, t)
           more == Append(runs, last + 1)
<1>0. n \in Nat \ {0}
  BY HistoryAssumption
<1>a. /\ last \in Nat /\ verdicts \in Seq([Tests -> Verdicts]) /\ Len(verdicts) = last
      /\ later \in Seq([Tests -> Verdicts]) /\ Len(later) = last + 1
      /\ \A k \in 1..last : later[k] = verdicts[k]
  BY DEF Longer
<1>1. x \in Verdicts
  <2>1. later[last + 1] \in [Tests -> Verdicts]
    BY <1>a
  <2>. QED
    BY <2>1
<1>2. /\ s \in Seq(Verdicts) /\ Len(s) = Len(runs)
      /\ \A i \in 1..Len(runs) : s[i] = verdicts[runs[i]][t]
  BY <1>a, ShownType
<1>3. Shown(verdicts, Last(runs, n), t) = Last(s, n)
  BY <1>0, <1>a, LastShown
<1>4. /\ more \in Seq(1..(last + 1)) /\ Len(more) = Len(runs) + 1 /\ more[Len(runs) + 1] = last + 1
      /\ \A i \in 1..Len(runs) : more[i] = runs[i] /\ runs[i] \in 1..last
  BY <1>a
<1>l. Len(runs) \in Nat
  OBVIOUS
<1> HIDE DEF n, s, more
<1>5. /\ Shown(later, more, t) \in Seq(Verdicts) /\ Len(Shown(later, more, t)) = Len(runs) + 1
      /\ \A i \in 1..(Len(runs) + 1) : Shown(later, more, t)[i] = later[more[i]][t]
  BY <1>4, <1>a, ShownType
<1>6. Shown(later, more, t) = Append(s, x)
  <2>1. /\ Append(s, x) \in Seq(Verdicts) /\ Len(Append(s, x)) = Len(runs) + 1
        /\ Append(s, x)[Len(runs) + 1] = x
        /\ \A i \in 1..Len(runs) : Append(s, x)[i] = s[i]
    BY <1>1, <1>2
  <2>2. \A i \in 1..(Len(runs) + 1) : i = Len(runs) + 1 \/ i \in 1..Len(runs)
    BY <1>l
  <2>3. \A i \in 1..(Len(runs) + 1) : Shown(later, more, t)[i] = Append(s, x)[i]
    <3> SUFFICES ASSUME NEW i \in 1..(Len(runs) + 1)
                 PROVE  Shown(later, more, t)[i] = Append(s, x)[i]
      OBVIOUS
    <3>1. Shown(later, more, t)[i] = later[more[i]][t]
      BY <1>5
    <3>2. CASE i = Len(runs) + 1
      BY <1>4, <2>1, <3>1, <3>2
    <3>3. CASE i \in 1..Len(runs)
      BY <1>2, <1>4, <1>a, <2>1, <3>1, <3>3
    <3>. QED
      BY <2>2, <3>2, <3>3
  <2>. QED
    BY <1>5, <2>1, <2>3, SeqEqual
<1>7. Last(Append(Last(s, n), x), n) = Last(Append(s, x), n)
  BY <1>0, <1>1, <1>2, LastOfLast
<1>8. Shown(later, Last(more, n), t) = Last(Shown(later, more, t), n)
  BY <1>0, <1>4, <1>a, LastShown
<1>. QED
  BY <1>3, <1>6, <1>7, <1>8 DEF n, more

\* One history, against the verdicts of the runs so far: the runs in it are in
\* order, what it keeps of them are the last ones, and of each test it knows
\* what the last runs that ran it have shown, and which was the last.
TestOk(h, verdicts, t) ==
  /\ h.tests[t].window = Shown(verdicts, Last(RanIn(h.folded, verdicts, t), WindowRuns), t)
  /\ h.tests[t].lastSeenAt \in Nat
  /\ \A i \in 1..Len(h.folded) :
       verdicts[h.folded[i]][t] # "skipped" => h.folded[i] <= h.tests[t].lastSeenAt
  /\ \/ \A i \in 1..Len(h.folded) : verdicts[h.folded[i]][t] = "skipped"
     \/ \E i \in 1..Len(h.folded) :
          h.folded[i] = h.tests[t].lastSeenAt /\ verdicts[h.folded[i]][t] # "skipped"

HistoryOk(h, verdicts, last) ==
  /\ h.folded \in Seq(1..last)
  /\ \A i, j \in 1..Len(h.folded) : i < j => h.folded[i] < h.folded[j]
  /\ h.runs = Last(h.folded, RunsKept)
  /\ \A t \in Tests : TestOk(h, verdicts, t)

FlakeInv ==
  /\ now \in Nat
  /\ log \in Seq([Tests -> Verdicts]) /\ Len(log) = now
  /\ \A h \in Histories : HistoryOk(h, log, now)
  /\ quarantine \in Seq([id : Tests, expiresAt : Int])

LEMMA FlakeInitInv == FlakeInit => FlakeInv
<1> SUFFICES ASSUME FlakeInit
             PROVE  FlakeInv
  OBVIOUS
<1>1. now = 0 /\ log = <<>> /\ Histories = {createHistory} /\ quarantine = <<>>
  BY DEF FlakeInit, Histories
<1>2. /\ createHistory.folded = <<>> /\ createHistory.runs = <<>>
      /\ \A t \in Tests : createHistory.tests[t].window = <<>> /\ createHistory.tests[t].lastSeenAt = 0
  BY DEF createHistory, NeverSeen
<1>3. \A n \in Nat : Last(<<>>, n) = <<>>
  <2> DEFINE e == <<>>
  <2>1. e \in Seq(Nat) /\ Len(e) = 0
    OBVIOUS
  <2> HIDE DEF e
  <2>2. \A n \in Nat : ~(Len(e) > n)
    BY <2>1
  <2>3. \A n \in Nat : Last(e, n) = e
    BY <2>1, <2>2, LastShape
  <2>. QED
    BY <2>3 DEF e
<1>4. ASSUME NEW t \in Tests PROVE TestOk(createHistory, log, t)
  <2> DEFINE e == <<>>
  <2>1. e \in Seq(Nat) /\ \A i \in 1..Len(e) : log[e[i]][t] = "skipped"
    OBVIOUS
  <2> HIDE DEF e
  <2>a. RanIn(e, log, t) = <<>>
    BY <2>1, RanInType
  <2>2. RanIn(<<>>, log, t) = <<>>
    BY <2>a DEF e
  <2>3. Last(<<>>, WindowRuns) = <<>>
    BY <1>3, HistoryAssumption
  <2>4. Shown(log, <<>>, t) = <<>>
    BY DEF Shown
  <2>5. \A i \in 1..Len(<<>>) : FALSE
    OBVIOUS
  <2>. QED
    BY <1>2, <2>2, <2>3, <2>4, <2>5 DEF TestOk
<1>5. HistoryOk(createHistory, log, now)
  <2>1. createHistory.folded \in Seq(1..now) /\ Len(createHistory.folded) = 0
    BY <1>2
  <2>2. createHistory.runs = Last(createHistory.folded, RunsKept)
    BY <1>2, <1>3, HistoryAssumption
  <2>. QED
    BY <1>4, <2>1, <2>2 DEF HistoryOk
<1>6. /\ log \in Seq([Tests -> Verdicts]) /\ Len(log) = now /\ now \in Nat
      /\ quarantine \in Seq([id : Tests, expiresAt : Int])
  BY <1>1
<1>. QED
  BY <1>1, <1>5, <1>6 DEF FlakeInv

\* A run that is not folded into a history leaves it true.
LEMMA HistoryKept ==
  ASSUME NEW h, NEW verdicts, NEW later, NEW last, Longer(verdicts, later, last),
         HistoryOk(h, verdicts, last)
  PROVE  HistoryOk(h, later, last + 1)
<1>1. last \in Nat /\ h.folded \in Seq(1..last) /\ \A k \in 1..last : later[k] = verdicts[k]
  BY DEF Longer, HistoryOk
<1>2. \A i \in 1..Len(h.folded) : h.folded[i] \in 1..last /\ later[h.folded[i]] = verdicts[h.folded[i]]
  BY <1>1
<1>3. h.folded \in Seq(1..(last + 1))
  BY <1>1
<1>4. ASSUME NEW t \in Tests PROVE TestOk(h, later, t)
  <2> DEFINE ran == Last(RanIn(h.folded, verdicts, t), WindowRuns)
  <2>1. RanIn(h.folded, later, t) = RanIn(h.folded, verdicts, t)
    BY <1>1, RanInSame
  <2>2. RanIn(h.folded, verdicts, t) \in Seq(1..last)
    BY <1>1, RanInType
  <2>3. ran \in Seq(1..last)
    BY <2>2, HistoryAssumption, LastShape
  <2> HIDE DEF ran
  <2>4. \A i \in 1..Len(ran) : later[ran[i]] = verdicts[ran[i]]
    BY <1>1, <2>3
  <2>5. Shown(later, ran, t) = Shown(verdicts, ran, t)
    BY <2>4 DEF Shown
  <2>6. TestOk(h, verdicts, t)
    BY DEF HistoryOk
  <2>. QED
    BY <1>2, <2>1, <2>5, <2>6 DEF TestOk, ran
<1>. QED
  BY <1>3, <1>4 DEF HistoryOk

\* A run that is folded into it, too.
LEMMA HistoryFolded ==
  ASSUME NEW h, NEW verdicts, NEW later, NEW last, Longer(verdicts, later, last),
         HistoryOk(h, verdicts, last)
  PROVE  HistoryOk(mergeRun(h, later[last + 1], last + 1), later, last + 1)
<1> DEFINE new == mergeRun(h, later[last + 1], last + 1)
           n == Len(h.folded)
           at == last + 1
<1>1. /\ last \in Nat /\ h.folded \in Seq(1..last) /\ \A k \in 1..last : later[k] = verdicts[k]
      /\ verdicts \in Seq([Tests -> Verdicts]) /\ Len(verdicts) = last
      /\ later \in Seq([Tests -> Verdicts]) /\ Len(later) = last + 1
  BY DEF Longer, HistoryOk
<1>2. /\ new.folded = Append(h.folded, at)
      /\ new.runs = Last(Append(h.runs, at), RunsKept)
      /\ \A t \in Tests :
           new.tests[t] = IF later[at][t] = "skipped" THEN h.tests[t]
                          ELSE [window |-> Last(Append(h.tests[t].window, later[at][t]), WindowRuns),
                                lastSeenAt |-> at]
  BY DEF mergeRun
<1> HIDE DEF new
<1>a. at = last + 1 /\ at \in 1..at /\ h.folded \in Seq(1..at)
  BY <1>1
<1> HIDE DEF at
<1>3. /\ new.folded \in Seq(1..at) /\ Len(new.folded) = n + 1 /\ new.folded[n + 1] = at
      /\ n \in Nat /\ \A i \in 1..n : new.folded[i] = h.folded[i] /\ h.folded[i] \in 1..last
  <2>1. \A i \in 1..n : h.folded[i] \in 1..last
    BY <1>1
  <2>. QED
    BY <1>2, <1>a, <2>1
<1> HIDE DEF n
<1>4. \A i \in 1..(n + 1) : i = n + 1 \/ i \in 1..n
  BY <1>3
<1>5. \A i, j \in 1..Len(new.folded) : i < j => new.folded[i] < new.folded[j]
  <2>1. \A i, j \in 1..n : i < j => h.folded[i] < h.folded[j]
    BY DEF HistoryOk, n
  <2>2. \A i \in 1..n : new.folded[i] < at /\ new.folded[i] = h.folded[i]
    <3> SUFFICES ASSUME NEW i \in 1..n
                 PROVE  new.folded[i] < at /\ new.folded[i] = h.folded[i]
      OBVIOUS
    <3>1. new.folded[i] = h.folded[i] /\ h.folded[i] \in 1..last /\ at = last + 1 /\ last \in Nat
      BY <1>1, <1>3, <1>a
    <3>. QED
      BY <3>1
  <2> SUFFICES ASSUME NEW i \in 1..(n + 1), NEW j \in 1..(n + 1), i < j
               PROVE  new.folded[i] < new.folded[j]
    BY <1>3
  <2>3. i \in 1..n
    BY <1>3
  <2>4. CASE j = n + 1
    BY <1>3, <2>2, <2>3, <2>4
  <2>5. CASE j \in 1..n
    BY <2>1, <2>2, <2>3, <2>5
  <2>. QED
    BY <1>4, <2>4, <2>5
<1>6. new.runs = Last(new.folded, RunsKept)
  <2>1. h.runs = Last(h.folded, RunsKept) /\ h.folded \in Seq(1..at) /\ at \in 1..at
    BY <1>1, <1>a DEF HistoryOk
  <2>2. Last(Append(Last(h.folded, RunsKept), at), RunsKept) = Last(Append(h.folded, at), RunsKept)
    BY <2>1, HistoryAssumption, LastOfLast
  <2>. QED
    BY <1>2, <2>1, <2>2
<1>7. ASSUME NEW t \in Tests PROVE TestOk(new, later, t)
  <2> DEFINE ran == RanIn(h.folded, verdicts, t)
  <2>1. TestOk(h, verdicts, t)
    BY DEF HistoryOk
  <2>2. ran \in Seq(1..last)
    BY <1>1, RanInType
  <2>3. RanIn(new.folded, later, t) = IF later[at][t] # "skipped" THEN Append(ran, at) ELSE ran
    <3>1. /\ later[last + 1][t] # "skipped" =>
               RanIn(Append(h.folded, last + 1), later, t) = Append(RanIn(h.folded, verdicts, t), last + 1)
          /\ later[last + 1][t] = "skipped" =>
               RanIn(Append(h.folded, last + 1), later, t) = RanIn(h.folded, verdicts, t)
      <4>1. last \in Nat /\ h.folded \in Seq(1..last) /\ \A k \in 1..last : later[k] = verdicts[k]
        BY <1>1
      <4>. QED
        BY <4>1, RanInMore
    <3>. QED
      BY <1>2, <3>1 DEF at
  <2>4. \A i \in 1..n : /\ new.folded[i] = h.folded[i] /\ new.folded[i] \in 1..last
                        /\ later[new.folded[i]] = verdicts[h.folded[i]]
    BY <1>1, <1>3
  <2> HIDE DEF ran
  <2>5. CASE later[at][t] = "skipped"
    <3>1. new.tests[t] = h.tests[t] /\ RanIn(new.folded, later, t) = ran
      BY <1>2, <2>3, <2>5
    <3>2. Last(ran, WindowRuns) \in Seq(1..last)
      BY <2>2, HistoryAssumption, LastShape
    <3>3. Shown(later, Last(ran, WindowRuns), t) = Shown(verdicts, Last(ran, WindowRuns), t)
      <4> DEFINE r == Last(ran, WindowRuns)
      <4>1. r \in Seq(1..last)
        BY <3>2
      <4> HIDE DEF r
      <4>2. \A i \in 1..Len(r) : later[r[i]] = verdicts[r[i]]
        BY <1>1, <4>1
      <4>3. Shown(later, r, t) = Shown(verdicts, r, t)
        BY <4>2 DEF Shown
      <4>. QED
        BY <4>3 DEF r
    <3>4. new.tests[t].window = Shown(later, Last(RanIn(new.folded, later, t), WindowRuns), t)
      BY <2>1, <3>1, <3>3 DEF TestOk, ran
    <3>5. /\ new.tests[t].lastSeenAt \in Nat
          /\ \A i \in 1..n : later[new.folded[i]][t] # "skipped" => new.folded[i] <= new.tests[t].lastSeenAt
          /\ \/ \A i \in 1..n : later[new.folded[i]][t] = "skipped"
             \/ \E i \in 1..n : new.folded[i] = new.tests[t].lastSeenAt /\ later[new.folded[i]][t] # "skipped"
      BY <2>1, <2>4, <3>1 DEF TestOk, n
    <3>6. later[new.folded[n + 1]][t] = "skipped" /\ 1..n \subseteq 1..(n + 1)
      BY <1>3, <2>5
    <3>. QED
      BY <1>3, <1>4, <3>4, <3>5, <3>6 DEF TestOk
  <2>6. CASE later[at][t] # "skipped"
    <3>1. /\ new.tests[t].window = Last(Append(h.tests[t].window, later[at][t]), WindowRuns)
          /\ new.tests[t].lastSeenAt = at
          /\ RanIn(new.folded, later, t) = Append(ran, at)
      <4>1. new.tests[t] = [window |-> Last(Append(h.tests[t].window, later[at][t]), WindowRuns),
                            lastSeenAt |-> at]
        BY <1>2, <2>6
      <4>. QED
        BY <2>3, <2>6, <4>1
    <3>2. h.tests[t].window = Shown(verdicts, Last(ran, WindowRuns), t)
      BY <2>1 DEF TestOk, ran
    <3>3. Last(Append(Shown(verdicts, Last(ran, WindowRuns), t), later[at][t]), WindowRuns)
            = Shown(later, Last(Append(ran, at), WindowRuns), t)
      BY <2>2, WindowMoves DEF at
    <3>4. \A i \in 1..(n + 1) : new.folded[i] <= at
      BY <1>1, <1>3, <1>4, <1>a
    <3>5. n + 1 \in 1..(n + 1) /\ new.folded[n + 1] = at /\ at \in Nat
      BY <1>1, <1>3, <1>a
    <3>. QED
      BY <1>3, <2>6, <3>1, <3>2, <3>3, <3>4, <3>5 DEF TestOk
  <2>. QED
    BY <2>5, <2>6
<1>8. HistoryOk(new, later, at)
  BY <1>3, <1>5, <1>6, <1>7 DEF HistoryOk
<1>. QED
  BY <1>8 DEF new, at

LEMMA RunSuiteGrows ==
  ASSUME FlakeInv, NEW outcomes \in [Tests -> Outcomes], RunSuite(outcomes)
  PROVE  /\ now' = now + 1 /\ now' \in Nat /\ Longer(log, log', now)
<1>1. /\ now' = now + 1 /\ now \in Nat /\ log \in Seq([Tests -> Verdicts]) /\ Len(log) = now
      /\ log' = Append(log, [t \in Tests |-> classify(outcomes[t])])
  BY DEF RunSuite, FlakeInv
<1> DEFINE new == [t \in Tests |-> classify(outcomes[t])]
<1>2. new \in [Tests -> Verdicts]
  <2>1. \A t \in Tests : outcomes[t] \in Outcomes
    OBVIOUS
  <2>2. \A t \in Tests : classify(outcomes[t]) \in Verdicts
    BY <2>1, VerdictType
  <2>. QED
    BY <2>2
<1> HIDE DEF new
<1>3. log' = Append(log, new)
  BY <1>1 DEF new
<1>4. /\ log' \in Seq([Tests -> Verdicts]) /\ Len(log') = now + 1
      /\ \A k \in 1..now : log'[k] = log[k]
  BY <1>1, <1>2, <1>3
<1>. QED
  BY <1>1, <1>4 DEF Longer

LEMMA FlakeNextInv == FlakeInv /\ [FlakeNext]_flakeVars => FlakeInv'
<1> SUFFICES ASSUME FlakeInv, [FlakeNext]_flakeVars
             PROVE  FlakeInv'
  OBVIOUS
<1>1. ASSUME UNCHANGED <<now, log>>, Histories' \subseteq Histories,
             quarantine' \in Seq([id : Tests, expiresAt : Int])
      PROVE  FlakeInv'
  BY <1>1 DEF FlakeInv, HistoryOk, TestOk
<1>2. ASSUME NEW outcomes \in [Tests -> Outcomes], ScheduledRun(outcomes) PROVE FlakeInv'
  <2>1. /\ RunSuite(outcomes) /\ main' = main /\ quarantine' = quarantine
        /\ proposals' \in {proposals,
             proposals \union {[base |-> main.folded, history |-> mergeRun(main, log'[now'], now')]}}
    BY <1>2 DEF ScheduledRun
  <2>2. now' = now + 1 /\ now' \in Nat /\ now \in Nat /\ Longer(log, log', now)
    BY <2>1, RunSuiteGrows DEF FlakeInv
  <2>3. \A h \in Histories : HistoryOk(h, log, now)
    BY DEF FlakeInv
  <2>4. \A h \in Histories : HistoryOk(h, log', now + 1)
    BY <2>2, <2>3, HistoryKept
  <2>5. HistoryOk(mergeRun(main, log'[now + 1], now + 1), log', now + 1)
    <3>1. HistoryOk(main, log, now)
      BY <2>3 DEF Histories
    <3>. QED
      BY <2>2, <3>1, HistoryFolded
  <2>6. Histories' \subseteq Histories \union {mergeRun(main, log'[now + 1], now + 1)}
    BY <2>1, <2>2 DEF Histories
  <2>7. \A h \in Histories' : HistoryOk(h, log', now')
    BY <2>2, <2>4, <2>5, <2>6
  <2>8. quarantine' \in Seq([id : Tests, expiresAt : Int])
    BY <2>1 DEF FlakeInv
  <2>. QED
    BY <2>2, <2>7, <2>8 DEF FlakeInv, Longer, HistoryOk, TestOk
<1>3. ASSUME NEW outcomes \in [Tests -> Outcomes], EnforcedRun(outcomes) PROVE FlakeInv'
  <2>1. RunSuite(outcomes) /\ main' = main /\ quarantine' = quarantine /\ proposals' = proposals
    BY <1>3 DEF EnforcedRun
  <2>2. now' = now + 1 /\ now' \in Nat /\ now \in Nat /\ Longer(log, log', now)
    BY <2>1, RunSuiteGrows DEF FlakeInv
  <2>3. Histories' = Histories /\ \A h \in Histories : HistoryOk(h, log, now)
    BY <2>1 DEF FlakeInv, Histories
  <2>4. \A h \in Histories' : HistoryOk(h, log', now')
    BY <2>2, <2>3, HistoryKept
  <2>5. quarantine' \in Seq([id : Tests, expiresAt : Int])
    BY <2>1 DEF FlakeInv
  <2>. QED
    BY <2>2, <2>4, <2>5 DEF FlakeInv, Longer, HistoryOk, TestOk
<1>4. ASSUME NEW p \in proposals, MergeProposal(p) \/ CloseProposal(p) PROVE FlakeInv'
  <2>1. UNCHANGED <<now, log, quarantine>> /\ Histories' \subseteq Histories
    BY <1>4 DEF MergeProposal, CloseProposal, Histories
  <2>. QED
    BY <1>1, <2>1 DEF FlakeInv
<1>5. ASSUME NEW t \in Tests, NEW runs \in 1..2, Quarantine(t, runs) PROVE FlakeInv'
  <2>1. UNCHANGED <<now, log>> /\ Histories' = Histories
    BY <1>5 DEF Quarantine, Histories
  <2> DEFINE T == [id : Tests, expiresAt : Int]
             new == [id |-> t, expiresAt |-> now + runs]
  <2>2. now \in Nat /\ quarantine \in Seq(T) /\ new \in T
    BY DEF FlakeInv
  <2>3. quarantine' \in Seq(T)
    <3>1. CASE quarantine' = Append(quarantine, new)
      <4> HIDE DEF T, new
      <4>. QED
        BY <2>2, <3>1
    <3>2. ASSUME NEW i \in DOMAIN quarantine, quarantine[i].id = t,
                 quarantine' = [quarantine EXCEPT ![i].expiresAt = now + runs]
          PROVE  quarantine' \in Seq(T)
      <4>1. quarantine[i] \in T /\ DOMAIN quarantine = 1..Len(quarantine)
        <5> HIDE DEF T
        <5>. QED
          BY <2>2
      <4>2. quarantine[i] = [id |-> t, expiresAt |-> quarantine[i].expiresAt]
        BY <3>2, <4>1
      <4>3. [quarantine[i] EXCEPT !.expiresAt = now + runs] = new
        BY <4>2
      <4>4. quarantine' = [quarantine EXCEPT ![i] = new]
        BY <3>2, <4>3
      <4> HIDE DEF T, new
      <4>. QED
        BY <2>2, <4>1, <4>4, ExceptSeq
    <3>. QED
      BY <1>5, <3>1, <3>2 DEF Quarantine
  <2>. QED
    BY <1>1, <2>1, <2>3
<1>6. CASE UNCHANGED flakeVars
  <2>1. UNCHANGED <<now, log, quarantine>> /\ Histories' = Histories
    BY <1>6 DEF flakeVars, Histories
  <2>. QED
    BY <1>1, <2>1 DEF FlakeInv
<1>. QED
  BY <1>2, <1>3, <1>4, <1>5, <1>6 DEF FlakeNext

\* What a history that is in order says of a test.
LEMMA HistoryIsTrueOf ==
  ASSUME FlakeInv, NEW h \in Histories, NEW t \in Tests
  PROVE  /\ h.tests[t].window = Shown(log, Last(RunsOf(h, t), WindowRuns), t)
         /\ t \in findStale(h) <=>
              /\ RunsOf(h, t) # <<>>
              /\ \A i \in 1..Len(Last(h.folded, StaleAfter)) :
                   log[Last(h.folded, StaleAfter)[i]][t] = "skipped"
<1> DEFINE all == h.folded
           n == Len(all)
           ran == RunsOf(h, t)
           seen == h.tests[t].lastSeenAt
           end == Last(all, StaleAfter)
<1>1. HistoryOk(h, log, now) /\ TestOk(h, log, t) /\ now \in Nat
  BY DEF FlakeInv, HistoryOk
<1>2. h.tests[t].window = Shown(log, Last(ran, WindowRuns), t)
  BY <1>1 DEF TestOk, RunsOf
<1>3. /\ all \in Seq(1..now) /\ n \in Nat
      /\ \A i, j \in 1..n : i < j => all[i] < all[j]
      /\ h.runs = Last(all, RunsKept)
      /\ \A i \in 1..n : all[i] \in 1..now
  <2>1. all \in Seq(1..now)
    BY <1>1 DEF HistoryOk
  <2>. QED
    BY <1>1, <2>1 DEF HistoryOk
<1>4. /\ seen \in Nat
      /\ \A i \in 1..n : log[all[i]][t] # "skipped" => all[i] <= seen
      /\ \/ \A i \in 1..n : log[all[i]][t] = "skipped"
         \/ \E i \in 1..n : all[i] = seen /\ log[all[i]][t] # "skipped"
  BY <1>1 DEF TestOk
<1>5. ran \in Seq(1..now) /\ (ran = <<>> <=> \A i \in 1..n : log[all[i]][t] = "skipped")
  BY <1>3, RanInType DEF RunsOf
<1>6. h.tests[t].window = <<>> <=> ran = <<>>
  <2>1. /\ Last(ran, WindowRuns) \in Seq(1..now)
        /\ Len(Last(ran, WindowRuns)) = IF Len(ran) > WindowRuns THEN WindowRuns ELSE Len(ran)
    BY <1>5, HistoryAssumption, LastShape
  <2>2. log \in Seq([Tests -> Verdicts]) /\ Len(log) = now
    BY DEF FlakeInv
  <2>3. /\ Shown(log, Last(ran, WindowRuns), t) \in Seq(Verdicts)
        /\ Len(Shown(log, Last(ran, WindowRuns), t)) = Len(Last(ran, WindowRuns))
    BY <1>1, <2>1, <2>2, ShownType
  <2>4. Len(ran) \in Nat /\ (ran = <<>> <=> Len(ran) = 0) /\ WindowRuns \in Nat \ {0}
    BY <1>5, HistoryAssumption
  <2>5. Shown(log, Last(ran, WindowRuns), t) = <<>> <=> Len(Shown(log, Last(ran, WindowRuns), t)) = 0
    BY <2>3
  <2>6. Shown(log, Last(ran, WindowRuns), t) = <<>> <=> Len(ran) = 0
    BY <2>1, <2>3, <2>4, <2>5
  <2>. QED
    BY <1>2, <2>4, <2>6
<1>7. CASE all = <<>>
  <2>1. n = 0
    BY <1>7
  <2>2. ran = <<>>
    BY <1>5, <2>1
  <2>3. h.tests[t].window = <<>>
    BY <1>6, <2>2
  <2>4. t \notin findStale(h)
    BY <2>3 DEF findStale
  <2>. QED
    BY <1>2, <2>2, <2>4
<1>8. CASE all # <<>>
  <2> DEFINE first == IF n > StaleAfter THEN n - StaleAfter + 1 ELSE 1
             runs == h.runs
             cutoff == IF Len(runs) > StaleAfter THEN Len(runs) - StaleAfter + 1 ELSE 1
  <2>0. StaleAfter \in Nat \ {0} /\ RunsKept \in Nat \ {0} /\ StaleAfter <= RunsKept
    BY HistoryAssumption
  <2>1. n # 0 /\ first \in 1..n
    BY <1>3, <1>8, <2>0
  <2>2. /\ runs \in Seq(1..now) /\ Len(runs) = IF n > RunsKept THEN RunsKept ELSE n
        /\ n > RunsKept => \A i \in 1..RunsKept : runs[i] = all[n - RunsKept + i]
        /\ ~(n > RunsKept) => runs = all
    BY <1>3, <2>0, LastShape
  <2>3. runs[cutoff] = all[first] /\ runs # <<>>
    <3>1. CASE ~(n > RunsKept)
      BY <1>8, <2>2, <3>1
    <3>2. CASE n > RunsKept
      <4>1. Len(runs) = RunsKept /\ cutoff \in 1..RunsKept /\ first = n - StaleAfter + 1
        BY <1>3, <2>0, <2>2, <3>2
      <4>2. cutoff = RunsKept - StaleAfter + 1
        BY <2>0, <4>1
      <4>a. n - RunsKept + cutoff = first
        <5> HIDE DEF first, cutoff, n
        <5>. QED
          BY <1>3, <2>0, <4>1, <4>2
      <4>3. runs # <<>>
        BY <2>0, <4>1
      <4>. QED
        BY <2>2, <3>2, <4>1, <4>a, <4>3
    <3>. QED
      BY <3>1, <3>2
  <2>4. /\ Len(end) = n - first + 1
        /\ \A i \in 1..(n - first + 1) : end[i] = all[first + i - 1]
    <3>1. /\ Len(end) = IF n > StaleAfter THEN StaleAfter ELSE n
          /\ n > StaleAfter => \A i \in 1..StaleAfter : end[i] = all[n - StaleAfter + i]
          /\ ~(n > StaleAfter) => end = all
      BY <1>3, <2>0, LastShape
    <3>2. CASE ~(n > StaleAfter)
      BY <1>3, <3>1, <3>2
    <3>3. CASE n > StaleAfter
      <4>1. n - first + 1 = StaleAfter /\ \A i \in 1..StaleAfter : first + i - 1 = n - StaleAfter + i
        BY <1>3, <2>0, <3>3
      <4>. QED
        BY <3>1, <3>3, <4>1
    <3>. QED
      BY <3>2, <3>3
  <2> HIDE DEF first, end, runs, n, all, seen, ran
  <2>5. (\A i \in 1..Len(end) : log[end[i]][t] = "skipped")
          <=> \A k \in first..n : log[all[k]][t] = "skipped"
    <3>1. ASSUME NEW k \in first..n PROVE k - first + 1 \in 1..Len(end) /\ end[k - first + 1] = all[k]
      <4>1. k - first + 1 \in 1..(n - first + 1) /\ first + (k - first + 1) - 1 = k
        BY <1>3, <2>1
      <4>. QED
        BY <2>4, <4>1
    <3>2. ASSUME NEW i \in 1..Len(end) PROVE first + i - 1 \in first..n /\ end[i] = all[first + i - 1]
      BY <1>3, <2>1, <2>4
    <3>3. ASSUME \A i \in 1..Len(end) : log[end[i]][t] = "skipped", NEW k \in first..n
          PROVE  log[all[k]][t] = "skipped"
      BY <3>1, <3>3
    <3>4. ASSUME \A k \in first..n : log[all[k]][t] = "skipped", NEW i \in 1..Len(end)
          PROVE  log[end[i]][t] = "skipped"
      BY <3>2, <3>4
    <3>. QED
      BY <3>3, <3>4
  <2>6. t \in findStale(h) <=> h.tests[t].window # <<>> /\ seen < all[first]
    BY <2>3 DEF findStale, runs, seen
  <2>7. ASSUME ran # <<>>
        PROVE  seen < all[first] <=> \A k \in first..n : log[all[k]][t] = "skipped"
    <3>1. PICK i \in 1..n : all[i] = seen /\ log[all[i]][t] # "skipped"
      BY <1>4, <1>5, <2>7
    <3>2. ASSUME seen < all[first], NEW k \in first..n PROVE log[all[k]][t] = "skipped"
      <4>1. k \in 1..n /\ (k = first \/ first < k)
        BY <1>3, <2>1
      <4>2. all[first] <= all[k] /\ all[k] \in Nat /\ all[first] \in Nat
        BY <1>3, <2>1, <4>1
      <4>3. ~(all[k] <= seen)
        BY <1>4, <3>2, <4>2
      <4>. QED
        BY <1>4, <4>1, <4>3
    <3>3. ASSUME \A k \in first..n : log[all[k]][t] = "skipped" PROVE seen < all[first]
      <4>1. i \notin first..n
        BY <3>1, <3>3
      <4>2. i < first
        BY <1>3, <2>1, <4>1
      <4>. QED
        BY <1>3, <2>1, <3>1, <4>2
    <3>. QED
      BY <3>2, <3>3
  <2>. QED
    BY <1>2, <1>6, <2>5, <2>6, <2>7 DEF end, all, ran
<1>. QED
  BY <1>7, <1>8

\* What the invariant says of every history.
LEMMA HistoriesAreTrue == FlakeInv => HistoryIsTrue
<1> SUFFICES ASSUME FlakeInv
             PROVE  HistoryIsTrue
  OBVIOUS
<1>1. WindowIsWhatRan
  BY HistoryIsTrueOf DEF WindowIsWhatRan, Shown
<1>2. StaleMeansGone
  <2> SUFFICES ASSUME NEW h \in Histories, NEW t \in Tests
               PROVE  t \in findStale(h) <=>
                        /\ RunsOf(h, t) # <<>>
                        /\ \A at \in {Last(h.folded, StaleAfter)[i] : i \in 1..Len(Last(h.folded, StaleAfter))} :
                             log[at][t] = "skipped"
    BY DEF StaleMeansGone
  <2> DEFINE end == Last(h.folded, StaleAfter)
  <2>1. t \in findStale(h) <=>
          RunsOf(h, t) # <<>> /\ \A i \in 1..Len(end) : log[end[i]][t] = "skipped"
    BY HistoryIsTrueOf
  <2> HIDE DEF end
  <2>2. (\A i \in 1..Len(end) : log[end[i]][t] = "skipped")
          <=> \A at \in {end[i] : i \in 1..Len(end)} : log[at][t] = "skipped"
    OBVIOUS
  <2>. QED
    BY <2>1, <2>2 DEF end
<1>. QED
  BY <1>1, <1>2 DEF HistoryIsTrue

\* An enforced run and a test that flaked in each of its last runs.
Covered ==
  enforced' # enforced =>
    \A t \in Tests :
      LET runs == Last(Append(RunsOf(main, t), now'), WindowRuns)
      IN  /\ Len(runs) >= MinObservations
          /\ \A i \in 1..Len(runs) : log'[runs[i]][t] = "flaky"
          => t \in enforced'.blocking
             \/ \E i \in DOMAIN quarantine : quarantine[i].id = t /\ now' < quarantine[i].expiresAt

LEMMA EnforcedStep == FlakeInv /\ [FlakeNext]_flakeVars => Covered
<1> SUFFICES ASSUME FlakeInv, [FlakeNext]_flakeVars, enforced' # enforced, NEW t \in Tests,
                    LET runs == Last(Append(RunsOf(main, t), now'), WindowRuns)
                    IN  /\ Len(runs) >= MinObservations
                        /\ \A i \in 1..Len(runs) : log'[runs[i]][t] = "flaky",
                    t \notin enforced'.blocking
             PROVE  \E i \in DOMAIN quarantine : quarantine[i].id = t /\ now' < quarantine[i].expiresAt
  BY DEF Covered
<1> DEFINE ran == RunsOf(main, t)
           runs == Last(Append(ran, now'), WindowRuns)
           h == mergeRun(main, log'[now'], now')
           w == h.tests[t].window
<1>1. PICK outcomes \in [Tests -> Outcomes] : EnforcedRun(outcomes)
  BY DEF FlakeNext, flakeVars, ScheduledRun, MergeProposal, CloseProposal, Quarantine
<1>2. now' = now + 1 /\ now' \in Nat /\ now \in Nat /\ Longer(log, log', now)
  BY <1>1, RunSuiteGrows DEF FlakeInv, EnforcedRun
<1>3. t \notin unblocked(h, now')
  BY <1>1 DEF EnforcedRun
<1>4. /\ main.tests[t].window = Shown(log, Last(ran, WindowRuns), t)
      /\ main.folded \in Seq(1..now)
  BY DEF FlakeInv, Histories, HistoryOk, TestOk, RunsOf
<1>5. ran \in Seq(1..now)
  BY <1>2, <1>4, RanInType DEF RunsOf
<1>6. Len(runs) >= MinObservations /\ \A i \in 1..Len(runs) : log'[runs[i]][t] = "flaky"
  OBVIOUS
<1>7. /\ Append(ran, now') \in Seq(1..now') /\ Append(ran, now')[Len(ran) + 1] = now'
      /\ Len(Append(ran, now')) = Len(ran) + 1 /\ Len(ran) \in Nat
  <2>1. ran \in Seq(1..now') /\ now' \in 1..now' /\ Len(ran) \in Nat
    BY <1>2, <1>5
  <2> HIDE DEF ran
  <2>. QED
    BY <2>1
<1>8. /\ runs \in Seq(1..now') /\ Len(runs) \in Nat /\ Len(runs) >= 1 /\ runs[Len(runs)] = now'
  <2> DEFINE all == Append(ran, now')
  <2>0. WindowRuns \in Nat \ {0}
    BY HistoryAssumption
  <2>a. all \in Seq(1..now') /\ all[Len(all)] = now' /\ Len(all) \in Nat \ {0}
    BY <1>7
  <2> HIDE DEF all
  <2>1. /\ Last(all, WindowRuns) \in Seq(1..now')
        /\ Len(Last(all, WindowRuns)) = IF Len(all) > WindowRuns THEN WindowRuns ELSE Len(all)
        /\ Len(all) > WindowRuns =>
             \A i \in 1..WindowRuns : Last(all, WindowRuns)[i] = all[Len(all) - WindowRuns + i]
        /\ ~(Len(all) > WindowRuns) => Last(all, WindowRuns) = all
    BY <2>0, <2>a, LastShape
  <2>2. Last(all, WindowRuns)[Len(Last(all, WindowRuns))] = now'
    <3>1. CASE Len(all) > WindowRuns
      <4>1. Len(all) - WindowRuns + WindowRuns = Len(all) /\ WindowRuns \in 1..WindowRuns
        BY <2>0, <2>a
      <4>2. Last(all, WindowRuns)[WindowRuns] = all[Len(all) - WindowRuns + WindowRuns]
        BY <2>1, <3>1, <4>1
      <4>. QED
        BY <2>1, <2>a, <3>1, <4>1, <4>2
    <3>2. CASE ~(Len(all) > WindowRuns)
      BY <2>1, <2>a, <3>2
    <3>. QED
      BY <3>1, <3>2
  <2>3. Len(Last(all, WindowRuns)) \in Nat /\ Len(Last(all, WindowRuns)) >= 1
    BY <2>0, <2>a, <2>1
  <2>. QED
    BY <2>1, <2>2, <2>3 DEF all
<1>9. w = Shown(log', runs, t)
  <2>1. log'[now'][t] = "flaky"
    <3>1. Len(runs) \in 1..Len(runs)
      BY <1>8
    <3>. QED
      BY <1>6, <1>8, <3>1
  <2>2. w = Last(Append(main.tests[t].window, log'[now'][t]), WindowRuns)
    BY <2>1 DEF mergeRun
  <2>3. Last(Append(Shown(log, Last(ran, WindowRuns), t), log'[now + 1][t]), WindowRuns)
          = Shown(log', Last(Append(ran, now + 1), WindowRuns), t)
    <3> HIDE DEF ran
    <3>. QED
      BY <1>2, <1>5, WindowMoves
  <2>. QED
    BY <1>2, <1>4, <2>2, <2>3
<1> HIDE DEF runs, h
<1>10. Len(w) = Len(runs) /\ DOMAIN w = 1..Len(runs) /\ \A i \in 1..Len(runs) : w[i] = "flaky"
  BY <1>6, <1>8, <1>9 DEF Shown
<1>11. Flaky(w) = Len(w)
  <2>1. {i \in DOMAIN w : w[i] = "flaky"} = 1..Len(runs)
    BY <1>10
  <2>2. Cardinality(1..Len(runs)) = Len(runs)
    <3>1. 1 \in Int /\ Len(runs) \in Int /\ 1 <= Len(runs)
      BY <1>8
    <3>2. Cardinality(1..Len(runs)) = IF 1 > Len(runs) THEN 0 ELSE Len(runs) - 1 + 1
      BY <3>1, FS_Interval
    <3>. QED
      BY <3>1, <3>2
  <2>. QED
    BY <1>10, <2>1, <2>2 DEF Flaky
<1>12. t \in findChronicOffenders(h)
  <2>1. MinObservations \in Nat \ {0} /\ RateOneIn \in Nat \ {0}
    BY HistoryAssumption
  <2>2. Len(w) \in Nat /\ Len(w) >= MinObservations /\ Len(w) >= 1
    BY <1>6, <1>8, <1>10 DEF runs
  <2>3. Len(w) * RateOneIn >= Len(w)
    BY <2>1, <2>2
  <2>. QED
    BY <1>11, <2>1, <2>2, <2>3 DEF findChronicOffenders
<1>13. isActive(t, now')
  BY <1>3, <1>12 DEF unblocked
<1>14. PICK i \in findQuarantineEntry(t) : quarantine[i].expiresAt > now'
  BY <1>13 DEF isActive
<1>15. i \in DOMAIN quarantine /\ quarantine[i].id = t
  BY DEF findQuarantineEntry
<1>16. quarantine[i].expiresAt \in Int
  <2> DEFINE T == [id : Tests, expiresAt : Int]
  <2>1. quarantine \in Seq(T)
    BY DEF FlakeInv
  <2> HIDE DEF T
  <2>2. quarantine[i] \in T
    BY <1>15, <2>1
  <2>. QED
    BY <2>2 DEF T
<1>. QED
  BY <1>2, <1>14, <1>15, <1>16

-----------------------------------------------------------------------------
(***************************************************************************)
(* The automation as a whole.                                              *)
(***************************************************************************)

GatesInv == AutomergeInv /\ GateInv /\ FlakeInv /\ AlertInv /\ AuditInv

LEMMA GatesInitInv == Init => GatesInv
BY AutomergeInitInv, GateInitInv, FlakeInitInv, AlertInitInv, AuditInitInv DEF Init, GatesInv

\* A step of the automation is a step of each part, or leaves it alone.
LEMMA StepOfParts ==
  [Next]_vars =>
    /\ [AutomergeNext]_automergeVars /\ [GateNext]_gateVars /\ [FlakeNext]_flakeVars
    /\ [AlertNext]_alertVars /\ [AuditNext]_auditVars
BY DEF Next, vars

LEMMA GatesNextInv == GatesInv /\ [Next]_vars => GatesInv'
BY StepOfParts, AutomergeNextInv, GateNextInv, FlakeNextInv, AlertNextInv, AuditStep DEF GatesInv

LEMMA GatesInvHolds == Spec => []GatesInv
BY GatesInitInv, GatesNextInv, PTL DEF Spec

\* triage.mjs and policy.mjs: a commit GitHub was asked to merge moves what
\* the base has by single patch releases of packages that are not exempt, and
\* all its checks were green at one moment, whatever Dependabot pushed and
\* whichever checks moved between the steps of the run.
THEOREM ArmedIsAlwaysSafe == Spec => []ArmedIsSafe
<1>1. GatesInv => ArmedIsSafe
  BY SafeWhileArmed DEF GatesInv
<1>. QED
  BY <1>1, GatesInvHolds, PTL

\* The concurrency group of dependabot-automerge.yml and the sticky comment:
\* at rest, the last commit has been judged, or its run is red; and what the
\* comment announces is so.
THEOREM HeadIsAlwaysJudged == Spec => []HeadIsJudged
<1>1. GatesInv => HeadIsJudged
  BY DEF GatesInv, AutomergeInv
<1>. QED
  BY <1>1, GatesInvHolds, PTL

\* evaluateBaselineApproval() and the workflow around it: where the suite and
\* its snapshots are there, no change of the visual baseline turns green
\* without an independent approval of that very commit that stood when the
\* job decided, of one who could write when it began or, where the lookup
\* failed, is associated; whichever jobs were cancelled, run again or failed.
THEOREM GreenIsAlwaysApproved == Spec => []GreenIsApproved
<1>1. GatesInv => GreenIsApproved
  BY DEF GatesInv, GateInv
<1>. QED
  BY <1>1, GatesInvHolds, PTL

\* mergeRun() and findStale() of flake-history.mjs: the window of a test is
\* what the last runs that ran it have shown, and it is stale exactly when
\* none of the last runs did.
THEOREM HistoryIsAlwaysTrue == Spec => []HistoryIsTrue
<1>1. GatesInv => HistoryIsTrue
  BY HistoriesAreTrue DEF GatesInv
<1>. QED
  BY <1>1, GatesInvHolds, PTL

\* findChronicOffenders() and isActive(): an enforced run passes over a test
\* that flaked in all of its last runs only while an entry covers it.
THEOREM NoQuarantineIsPermanent == Spec => NoPermanentQuarantine
<1>1. GatesInv /\ [Next]_vars => [Covered]_flakeVars
  BY EnforcedStep, StepOfParts DEF GatesInv
<1>. QED
  BY <1>1, GatesInvHolds, PTL DEF Spec, NoPermanentQuarantine, Covered

\* evaluateErrorRate() and evaluateWebVitals(): what fired still fires as
\* things get worse, and what is critical warns as well.
THEOREM WorseAlwaysStillFires == Spec => WorseStillFires
<1>1. GatesInv /\ GatesInv' => StillFires
  BY WorseStep DEF GatesInv
<1>. QED
  BY <1>1, GatesInvHolds, PTL DEF WorseStillFires, StillFires

\* evaluateAudit() of audit-gate.mjs: a judgement turns green only when
\* every known advisory is accepted, and red stays red until somebody commits.
THEOREM GreenIsAlwaysEarned == Spec => GreenIsEarned
<1>1. GatesInv /\ [Next]_vars => [Earned]_auditVars
  BY AuditStep, StepOfParts DEF GatesInv
<1>. QED
  BY <1>1, GatesInvHolds, PTL DEF Spec, GreenIsEarned, Earned
=============================================================================
