----------------------------- MODULE AlertRules -----------------------------
(***************************************************************************)
(* The alert rules of lib/telemetry/alertRules.ts: which rules of the      *)
(* registry fire on the samples of a window.  Ratios are fractions of 1000 *)
(* and CLS is counted in thousandths.                                      *)
(***************************************************************************)
EXTENDS Integers, FiniteSets

CONSTANTS
  ErrorSamples,      \* samples [totalEvents, errorEvents] a provider may send
  VitalsSamples,     \* samples [metric, sampleCount, p75, baselineP75]
  NoBaseline         \* a baseline that does not exist

ASSUME SamplesAssumption ==
  /\ \A s \in ErrorSamples : s.totalEvents \in Int /\ s.errorEvents \in Int
  /\ \A s \in VitalsSamples :
       s.sampleCount \in Int /\ s.p75 \in Int /\ s.baselineP75 \in Int \union {NoBaseline}

VARIABLES
  errorSample, vitalsSample,   \* the last ones received
  firing                       \* names of the rules that fired on them

alertVars == <<errorSample, vitalsSample, firing>>

errorRule(name, minEvents, maxErrorRatio, maxErrorCount) ==
  [name |-> name, minEvents |-> minEvents, maxErrorRatio |-> maxErrorRatio,
   maxErrorCount |-> maxErrorCount]
vitalsRule(name, metric, maxP75, maxRegressionRatio) ==
  [name |-> name, metric |-> metric, minSamples |-> 100, maxP75 |-> maxP75,
   maxRegressionRatio |-> maxRegressionRatio]

\* In the names of the rules a hyphen stands for a space.
ERROR_RULES ==
  {errorRule("error-rate-critical", 20, 50, 100),
   errorRule("error-rate-warning", 50, 10, 250)}
VITALS_RULES ==
  {vitalsRule("LCP-p75-critical", "LCP", 4000, 500), vitalsRule("LCP-p75-warning", "LCP", 2500, 250),
   vitalsRule("INP-p75-critical", "INP", 500, 500), vitalsRule("INP-p75-warning", "INP", 200, 250),
   vitalsRule("CLS-p75-warning", "CLS", 100, 250), vitalsRule("TTFB-p75-critical", "TTFB", 1800, 500)}

errorSampleIsUsable(s) ==
  /\ s.totalEvents >= 0 /\ s.errorEvents >= 0
  /\ s.errorEvents <= s.totalEvents
webVitalsSampleIsUsable(s) ==
  /\ s.sampleCount >= 0 /\ s.p75 >= 0
  /\ s.baselineP75 # NoBaseline => s.baselineP75 >= 0

ErrorRateOfSuccesses(r, s) ==
  /\ errorSampleIsUsable(s)
  /\ s.errorEvents >= r.minEvents
  /\ \/ s.totalEvents # s.errorEvents
        /\ s.errorEvents * 1000 > r.maxErrorRatio * (s.totalEvents - s.errorEvents)
     \/ s.errorEvents > r.maxErrorCount
\* evaluateErrorRate().fired: the volume floor, then the ratio or the count.
evaluateErrorRate(r, s) ==
  /\ errorSampleIsUsable(s)
  /\ s.errorEvents >= r.minEvents
  /\ \/ s.errorEvents * 1000 > r.maxErrorRatio * s.totalEvents
     \/ s.errorEvents > r.maxErrorCount

\* The limit on a regression is rounded to thousandths: of a millisecond, which
\* whole milliseconds do not see, or of the score, which CLS is counted in.
RegressionExceeded(r, s) ==
  LET limit == s.baselineP75 * (1000 + r.maxRegressionRatio)
  IN  IF s.metric = "CLS" THEN s.p75 > (limit + 500) \div 1000 ELSE s.p75 * 1000 > limit

\* evaluateWebVitals().fired: the volume floor, then the budget or, where
\* there is a baseline, the regression.
evaluateWebVitals(r, s) ==
  /\ webVitalsSampleIsUsable(s)
  /\ s.sampleCount >= r.minSamples
  /\ \/ s.p75 > r.maxP75
     \/ s.baselineP75 # NoBaseline /\ RegressionExceeded(r, s)

\* firedAlerts() of evaluateAlerts(): every sample against every rule of its kind.
evaluateAlerts(e, v) ==
  {r.name : r \in {q \in ERROR_RULES : evaluateErrorRate(q, e)}}
  \union {r.name : r \in {q \in VITALS_RULES : q.metric = v.metric /\ evaluateWebVitals(q, v)}}

AlertInit ==
  /\ errorSample \in ErrorSamples /\ vitalsSample \in VitalsSamples
  /\ firing = evaluateAlerts(errorSample, vitalsSample)

ErrorWindow(s) ==
  /\ errorSample' = s
  /\ firing' = evaluateAlerts(s, vitalsSample)
  /\ UNCHANGED vitalsSample

VitalsWindow(s) ==
  /\ vitalsSample' = s
  /\ firing' = evaluateAlerts(errorSample, s)
  /\ UNCHANGED errorSample

AlertNext ==
  \/ \E s \in ErrorSamples : ErrorWindow(s)
  \/ \E s \in VitalsSamples : VitalsWindow(s)

-----------------------------------------------------------------------------
(***************************************************************************)
(* Properties.                                                             *)
(***************************************************************************)

Successes(s) == s.totalEvents - s.errorEvents

ErrorsGetWorse ==
  /\ errorSample'.errorEvents >= errorSample.errorEvents
  /\ 0 <= Successes(errorSample') /\ Successes(errorSample') <= Successes(errorSample)
VitalsGetWorse ==
  /\ webVitalsSampleIsUsable(vitalsSample')
  /\ vitalsSample'.metric = vitalsSample.metric
  /\ vitalsSample'.sampleCount >= vitalsSample.sampleCount
  /\ vitalsSample'.p75 >= vitalsSample.p75
  /\ \/ vitalsSample'.baselineP75 = vitalsSample.baselineP75
     \/ vitalsSample.baselineP75 = NoBaseline

\* A window with no fewer errors and no more successes than one that fired
\* an error rule fires it too, and a usable one with a slower p75 of no fewer samples
\* fires what the faster one did: no boundary of the floors, ratios, counts
\* and regressions silences an alert as things get worse, up to windows of
\* nothing but errors; and what is critical warns as well.
WorseStillFires ==
  [][/\ ErrorsGetWorse => \A r \in ERROR_RULES : r.name \in firing => r.name \in firing'
     /\ VitalsGetWorse => \A r \in VITALS_RULES : r.name \in firing => r.name \in firing'
     /\ "LCP-p75-critical" \in firing' => "LCP-p75-warning" \in firing'
     /\ "INP-p75-critical" \in firing' => "INP-p75-warning" \in firing']_alertVars
=============================================================================
