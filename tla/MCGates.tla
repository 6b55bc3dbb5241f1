------------------------------- MODULE MCGates -------------------------------
(* The automation around the repository, side by side: its parts share no *)
(* state, so one moves and the others rest.                               *)
EXTENDS Automerge, BaselineApproval, FlakeHistory, AlertRules, AuditGate, TLC

CONSTANT Parts
VARIABLE part

spec(v) == [range |-> "^", version |-> v]
v(a, b, c) == [major |-> a, minor |-> b, patch |-> c, pre |-> FALSE]
uses(s) == [i \in 1..Len(s) |-> [name |-> s[i][1], ref |-> s[i][2]]]
MCBase ==
  [deps |-> ("lib" :> spec(v(1, 0, 0)) @@ "next" :> spec(v(14, 0, 0))),
   uses |-> uses(<< <<"checkout", <<4>> >>, <<"setup", <<4, 2, 0>> >> >>),
   lock |-> FALSE, other |-> FALSE]
patched == [MCBase EXCEPT !.deps["lib"].version.patch = 1, !.lock = TRUE]
MCContents ==
  {patched,
   [patched EXCEPT !.other = TRUE],
   [patched EXCEPT !.deps = @ @@ "new" :> spec(v(0, 1, 0))],
   [patched EXCEPT !.uses[1].ref = <<5>>],
   [MCBase EXCEPT !.deps["next"].version.patch = 1],
   [MCBase EXCEPT !.deps["lib"].version.minor = 1],
   [MCBase EXCEPT !.lock = TRUE],
   [MCBase EXCEPT !.uses[2].ref = <<4, 2, 1>>]}

\* Around the floors (20, 50), the count limits (100, 250) and the ratios.
MCErrorSamples ==
  [totalEvents : {0, 20, 399, 400, 2001, 5000, 30000},
   errorEvents : {0, 19, 20, 49, 50, 100, 101, 251}]
MCVitalsSamples ==
  {[metric |-> m, sampleCount |-> n, p75 |-> p, baselineP75 |-> b] :
     m \in {"LCP", "INP", "CLS", "TTFB"}, n \in {99, 100},
     p \in {0, 130, 200, 201, 501, 2501, 4001}, b \in {NoBaseline, 0, 100}}
quietErrors == [totalEvents |-> 0, errorEvents |-> 0]
quietVitals == [metric |-> "LCP", sampleCount |-> 99, p75 |-> 0, baselineP75 |-> NoBaseline]

\* One advisory of two packages, and another.
MCAdvisories ==
  {[id |-> "A", packageName |-> "p", severity |-> "high"],
   [id |-> "A", packageName |-> "q", severity |-> "high"],
   [id |-> "B", packageName |-> "q", severity |-> "critical"]}

automergeRest == part = "automerge" \/ (draft = FALSE /\ commits = <<patched>>)
gateRest == part = "baseline" \/ pushes = <<"unchanged">>
auditRest == part = "audit" \/ deps = [p \in Packages |-> "production"]
alertRest == part = "alerts" \/ (errorSample = quietErrors /\ vitalsSample = quietVitals)

Init ==
  /\ part \in Parts
  /\ AutomergeInit /\ automergeRest
  /\ GateInit /\ gateRest
  /\ FlakeInit
  /\ AlertInit /\ alertRest
  /\ AuditInit /\ auditRest

vars == <<part, automergeVars, gateVars, flakeVars, alertVars, auditVars>>

Next ==
  \/ part = "automerge" /\ AutomergeNext
     /\ UNCHANGED <<part, gateVars, flakeVars, alertVars, auditVars>>
  \/ part = "baseline" /\ GateNext
     /\ UNCHANGED <<part, automergeVars, flakeVars, alertVars, auditVars>>
  \/ part = "flakes" /\ FlakeNext
     /\ UNCHANGED <<part, automergeVars, gateVars, alertVars, auditVars>>
  \/ part = "alerts" /\ AlertNext
     /\ UNCHANGED <<part, automergeVars, gateVars, flakeVars, auditVars>>
  \/ part = "audit" /\ AuditNext
     /\ UNCHANGED <<part, automergeVars, gateVars, flakeVars, alertVars>>

Spec == Init /\ [][Next]_vars
=============================================================================
