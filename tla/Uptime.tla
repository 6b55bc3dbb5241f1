------------------------------- MODULE Uptime -------------------------------
(***************************************************************************)
(* The synthetic monitoring: uptime-check.yml loads the page and           *)
(* /api/health, whose handler asks the RPC node for its health and waits   *)
(* for the answer no longer than its timeout.  Several requests of the     *)
(* handler may wait at once: a newer run of the workflow cancels the one   *)
(* in progress, but not the request it has made.                           *)
(***************************************************************************)
EXTENDS Integers

CONSTANT MaxChecks     \* bound on the runs of the workflow

ASSUME UptimeAssumption == MaxChecks \in Nat \ {0}

VARIABLES
  app,                 \* does the deployment take requests
  rpc,                 \* "answers", "fails" or "hangs"
  requests,            \* getHealth() of each run: [promise, timer, reply]
  check,               \* the run in progress: [at, appOk]
  run,                 \* how many there were
  alarm,               \* the reason of the last escalation, and its run
  failures,            \* history: how many runs have failed in a row
  trouble              \* history: what was wrong at some moment of each run

uptimeVars == <<app, rpc, requests, check, run, alarm, failures, trouble>>

FAILURE_THRESHOLD == 3

NoRequest == [promise |-> "none", timer |-> "off", reply |-> "none"]
NoCheck == [at |-> "none", appOk |-> FALSE]
NoAlarm == [reason |-> "none", run |-> 0]

\* What is wrong now.
Wrong == (IF app THEN {} ELSE {"app"}) \union (IF rpc = "answers" THEN {} ELSE {"rpc"})
Noticed == trouble' = IF check'.at = "none" THEN trouble
                      ELSE [trouble EXCEPT ![run'] = @ \union Wrong']

UptimeInit ==
  /\ app = TRUE
  /\ rpc = "answers"
  /\ requests = [k \in 1..MaxChecks |-> NoRequest]
  /\ check = NoCheck
  /\ run = 0
  /\ alarm = NoAlarm
  /\ failures = 0
  /\ trouble = [k \in 1..MaxChecks |-> {}]

AppChanges ==
  /\ app' = ~app
  /\ UNCHANGED <<rpc, requests, check, run, alarm, failures>>
  /\ Noticed
RpcChanges ==
  /\ rpc' \in {"answers", "fails", "hangs"} \ {rpc}
  /\ UNCHANGED <<app, requests, check, run, alarm, failures>>
  /\ Noticed

\* A scheduled run; it takes the place of one that has not ended.
StartCheck ==
  /\ run < MaxChecks
  /\ run' = run + 1
  /\ check' = [NoCheck EXCEPT !.at = "page"]
  /\ UNCHANGED <<app, rpc, requests, alarm, failures>>
  /\ Noticed

FetchPage ==
  /\ check.at = "page"
  /\ check' = [at |-> "health", appOk |-> app]
  /\ UNCHANGED <<app, rpc, requests, run, alarm, failures, trouble>>

\* The escalation: a comment on the open issue or, where there is none, a red
\* run, for the title of the new one is empty.  FAILURE_THRESHOLD is not
\* looked at.
Escalate(appOk) ==
  /\ alarm' = [reason |-> IF appOk THEN "rpc" ELSE "app", run |-> run]
  /\ failures' = failures + 1
RunEnds == check' = NoCheck /\ UNCHANGED <<app, rpc, requests, run, trouble>>

\* curl reaches the handler, which starts its timer with the call.
FetchHealth ==
  /\ check.at = "health" /\ app
  /\ requests' = [requests EXCEPT ![run] =
                    [promise |-> "pending", timer |-> "armed", reply |-> "none"]]
  /\ check' = [check EXCEPT !.at = "waiting"]
  /\ UNCHANGED <<app, rpc, run, alarm, failures, trouble>>

\* curl does not reach it, or the deployment dies before it has answered: the
\* HTTP code is not 200.
HealthUnreachable ==
  /\ check.at \in {"health", "waiting"} /\ ~app
  /\ Escalate(check.appOk)
  /\ RunEnds

Replied(request, reply) == [request EXCEPT !.reply = IF @ = "none" THEN reply ELSE @]

\* The RPC node answers or fails, in time or after the timeout.
RpcReplies(k) ==
  /\ requests[k].promise = "pending" /\ rpc # "hangs"
  /\ requests' = [requests EXCEPT ![k] =
       [Replied(@, IF rpc = "answers" THEN "reachable" ELSE "unreachable")
         EXCEPT !.promise = "settled", !.timer = "off"]]
  /\ UNCHANGED <<app, rpc, check, run, alarm, failures, trouble>>

\* Mutant: the timer runs only while the node does something.
TimeoutOfAnswered(k) ==
  /\ requests[k].timer = "armed" /\ rpc # "hangs"
  /\ requests' = [requests EXCEPT ![k] = [Replied(@, "unreachable") EXCEPT !.timer = "off"]]
  /\ trouble' = [trouble EXCEPT ![k] = @ \union {"slow"}]
  /\ UNCHANGED <<app, rpc, check, run, alarm, failures>>

\* withTimeout() rejects; whatever the node answers later is dropped.
Timeout(k) ==
  /\ requests[k].timer = "armed"
  /\ requests' = [requests EXCEPT ![k] = [Replied(@, "unreachable") EXCEPT !.timer = "off"]]
  /\ trouble' = [trouble EXCEPT ![k] = @ \union {"slow"}]
  /\ UNCHANGED <<app, rpc, check, run, alarm, failures>>

\* The rest of the probe and, unless all is well, the escalation.
Judge ==
  /\ check.at = "waiting" /\ requests[run].reply # "none"
  /\ IF check.appOk /\ requests[run].reply = "reachable"
       THEN failures' = 0 /\ UNCHANGED alarm
       ELSE Escalate(check.appOk)
  /\ RunEnds

UptimeNext ==
  \/ AppChanges \/ RpcChanges
  \/ StartCheck \/ FetchPage \/ FetchHealth \/ HealthUnreachable \/ Judge
  \/ \E k \in 1..MaxChecks : RpcReplies(k) \/ Timeout(k)

\* Timers fire and the steps of a job follow one another; that the RPC node
\* ever answers is not assumed.
UptimeFairness ==
  /\ \A k \in 1..MaxChecks : WF_uptimeVars(Timeout(k))
  /\ WF_uptimeVars(FetchPage) /\ WF_uptimeVars(FetchHealth)
  /\ WF_uptimeVars(HealthUnreachable) /\ WF_uptimeVars(Judge)

-----------------------------------------------------------------------------
(***************************************************************************)
(* Properties.                                                             *)
(***************************************************************************)

\* An alarm is not false: it names the page only if the deployment was down
\* at some moment of the run, and the RPC node only if that or the deployment
\* was, or the node let the run's own request time out.  Answers that come
\* after the timeout, or to a request of a cancelled run, change nothing.
AlarmsAreTrue ==
  [][alarm' # alarm =>
       \/ alarm'.reason = "app" /\ "app" \in trouble[run]
       \/ alarm'.reason = "rpc" /\ trouble[run] # {}]_uptimeVars

\* A hang that lasts is reported: when the RPC node hangs for good and
\* nothing else is wrong, a run that begins and is not cancelled ends with an
\* alarm of its own that names the node.
HangIsReported ==
  [](check.at = "page" /\ rpc = "hangs" /\ app =>
       <>(\/ alarm.reason = "rpc" /\ alarm.run = run
          \/ rpc # "hangs" \/ ~app))

\* Alarms are true, and a hang that lasts raises one.
AlarmsAreRight == AlarmsAreTrue /\ HangIsReported

\* "an alert fires only after `FAILURE_THRESHOLD` consecutive failed checks, so
\* a single blip does not page anyone" (uptime-check.yml:9-10).
OnlySustainedFailureAlarms == [][alarm' # alarm => failures' >= FAILURE_THRESHOLD]_uptimeVars
=============================================================================
