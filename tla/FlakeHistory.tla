---------------------------- MODULE FlakeHistory ----------------------------
(***************************************************************************)
(* The flake history of scripts/test/flake-history.mjs as                  *)
(* flake-history.yml keeps it: a scheduled run of the test suite folds its *)
(* verdicts into the history it finds on main and proposes the result as a *)
(* pull request; somebody merges it, or does not; a run started by hand    *)
(* folds, throws the result away and may enforce the quarantine policy.    *)
(***************************************************************************)
EXTENDS Integers, Sequences, FiniteSets

CONSTANTS
  Tests,
  WindowRuns,            \* windowRuns
  RunsKept,              \* MAX_RUNS_KEPT
  StaleAfter,            \* STALE_AFTER_RUNS
  MinObservations, RateOneIn, \* an offender flakes in one of RateOneIn runs
  MaxRuns, MaxQuarantines     \* bounds

ASSUME HistoryAssumption ==
  /\ WindowRuns \in Nat \ {0} /\ RunsKept \in Nat \ {0} /\ StaleAfter \in 1..RunsKept
  /\ MinObservations \in Nat \ {0} /\ RateOneIn \in Nat \ {0}

VARIABLES
  now,                   \* runs of the workflow so far
  log,                   \* history: the verdicts of each run
  main,                  \* [runs, tests, folded]; folded is a history: the runs in it
  proposals,             \* open pull requests: [base, history]
  quarantine,            \* entries [id, expiresAt], in the order of the file
  enforced               \* the last enforcement: [at, blocking]

flakeVars == <<now, log, main, proposals, quarantine, enforced>>

\* What Vitest reports of a test: its final state and whether it was retried.
Outcomes == {[state |-> s, retried |-> r] : s \in {"passed", "failed", "pending"}, r \in BOOLEAN}
\* A failure is a failure however often it was retried.
classify(o) ==
  CASE o.state = "failed" -> "failed"
    [] o.state = "pending" -> "skipped"
    [] o.state = "passed" /\ o.retried -> "flaky"
    [] OTHER -> "passed"

NeverSeen == [window |-> <<>>, lastSeenAt |-> 0]
createHistory == [runs |-> <<>>, tests |-> [t \in Tests |-> NeverSeen], folded |-> <<>>]

Last(s, n) == SubSeq(s, IF Len(s) > n THEN Len(s) - n + 1 ELSE 1, Len(s))

mergeRunWithSkips(h, verdicts, at) ==
  [runs   |-> Last(Append(h.runs, at), RunsKept),
   tests  |-> [t \in Tests |->
                 [window |-> Last(Append(h.tests[t].window,
                                         IF verdicts[t] = "skipped" THEN "passed" ELSE verdicts[t]),
                                  WindowRuns),
                  lastSeenAt |-> at]],
   folded |-> Append(h.folded, at)]
\* A skipped test contributes no observation.
mergeRun(h, verdicts, at) ==
  [runs   |-> Last(Append(h.runs, at), RunsKept),
   tests  |-> [t \in Tests |->
                 IF verdicts[t] = "skipped" THEN h.tests[t]
                 ELSE [window |-> Last(Append(h.tests[t].window, verdicts[t]), WindowRuns),
                       lastSeenAt |-> at]],
   folded |-> Append(h.folded, at)]

\* The tests not seen since the first of the last runs, which main() asks of
\* the history it has loaded, before it folds the run in.
findStale(h) ==
  LET cutoff == IF Len(h.runs) > StaleAfter THEN Len(h.runs) - StaleAfter + 1 ELSE 1
  IN  IF h.runs = <<>> THEN {}
      ELSE {t \in Tests : h.tests[t].window # <<>> /\ h.tests[t].lastSeenAt < h.runs[cutoff]}

Flaky(window) == Cardinality({i \in DOMAIN window : window[i] = "flaky"})
findChronicOffenders(h) ==
  {t \in Tests :
     LET window == h.tests[t].window IN
     /\ Flaky(window) > 0 /\ Len(window) >= MinObservations
     /\ Flaky(window) * RateOneIn >= Len(window)}

\* The first entry of a test counts, and only until it expires.
findQuarantineEntry(t) ==
  {i \in DOMAIN quarantine :
     quarantine[i].id = t /\ \A j \in DOMAIN quarantine : quarantine[j].id = t => i <= j}
AnyEntry(t, at) == \E i \in DOMAIN quarantine : quarantine[i].id = t
isActive(t, at) == \E i \in findQuarantineEntry(t) : quarantine[i].expiresAt > at
unblocked(h, at) == {t \in findChronicOffenders(h) : ~isActive(t, at)}

FlakeInit ==
  /\ now = 0
  /\ log = <<>>
  /\ main = createHistory
  /\ proposals = {}
  /\ quarantine = <<>>
  /\ enforced = [at |-> 0, blocking |-> {}]

\* The suite fails when a test does, and the fold is not reached.
RunSuite(outcomes) ==
  /\ now < MaxRuns
  /\ now' = now + 1
  /\ log' = Append(log, [t \in Tests |-> classify(outcomes[t])])
SuitePasses == \A t \in Tests : log'[now'][t] # "failed"

ScheduledRun(outcomes) ==
  /\ RunSuite(outcomes)
  /\ proposals' = IF SuitePasses
       THEN proposals \union {[base |-> main.folded, history |-> mergeRun(main, log'[now'], now')]}
       ELSE proposals
  /\ UNCHANGED <<main, quarantine, enforced>>

\* A proposal of an older main conflicts with the present one.
MergeProposal(p) ==
  /\ p.base = main.folded
  /\ main' = p.history
  /\ proposals' = proposals \ {p}
  /\ UNCHANGED <<now, log, quarantine, enforced>>

CloseProposal(p) ==
  /\ proposals' = proposals \ {p}
  /\ UNCHANGED <<now, log, main, quarantine, enforced>>

\* Started by hand with enforce, which fails on what is not quarantined.
EnforcedRun(outcomes) ==
  /\ RunSuite(outcomes)
  /\ SuitePasses
  /\ enforced' = [at |-> now', blocking |-> unblocked(mergeRun(main, log'[now'], now'), now')]
  /\ UNCHANGED <<main, proposals, quarantine>>

\* A reviewed edit of quarantine.json adds an entry, or renews one in place.
Quarantine(t, runs) ==
  /\ \/ /\ Len(quarantine) < MaxQuarantines
        /\ quarantine' = Append(quarantine, [id |-> t, expiresAt |-> now + runs])
     \/ \E i \in DOMAIN quarantine :
          /\ quarantine[i].id = t /\ quarantine[i].expiresAt < now + runs
          /\ quarantine' = [quarantine EXCEPT ![i].expiresAt = now + runs]
  /\ UNCHANGED <<now, log, main, proposals, enforced>>

FlakeNext ==
  \/ \E outcomes \in [Tests -> Outcomes] : ScheduledRun(outcomes) \/ EnforcedRun(outcomes)
  \/ \E p \in proposals : MergeProposal(p) \/ CloseProposal(p)
  \/ \E t \in Tests, runs \in 1..2 : Quarantine(t, runs)

-----------------------------------------------------------------------------
(***************************************************************************)
(* Properties.                                                             *)
(***************************************************************************)

Histories == {main} \union {p.history : p \in proposals}
\* The runs of a list, in order, in which a test was really run.
RanIn(runs, verdicts, t) ==
  LET ran[n \in 0..Len(runs)] ==
        IF n = 0 THEN <<>>
        ELSE IF verdicts[runs[n]][t] # "skipped" THEN Append(ran[n - 1], runs[n])
        ELSE ran[n - 1]
  IN  ran[Len(runs)]
RunsOf(h, t) == RanIn(h.folded, log, t)

\* The window of a test is its verdicts in the last runs that really ran it,
\* in order, whatever was skipped, trimmed, proposed and merged in between:
\* skipping a test does not improve its rate, and nothing is counted twice.
WindowIsWhatRan ==
  \A h \in Histories, t \in Tests :
    LET ran == Last(RunsOf(h, t), WindowRuns)
    IN  h.tests[t].window = [i \in 1..Len(ran) |-> log[ran[i]][t]]

\* A test is stale exactly when it once ran but none of the last runs of the
\* history ran it: a test that still runs now and then is never pruned, and
\* one that was removed is found out.  That holds of the history the next run
\* will load, and of each that may take its place.
StaleMeansGone ==
  \A h \in Histories, t \in Tests :
    t \in findStale(h) <=>
      /\ RunsOf(h, t) # <<>>
      /\ \A at \in {Last(h.folded, StaleAfter)[i] : i \in 1..Len(Last(h.folded, StaleAfter))} :
           log[at][t] = "skipped"

\* Every history, merged or proposed, says what the runs in it have shown.
HistoryIsTrue == WindowIsWhatRan /\ StaleMeansGone

\* "There is no flag, setting or code path that makes a quarantine permanent"
\* (docs/testing/QUARANTINE.md): an enforced run lets a test pass that flaked
\* in every one of its last runs only while an entry that was written less
\* than its term ago covers it.
NoPermanentQuarantine ==
  [][enforced' # enforced =>
       \A t \in Tests :
         LET runs == Last(Append(RunsOf(main, t), now'), WindowRuns)
         IN  /\ Len(runs) >= MinObservations
             /\ \A i \in 1..Len(runs) : log'[runs[i]][t] = "flaky"
             => t \in enforced'.blocking
                \/ \E i \in DOMAIN quarantine :
                     quarantine[i].id = t /\ now' < quarantine[i].expiresAt]_flakeVars
=============================================================================
