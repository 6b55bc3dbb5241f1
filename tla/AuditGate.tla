------------------------------ MODULE AuditGate ------------------------------
(***************************************************************************)
(* The vulnerability gate: dependency-audit.yml asks the registry twice,   *)
(* for the production tree and for the full one, and                       *)
(* scripts/ci/audit-gate.mjs judges the two reports against the allowlist. *)
(* Advisories are published and days pass whatever the job is doing; the   *)
(* dependencies and the allowlist change by reviewed commits.              *)
(***************************************************************************)
EXTENDS Integers, FiniteSets

CONSTANTS
  Packages,
  Advisories,        \* [id, packageName, severity]
  AnyPackage,        \* the package of an exception that names none
  NoAnswer,          \* what is no audit report of version 2
  Days,              \* bound on the calendar
  MaxExceptions      \* bound on the entries of the allowlist

ASSUME AdvisoriesAssumption ==
  \A a \in Advisories :
    a.packageName \in Packages /\ a.severity \in {"moderate", "high", "critical"}

VARIABLES
  published,         \* advisories the registry knows
  deps,              \* [Packages -> {"production", "development", "absent"}]
  exceptions,        \* entries [id, package, expires, complete] of the allowlist
  today,
  job,               \* [at, prod, full] and, a history variable, what was known at its start
  outcome            \* of the last job: [is, failed (to audit), committed (since then)]

auditVars == <<published, deps, exceptions, today, job, outcome>>

SEVERITY_RANK == [moderate |-> 2, high |-> 3, critical |-> 4]
DEFAULT_THRESHOLDS == [production |-> "high", development |-> "critical"]

IdleJob == [at |-> "idle", prod |-> {}, full |-> {}, known |-> {}]

Entries ==
  [id: {a.id : a \in Advisories}, package: Packages \union {AnyPackage},
   expires: 1..Days, complete: BOOLEAN]

AuditInit ==
  /\ published = {}
  /\ deps \in [Packages -> {"production", "development"}]
  /\ exceptions = {}
  /\ today = 1
  /\ job = IdleJob
  /\ outcome = [is |-> "none", failed |-> FALSE, committed |-> FALSE]

Publish(a) ==
  /\ a \notin published
  /\ published' = published \union {a}
  /\ UNCHANGED <<deps, exceptions, today, job, outcome>>

DayPasses ==
  /\ today < Days
  /\ today' = today + 1
  /\ UNCHANGED <<published, deps, exceptions, job, outcome>>

\* A commit; the run of an older one is cancelled.
Commit(newDeps, newExceptions) ==
  /\ deps' = newDeps /\ exceptions' = newExceptions
  /\ job' = IdleJob
  /\ outcome' = [outcome EXCEPT !.committed = outcome.is # "none"]
  /\ UNCHANGED <<published, today>>
MoveDependency(p, scope) ==
  deps[p] # scope /\ Commit([deps EXCEPT ![p] = scope], exceptions)
AddException(e) ==
  Cardinality(exceptions) < MaxExceptions /\ Commit(deps, exceptions \union {e})
DropException(e) == Commit(deps, exceptions \ {e})

AuditReport(scopes) == {a \in published : deps[a.packageName] \in scopes}

AuditProduction ==
  /\ job.at = "idle"
  /\ \E report \in {AuditReport({"production"}), NoAnswer} :
       job' = [job EXCEPT !.at = "production", !.prod = report, !.known = published]
  /\ UNCHANGED <<published, deps, exceptions, today, outcome>>
AuditFull ==
  /\ job.at = "production"
  /\ \E report \in {AuditReport({"production", "development"}), NoAnswer} :
       job' = [job EXCEPT !.at = "full", !.full = report]
  /\ UNCHANGED <<published, deps, exceptions, today, outcome>>

invalid == {e \in exceptions : ~e.complete}
\* parseAllowlist().active: an entry expires as its day begins.
active == {e \in exceptions : e.complete /\ today < e.expires}

IsCoveredById(a) == \E e \in active : e.id = a.id
isCovered(a) == \E e \in active : e.id = a.id /\ e.package \in {AnyPackage, a.packageName}

Blocking(a, scope) == SEVERITY_RANK[a.severity] >= SEVERITY_RANK[DEFAULT_THRESHOLDS[scope]]

\* evaluateAudit().failures: what the production report has is production,
\* the rest of the full report is development.
failures ==
  {a \in job.prod : Blocking(a, "production") /\ ~isCovered(a)}
  \union {a \in job.full \ job.prod : Blocking(a, "development") /\ ~isCovered(a)}

\* A report that is none ends the script with an error: the job is red too.
EnforceThresholds ==
  /\ job.at = "full"
  /\ LET failed == job.prod = NoAnswer \/ job.full = NoAnswer
     IN  outcome' = [is |-> IF ~failed /\ failures = {} /\ invalid = {} THEN "green" ELSE "red",
                     failed |-> failed, committed |-> FALSE]
  /\ job' = IdleJob
  /\ UNCHANGED <<published, deps, exceptions, today>>

\* Any other step of the job fails: the checkout, the guard against npm
\* install, a runner that is lost.
StepFails ==
  /\ outcome' = [is |-> "red", failed |-> TRUE, committed |-> FALSE]
  /\ job' = IdleJob
  /\ UNCHANGED <<published, deps, exceptions, today>>

AuditNext ==
  \/ \E a \in Advisories : Publish(a)
  \/ DayPasses
  \/ \E p \in Packages, scope \in {"production", "development", "absent"} : MoveDependency(p, scope)
  \/ \E e \in Entries : AddException(e)
  \/ \E e \in exceptions : DropException(e)
  \/ AuditProduction \/ AuditFull \/ EnforceThresholds \/ StepFails

-----------------------------------------------------------------------------
(***************************************************************************)
(* Properties.                                                             *)
(***************************************************************************)

\* Green means accepted: of the advisories that were known when the job
\* began, those on a shipped package from high on and those on any other
\* package of the tree that are critical are each covered by a complete entry
\* for that package which has not expired on the day of the judgement.
TurnsGreen == job.at = "full" /\ job'.at = "idle" /\ ~outcome'.committed /\ outcome'.is = "green"
Accepted(a) ==
  \/ deps[a.packageName] = "absent"
  \/ a.severity = "moderate"
  \/ a.severity = "high" /\ deps[a.packageName] = "development"
  \/ \E e \in exceptions :
       /\ e.complete /\ e.id = a.id /\ today < e.expires
       /\ e.package = AnyPackage \/ e.package = a.packageName

\* And it is earned again only by a commit: once a judgement was red, neither
\* time nor advisories that come to be known make a later one green.
GreenIsEarned ==
  [][/\ TurnsGreen => \A a \in job.known : Accepted(a)
     /\ outcome.is = "red" /\ ~outcome.failed /\ ~outcome.committed => outcome'.is = "red"]_auditVars
=============================================================================
