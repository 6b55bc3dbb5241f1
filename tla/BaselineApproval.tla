-------------------------- MODULE BaselineApproval --------------------------
(***************************************************************************)
(* The gate on changes of the visual baseline in one pull request:         *)
(* visual-regression-governance.yml runs it when a commit is pushed,       *)
(* scripts/visual-regression-approval.mjs decides from the reviews, and    *)
(* reviews are submitted, edited and dismissed and access is revoked while *)
(* it runs.  All runs of the workflow for a pull request share a group in  *)
(* which the next one cancels the one in progress, the runs on a review    *)
(* included, in which the job is skipped.  So the reviews do not change    *)
(* between the moment a job lists them and its end.                        *)
(***************************************************************************)
EXTENDS Integers, Sequences, FiniteSets

CONSTANTS
  Users, Author,
  Writers,           \* users who may be given write access
  Associates,        \* users whose author_association is owner, member or collaborator
  MaxPushes, MaxReviews

ASSUME GateAssumption ==
  /\ Author \in Users /\ Writers \subseteq Users /\ Associates \subseteq Users
  /\ MaxPushes \in Nat \ {0}

VARIABLES
  pushes,            \* the kinds of the commits; the last is the head
  reviews,           \* in the order in which they were submitted: [user, state, signal, commitId]
  writers,           \* users with write access
  gate,              \* the job in progress: [at, of, approved, stood]
  permissions,       \* what the job has found of each user
  verdict,           \* of each commit: "none", "green", "red"
  entitled,          \* history: who could write when the job began
  standing           \* history: green commits whose verdict came from a job with gate.stood

gateVars == <<pushes, reviews, writers, gate, permissions, verdict, entitled, standing>>

headCommit == Len(pushes)
NoPermissions == [u \in Users |-> "unasked"]
\* stood is a history variable: an approval stood when the job decided.
NoGate == [at |-> "none", of |-> 0, approved |-> FALSE, stood |-> FALSE]
GateStarts(of) ==
  /\ gate' = [NoGate EXCEPT !.at = "started", !.of = of]
  /\ permissions' = NoPermissions
  /\ entitled' = writers
GateEnds == gate' = NoGate /\ permissions' = NoPermissions /\ entitled' = {}

\* A commit without the suite or its snapshots, and one in which the snapshots
\* are those of the base or are changed.
PushKinds == {"noSuite", "unchanged", "changed"}

GateInit ==
  /\ \E p \in PushKinds : pushes = <<p>>
  /\ reviews = <<>>
  /\ writers = Writers
  /\ gate = [NoGate EXCEPT !.at = "started", !.of = 1]
  /\ permissions = NoPermissions
  /\ verdict = <<"none">>
  /\ entitled = Writers
  /\ standing = {}

\* pull_request (synchronize): the run for the new head.
PushCommit(p) ==
  /\ headCommit < MaxPushes
  /\ pushes' = Append(pushes, p)
  /\ verdict' = Append(verdict, "none")
  /\ GateStarts(headCommit + 1)
  /\ UNCHANGED <<reviews, writers, standing>>

\* pull_request_review: the run takes the place of the one in progress, and
\* its job is skipped because the event is not pull_request.
ReviewEvent == GateEnds

SubmitReview(u, state, signal) ==
  /\ Len(reviews) < MaxReviews
  /\ reviews' = Append(reviews, [user |-> u, state |-> state, signal |-> signal,
                                 commitId |-> headCommit])
  /\ ReviewEvent
  /\ UNCHANGED <<pushes, writers, verdict, standing>>

EditReview(i) ==
  /\ reviews' = [reviews EXCEPT ![i].signal = ~@]
  /\ ReviewEvent
  /\ UNCHANGED <<pushes, writers, verdict, standing>>

DismissReview(i) ==
  /\ reviews[i].state # "DISMISSED"
  /\ reviews' = [reviews EXCEPT ![i].state = "DISMISSED"]
  /\ ReviewEvent
  /\ UNCHANGED <<pushes, writers, verdict, standing>>

RevokeAccess(u) ==
  /\ u \in writers
  /\ writers' = writers \ {u}
  /\ UNCHANGED <<pushes, reviews, gate, permissions, verdict, entitled, standing>>

\* Someone runs the workflow again for the head, with the event it had.
RunAgain ==
  /\ gate = NoGate
  /\ GateStarts(headCommit)
  /\ UNCHANGED <<pushes, reviews, writers, verdict, standing>>

\* The job ends with the commit's check in a colour.
Colour(of, colour) ==
  /\ verdict' = [verdict EXCEPT ![of] = colour]
  /\ standing' = IF colour = "green" /\ gate.stood THEN standing \union {of} ELSE standing \ {of}
  /\ GateEnds
  /\ UNCHANGED <<pushes, reviews, writers>>

\* Without the suite or its snapshots every other step is skipped, and the
\* check is green: no diff is looked at and no approval asked for.
ReportInactive ==
  /\ gate.at = "started" /\ pushes[gate.of] = "noSuite"
  /\ Colour(gate.of, "green")

\* The suite runs, the snapshots are compared and the reviews are listed.
ListReviews ==
  /\ gate.at = "started" /\ pushes[gate.of] # "noSuite"
  /\ gate' = [gate EXCEPT !.at = "listed"]
  /\ UNCHANGED <<pushes, reviews, writers, permissions, verdict, entitled, standing>>

\* Who is looked up next: the reviewers, in the order of their first reviews.
isNext(i) ==
  /\ permissions[reviews[i].user] = "unasked"
  /\ \A j \in DOMAIN reviews : j < i => permissions[reviews[j].user] # "unasked"

\* One reviewer's permission is read, or its lookup fails.
LookUpPermission(i) ==
  /\ gate.at = "listed" /\ isNext(i)
  /\ \E found \in {IF reviews[i].user \in writers THEN "write" ELSE "none", "unknown"} :
       permissions' = [permissions EXCEPT ![reviews[i].user] = found]
  /\ UNCHANGED <<pushes, reviews, writers, gate, verdict, entitled, standing>>

\* A step before the verdict fails: npm ci, the listing, the evaluation.
GateFails ==
  /\ gate.at \in {"started", "listed"} /\ pushes[gate.of] # "noSuite"
  /\ Colour(gate.of, "red")

\* A user without a permission found has the one of the author_association.
resolvePermission(u) ==
  IF permissions[u] # "unknown" THEN permissions[u]
  ELSE IF u \in Associates THEN "write" ELSE "none"

latestReviewPerUserAny(u) == {i \in DOMAIN reviews : reviews[i].user = u}
\* The last review of a user, whatever its state.
latestReviewPerUser(u) ==
  {i \in DOMAIN reviews :
     reviews[i].user = u /\ \A j \in DOMAIN reviews : reviews[j].user = u => j <= i}

\* A review that passes every test of evaluateBaselineApproval().
ValidApproval(i, of) ==
  /\ reviews[i].user # Author
  /\ reviews[i].state = "APPROVED" /\ reviews[i].signal
  /\ resolvePermission(reviews[i].user) = "write"
  /\ reviews[i].commitId = of

evaluateBaselineApproval(of) ==
  pushes[of] # "changed" \/ \E u \in Users : \E i \in latestReviewPerUser(u) : ValidApproval(i, of)

\* What docs/visual-regression-ci.md asks for, stated without the order of the
\* tests: an approval with the signal, on the commit, of someone other than the
\* author, who has not asked for changes since, and who had write access when
\* the job began or, if the job was told nothing, is associated.
IndependentlyApproved(of) ==
  \E i \in DOMAIN reviews :
    /\ reviews[i].state = "APPROVED" /\ reviews[i].signal /\ reviews[i].commitId = of
    /\ reviews[i].user # Author
    /\ \/ reviews[i].user \in entitled
       \/ permissions[reviews[i].user] = "unknown" /\ reviews[i].user \in Associates
    /\ \A j \in DOMAIN reviews :
         j > i /\ reviews[j].user = reviews[i].user => reviews[j].state # "CHANGES_REQUESTED"

\* All permissions have been looked up, and the decision is made.
EvaluateApproval ==
  /\ gate.at = "listed"
  /\ \A i \in DOMAIN reviews : permissions[reviews[i].user] # "unasked"
  /\ gate' = [gate EXCEPT !.at = "evaluated", !.approved = evaluateBaselineApproval(gate.of),
                          !.stood = IndependentlyApproved(gate.of)]
  /\ UNCHANGED <<pushes, reviews, writers, permissions, verdict, entitled, standing>>

\* The table of the last step: a failing suite is red, and so is a change of
\* the baseline without approval.
Enforced(suiteGreen, of) ==
  IF suiteGreen /\ (pushes[of] = "changed" => gate.approved) THEN "green" ELSE "red"

EnforceGate ==
  /\ gate.at = "evaluated"
  /\ \E suiteGreen \in BOOLEAN : Colour(gate.of, Enforced(suiteGreen, gate.of))

GateNext ==
  \/ \E p \in PushKinds : PushCommit(p)
  \/ \E u \in Users, state \in {"APPROVED", "CHANGES_REQUESTED", "COMMENTED"}, signal \in BOOLEAN :
       SubmitReview(u, state, signal)
  \/ \E i \in DOMAIN reviews : EditReview(i) \/ DismissReview(i) \/ LookUpPermission(i)
  \/ \E u \in Users : RevokeAccess(u)
  \/ RunAgain \/ ReportInactive \/ ListReviews \/ GateFails \/ EvaluateApproval \/ EnforceGate

-----------------------------------------------------------------------------
(***************************************************************************)
(* Properties.                                                             *)
(***************************************************************************)

\* A change of the baseline in a commit with the suite turns green only on an
\* approval that stood when the job decided: on that very commit, independent,
\* not taken back by its reviewer, and of one who could write when the job
\* began or whose lookup failed and who is associated.  A commit without the
\* suite or its snapshots is outside: it is green "because it was skipped"
\* (docs/visual-regression-ci.md:10-18), whatever it does to the baseline.
GreenIsApproved ==
  \A k \in DOMAIN pushes :
    verdict[k] = "green" /\ pushes[k] = "changed" => k \in standing

\* "Re-evaluate when a review lands or is dismissed"
\* (docs/visual-regression-ci.md:28): when no job is going on, the head has a
\* verdict.
GateFollowsReviews == gate = NoGate => verdict[headCommit] # "none"
=============================================================================
