------------------------------ MODULE Automerge ------------------------------
(***************************************************************************)
(* The triage of one Dependabot pull request: the workflow                 *)
(* dependabot-automerge.yml starts it on every push, one run at a time,    *)
(* and triage.mjs reads the facts one by one, decides (AutomergePolicy),   *)
(* comments and asks GitHub to merge.  Meanwhile Dependabot pushes again   *)
(* and checks start and end.                                               *)
(***************************************************************************)
EXTENDS AutomergePolicy

CONSTANTS
  Base,            \* content of the base branch: [deps, uses, lock, other]
  Contents,        \* contents a pushed commit may have
  Checks, Required,
  MaxCommits

ASSUME AutomergeAssumption == MaxCommits \in Nat \ {0} /\ Expected \subseteq Checks
ASSUME ContentsAssumption ==
  \A c \in Contents \union {Base} :
    /\ \A n \in DOMAIN c.deps : c.deps[n].version \in Versions \union {Unreadable}
    /\ c.uses \in Seq([name : STRING, ref : Seq(Nat)])

VARIABLES
  commits,         \* contents of the commits pushed so far; the last is the head
  checks,          \* their check runs: [Checks -> {"absent", "other", "success"}]
  draft,
  pending,         \* the commit whose run waits for the concurrency group, or 0
  triage,          \* the run in progress: [at, of, read, files, checks, required, merge]
  comment,         \* the sticky comment: [of, merge]
  armed,           \* commit on which GitHub was asked to merge, or 0
  red,             \* commits whose run failed
  wasGreen         \* history: commits that were green at some moment

automergeVars == <<commits, checks, draft, pending, triage, comment, armed, red, wasGreen>>

head == Len(commits)
Idle == [at |-> "idle", of |-> 0, read |-> {}, files |-> {}, checks |-> <<>>,
         required |-> Required, merge |-> FALSE]
NoChecks == [c \in Checks |-> "absent"]

\* pulls/{number}/files: the files in which a content differs from the base.
FilesOf(content) ==
  {f \in {"package.json", "lockfile", "workflow", "other"} :
     \/ f = "package.json" /\ content.deps # Base.deps
     \/ f = "lockfile" /\ content.lock # Base.lock
     \/ f = "workflow" /\ content.uses # Base.uses
     \/ f = "other" /\ content.other}

AutomergeInit ==
  /\ \E c \in Contents : commits = <<c>>
  /\ checks = <<NoChecks>>
  /\ draft \in BOOLEAN
  /\ pending = 1
  /\ triage = Idle
  /\ comment = [of |-> 0, merge |-> FALSE]
  /\ armed = 0
  /\ red = {} /\ wasGreen = {}

PushUnheard(c) ==
  /\ head < MaxCommits
  /\ commits' = Append(commits, c) /\ checks' = Append(checks, NoChecks)
  /\ armed' \in {armed, 0}
  /\ UNCHANGED <<draft, pending, triage, comment, red, wasGreen>>
\* Dependabot pushes: a run for the new head waits, in place of one that
\* waited, and GitHub may or may not disarm the merge.
Push(c) ==
  /\ head < MaxCommits
  /\ commits' = Append(commits, c) /\ checks' = Append(checks, NoChecks)
  /\ pending' = head + 1
  /\ armed' \in {armed, 0}
  /\ UNCHANGED <<draft, triage, comment, red, wasGreen>>

Reported(k) ==
  LET names == {c \in Checks : checks[k][c] # "absent"} IN [c \in names |-> checks[k][c]]
GreenNow(cs) ==
  /\ \A c \in Checks : cs[c] \in {"absent", "success"}
  /\ \A c \in Expected : cs[c] = "success"

\* A check of the head is reported, ends, or is run again; "other" is all that
\* is not completed with success: running, skipped, cancelled, failed.
CheckMoves(c, status) ==
  /\ status # checks[head][c]
  /\ checks' = [checks EXCEPT ![head][c] = status]
  /\ wasGreen' = IF GreenNow(checks'[head]) THEN wasGreen \union {head} ELSE wasGreen
  /\ UNCHANGED <<commits, draft, pending, triage, comment, armed, red>>

StartTriage ==
  /\ triage.at = "idle" /\ pending # 0
  /\ triage' = [Idle EXCEPT !.at = "reading", !.of = pending]
  /\ pending' = 0
  /\ UNCHANGED <<commits, checks, draft, comment, armed, red, wasGreen>>

\* The list of files is of the pull request as it is now, the check runs and
\* the manifests are of the commit of the event; they are asked for at once
\* and answered in any order.  A pull request touches at most the hundred files
\* of the first page, the only one that is asked for: a bound.
ReadFiles ==
  /\ triage.at = "reading" /\ "files" \notin triage.read
  /\ triage' = [triage EXCEPT !.read = @ \union {"files"}, !.files = FilesOf(commits[head])]
  /\ UNCHANGED <<commits, checks, draft, pending, comment, armed, red, wasGreen>>
\* Unless the branch is not protected, a failure leaves the required list unknown.
collectRequiredContexts == {Required, Unknown}

ReadChecks ==
  /\ triage.at = "reading" /\ "checks" \notin triage.read
  /\ \E required \in collectRequiredContexts :
       triage' = [triage EXCEPT !.read = @ \union {"checks"}, !.checks = Reported(triage.of),
                                !.required = required]
  /\ UNCHANGED <<commits, checks, draft, pending, comment, armed, red, wasGreen>>

\* collectChanges(): a file that cannot be read counts as an unknown change.
CollectedChanges(files, content) ==
  (IF "package.json" \in files THEN diffDependencyMaps(Base.deps, content.deps) ELSE {})
  \union
  (IF "workflow" \in files
     THEN diffActionRefs(readActionRefs(Base.uses), readActionRefs(content.uses)) ELSE {})
UnreadableChange == [packageName |-> "package.json", level |-> "unknown"]

Decide ==
  /\ triage.at = "reading" /\ triage.read = {"files", "checks"}
  /\ \E unread \in {{}, {UnreadableChange}} :
       triage' = [Idle EXCEPT !.at = "decided", !.of = triage.of,
         !.merge = decideTriage(draft, triage.files,
                                CollectedChanges(triage.files, commits[triage.of]) \union unread,
                                triage.checks, triage.required)]
  /\ UNCHANGED <<commits, checks, draft, pending, comment, armed, red, wasGreen>>

\* upsertComment() rewrites the one comment; setLabels() adds to the labels,
\* which nothing reads.
Comment ==
  /\ triage.at = "decided"
  /\ comment' = [of |-> triage.of, merge |-> triage.merge]
  /\ triage' = IF triage.merge THEN [triage EXCEPT !.at = "reported"] ELSE Idle
  /\ UNCHANGED <<commits, checks, draft, pending, armed, red, wasGreen>>

ArmUnpinned ==
  /\ triage.at = "reported"
  /\ armed' = head
  /\ triage' = Idle
  /\ UNCHANGED <<commits, checks, draft, pending, comment, red, wasGreen>>
\* enablePullRequestAutoMerge with the expected head.
Arm ==
  /\ triage.at = "reported" /\ triage.of = head
  /\ armed' = head
  /\ triage' = Idle
  /\ UNCHANGED <<commits, checks, draft, pending, comment, red, wasGreen>>

\* A call fails, or GitHub refuses to arm the merge: the workflow is red.
TriageFails ==
  /\ triage.at # "idle"
  /\ red' = red \union {triage.of}
  /\ triage' = Idle
  /\ UNCHANGED <<commits, checks, draft, pending, comment, armed, wasGreen>>

AutomergeNext ==
  \/ \E c \in Contents : Push(c)
  \/ \E c \in Checks, status \in {"other", "success"} : CheckMoves(c, status)
  \/ StartTriage \/ ReadFiles \/ ReadChecks
  \/ Decide \/ Comment \/ Arm \/ TriageFails

-----------------------------------------------------------------------------
(***************************************************************************)
(* Properties.                                                             *)
(***************************************************************************)

\* Of a commit GitHub was asked to merge, every package and action the base
\* has too is as it was or one patch release further, in a package that is
\* not exempt, and no file of another kind is touched: although the files
\* are those of whatever is the head when they are read, and the head may
\* move before and after each step of the run.
ArmedIsSmall ==
  armed # 0 =>
    LET c == commits[armed]
        refs == readActionRefs(c.uses)
        baseRefs == readActionRefs(Base.uses)
        onePatch(v, w) ==
          /\ v # Unreadable /\ w # Unreadable /\ ~v.pre /\ ~w.pre
          /\ v.major = w.major /\ v.minor = w.minor /\ v.patch < w.patch
    IN  /\ ~c.other /\ ~draft
        /\ \A n \in DOMAIN Base.deps :
             /\ n \in DOMAIN c.deps
             /\ \/ c.deps[n] = Base.deps[n]
                \/ n \notin Exempt /\ onePatch(Base.deps[n].version, c.deps[n].version)
        /\ \A n \in DOMAIN baseRefs \intersect DOMAIN refs :
             \/ refs[n] = baseRefs[n]
             \/ onePatch(normaliseActionRef(baseRefs[n]), normaliseActionRef(refs[n]))

\* A merge is asked for only on a commit whose checks were all green, the
\* expected ones among them, at one and the same moment.
ArmedWasGreen == armed # 0 => armed \in wasGreen

\* What GitHub was asked to merge is what the policy would let it merge.
ArmedIsSafe == ArmedIsSmall /\ ArmedWasGreen

\* No head is forgotten: when no run is going on and none waits, the comment
\* speaks of the head, unless its run failed for all to see.
NoHeadIsForgotten == triage.at = "idle" /\ pending = 0 => comment.of = head \/ head \in red

\* The comment says that the merge is enabled only when it is, or the run
\* that could not enable it is red.
AnnouncedIsArmed ==
  triage.at = "idle" /\ comment.of = head /\ comment.merge => armed = head \/ head \in red

\* When the automation rests, what it says of the head is so.
HeadIsJudged == NoHeadIsForgotten /\ AnnouncedIsArmed

\* "Additions and removals are included ... a Dependabot PR that adds a
\* dependency is not a version bump of an existing one and must not be
\* auto-merged on a technicality" (policy.mjs): a commit that adds a
\* dependency is not armed.
AdditionsAreHeld == armed # 0 => DOMAIN commits[armed].deps \subseteq DOMAIN Base.deps
=============================================================================
