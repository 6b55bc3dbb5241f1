--------------------------- MODULE AutomergePolicy ---------------------------
(***************************************************************************)
(* The decision of scripts/dependabot-automerge/policy.mjs: what changed   *)
(* between two manifests and two workflows, how large each change is, what *)
(* the checks of a commit say, and whether a pull request may be merged    *)
(* unattended.                                                             *)
(***************************************************************************)
EXTENDS Integers, Sequences, FiniteSets

CONSTANTS
  Exempt,          \* NEVER_AUTO_MERGE
  Expected,        \* EXPECTED_CI_CHECK
  Unreadable,      \* a version that does not parse
  Unknown          \* a list of required checks that could not be read

\* Versions are [major, minor, patch, pre]; the specs of a manifest carry a
\* range operator as well, which only the comparison of specs sees.
Versions == [major : Nat, minor : Nat, patch : Nat, pre : BOOLEAN]
Zero == [major |-> 0, minor |-> 0, patch |-> 0, pre |-> FALSE]

Precedes(v, w) ==
  \/ v.major < w.major
  \/ v.major = w.major /\ v.minor < w.minor
  \/ v.major = w.major /\ v.minor = w.minor /\ v.patch < w.patch

bumpLevel(from, to) ==
  IF Unreadable \in {from, to} THEN "unknown"
  ELSE IF from.pre \/ to.pre THEN "prerelease"
  ELSE IF from = to THEN "none"
  ELSE IF Precedes(to, from) THEN "downgrade"
  ELSE IF from.major # to.major THEN "major"
  ELSE IF from.minor # to.minor THEN "minor"
  ELSE "patch"

\* A ref of an action is a hash or up to three numbers, padded with zeros.
normaliseActionRef(ref) ==
  LET part(i) == IF i <= Len(ref) THEN ref[i] ELSE 0
  IN  IF ref = <<>> THEN Unreadable
      ELSE [major |-> part(1), minor |-> part(2), patch |-> part(3), pre |-> FALSE]

Moved(before, after) == {n \in DOMAIN before \intersect DOMAIN after : before[n] # after[n]}

\* diffDependencyMaps() of two maps from packages to specs: the updates, and
\* the removals as downgrades to 0.0.0.
diffDependencyMaps(before, after) ==
  {[packageName |-> n, level |-> bumpLevel(before[n].version, after[n].version)] :
     n \in Moved(before, after)}
  \union
  {[packageName |-> n, level |-> bumpLevel(before[n].version, Zero)] :
     n \in DOMAIN before \ DOMAIN after}

\* readActionRefs(): the first use of an action stands for all of them.
readActionRefs(uses) ==
  [n \in {uses[i].name : i \in DOMAIN uses} |->
     uses[CHOOSE i \in DOMAIN uses :
            uses[i].name = n /\ \A j \in DOMAIN uses : uses[j].name = n => i <= j].ref]

diffActionRefs(before, after) ==
  {[packageName |-> n, level |-> bumpLevel(normaliseActionRef(before[n]), normaliseActionRef(after[n]))] :
     n \in Moved(before, after)}

\* evaluateCi().ok of the check runs of a commit, by name.
evaluateCi(checks, required) ==
  /\ DOMAIN checks # {}
  /\ Expected \subseteq DOMAIN checks
  /\ required # Unknown /\ required \subseteq DOMAIN checks
  /\ \A c \in DOMAIN checks : checks[c] = "success"

\* The kinds of file a version can be read out of, and the lock file, of which
\* nothing is read.
isClassifiableFile(file) == file \in {"package.json", "lockfile", "workflow"}

\* decideTriage().autoMerge for an author the workflow lets through.
decideTriage(draft, files, changes, checks, required) ==
  /\ ~draft
  /\ \A file \in files : isClassifiableFile(file)
  /\ changes # {}
  /\ \A c \in changes : c.level = "patch" /\ c.packageName \notin Exempt
  /\ evaluateCi(checks, required)
=============================================================================
