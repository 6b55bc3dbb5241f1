----------------------------- MODULE Submission -----------------------------
(***************************************************************************)
(* A contract call and its fee bumps, lib/soroban/contract.ts: read the    *)
(* sequence number, sign, send, poll for a while and report.  The network  *)
(* accepts a transaction whose sequence number is the next of its account, *)
(* applies it when it likes, and drops it after its time bound; an answer  *)
(* may be lost.  A reported failure lets the user call again.              *)
(***************************************************************************)
EXTENDS Integers, FiniteSets

CONSTANTS
  Tries            \* calls of invokeContract() and submitFeeBumpTransaction()

VARIABLES
  sequence,        \* sequence number of the account on the network
  pool,            \* tries the network has accepted and not yet applied
  succeeded,       \* tries whose transaction was applied with success
  try              \* [Tries -> [at, kind, seq, call, result]]; call: the
                   \* invocation a try is or bumps

submitVars == <<sequence, pool, succeeded, try>>

NotTried(t) == [at |-> "idle", kind |-> "invoke", seq |-> 0, call |-> t, result |-> "none"]

SubmitInit ==
  /\ sequence = 0
  /\ pool = {} /\ succeeded = {}
  /\ try = [t \in Tries |-> NotTried(t)]

Ends(t, result) == [try EXCEPT ![t].at = "ended", ![t].result = result]

\* getAccount() of invokeContract(): the sequence number of the new call.
Invoke(t) ==
  /\ try[t].at = "idle"
  /\ try' = [try EXCEPT ![t].at = "built", ![t].seq = sequence + 1]
  /\ UNCHANGED <<sequence, pool, succeeded>>

\* A signed invocation, of which the page has the transaction.
Bumpable(of) ==
  /\ try[of].kind = "invoke"
  /\ try[of].at \in {"polling", "ended"} /\ try[of].result # "unsigned"

BuildFreshBump(t, of) ==
  /\ try[t].at = "idle"
  /\ Bumpable(of)
  /\ try' = [try EXCEPT ![t] = [at |-> "built", kind |-> "bump", seq |-> sequence + 1,
                                call |-> of, result |-> "none"]]
  /\ UNCHANGED <<sequence, pool, succeeded>>
\* buildFeeBumpTransaction(): the same inner transaction at a higher fee.
BuildFeeBump(t, of) ==
  /\ try[t].at = "idle"
  /\ Bumpable(of)
  /\ try' = [try EXCEPT ![t] = [at |-> "built", kind |-> "bump", seq |-> try[of].seq,
                                call |-> of, result |-> "none"]]
  /\ UNCHANGED <<sequence, pool, succeeded>>

\* The wallet refuses to sign, or a call before the submission fails.
NotSigned(t) ==
  /\ try[t].at = "built"
  /\ try' = Ends(t, "unsigned")
  /\ UNCHANGED <<sequence, pool, succeeded>>

\* sendTransaction() answers ERROR, which is thrown: the sequence number was
\* used by a transaction applied meanwhile, or for another reason.
SendRejected(t) ==
  /\ try[t].at = "built"
  /\ try' = Ends(t, "rejected")
  /\ UNCHANGED <<sequence, pool, succeeded>>

\* What the network may make of a transaction: refuse it, or accept it when
\* its sequence number is the next, a bump in place of its inner transaction.
PoolsAfter(t) ==
  LET rivals == {u \in pool : try[u].seq = try[t].seq}
  IN  {pool} \union IF try[t].seq = sequence + 1 /\ (try[t].kind = "bump" \/ rivals = {})
                      THEN {(pool \ rivals) \union {t}} ELSE {}

\* Any status but ERROR is polled, the ones that ask to try again included,
\* whether the network has taken the transaction or not.
Send(t) ==
  /\ try[t].at = "built"
  /\ pool' \in PoolsAfter(t)
  /\ try' = [try EXCEPT ![t].at = "polling"]
  /\ UNCHANGED <<sequence, succeeded>>

\* The answer to sendTransaction() is lost: the call ends with an error.
SendUnanswered(t) ==
  /\ try[t].at = "built"
  /\ pool' \in PoolsAfter(t)
  /\ try' = Ends(t, "error")
  /\ UNCHANGED <<sequence, succeeded>>

\* A ledger closes over a transaction, which may fail in it.
LedgerApplies(t) ==
  /\ t \in pool /\ try[t].seq = sequence + 1
  /\ sequence' = sequence + 1
  /\ pool' = {u \in pool : try[u].seq # try[t].seq}
  /\ succeeded' \in {succeeded, succeeded \union {t}}
  /\ UNCHANGED try

\* The time bound of setTimeout(30) has passed.
TransactionExpires(t) ==
  /\ t \in pool
  /\ pool' = pool \ {t}
  /\ UNCHANGED <<sequence, succeeded, try>>

\* pollTransaction() asks a few times: what is not SUCCESS by then, pending
\* included, is FAILED.
Polled(t) == IF t \in succeeded THEN "SUCCESS" ELSE "FAILED"
PollEnds(t) ==
  /\ try[t].at = "polling"
  /\ \/ try' = Ends(t, Polled(t))
     \/ try' = Ends(t, "error")
  /\ UNCHANGED <<sequence, pool, succeeded>>

SubmitNext ==
  \E t \in Tries :
    \/ Invoke(t) \/ (\E of \in Tries \ {t} : BuildFeeBump(t, of))
    \/ NotSigned(t) \/ SendRejected(t) \/ Send(t) \/ SendUnanswered(t) \/ PollEnds(t)
    \/ LedgerApplies(t) \/ TransactionExpires(t)

SubmitSpec == SubmitInit /\ [][SubmitNext]_submitVars

-----------------------------------------------------------------------------
(***************************************************************************)
(* Properties.                                                             *)
(***************************************************************************)

\* A call that reports SUCCESS was applied, whatever else was sent, replaced
\* or lost meanwhile.
SuccessIsApplied == \A t \in Tries : try[t].result = "SUCCESS" => t \in succeeded

\* However often its fee is bumped, and whatever is sent again, an invocation
\* the user signed once takes effect at most once.
InvocationTakesEffectOnce ==
  \A t, u \in succeeded : try[t].call = try[u].call => t = u
=============================================================================
