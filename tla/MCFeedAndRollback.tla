------------------------- MODULE MCFeedAndRollback -------------------------
(* The live feed of the browser and the rollback policy of the pipeline.   *)
(* They share no state, and a run because both have safety properties      *)
(* only: one moves and the other rests.                                    *)
EXTENDS LiveTransactions, RollbackPolicy, TLC

CONSTANTS Parts, cA, cB, t1, a, b, c
VARIABLE part

Always == {TRUE}
Optional == {TRUE, FALSE}

\* The code compares contracts and builds for equality only.
Symmetry == Permutations(Refs)

feedRest == contractId = cA /\ (part = "feed" \/ (paused /\ ~address))

BothInit == part \in Parts /\ FeedInit /\ feedRest /\ Init
BothVars == <<part, feedVars, vars>>
BothNext ==
  \/ part = "feed" /\ FeedNext /\ UNCHANGED <<part, vars>>
  \/ part = "rollback" /\ Next /\ UNCHANGED <<part, feedVars>>
BothSpec == BothInit /\ [][BothNext]_BothVars
=============================================================================
