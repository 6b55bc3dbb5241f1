-------------------------- MODULE MCCanaryRollout ---------------------------
(* Small instances of CanaryRollout for TLC. *)
EXTENDS CanaryRollout

CONSTANTS c1, c2

Both == {c1, c2}
OnlySecond == {c2}
=============================================================================
