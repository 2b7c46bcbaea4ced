-------------------------- MODULE MCRollupHistory --------------------------
(* Small instances of RollupHistory for TLC.                               *)
EXTENDS RollupHistory

TwoValues == {1, 2}
=============================================================================
