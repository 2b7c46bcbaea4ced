-------------------------- MODULE MCAlertEvaluator --------------------------
(* A small instance of AlertHistory for TLC.                               *)
EXTENDS AlertHistory

TestRule(dir, trigger, clear, for) ==
    [direction |-> dir, trigger |-> trigger, clear |-> clear,
     forDuration |-> for, maxDataAge |-> 2, enabled |-> TRUE]

TestRules == {TestRule("above", 2, 0, 0), TestRule("above", 2, 0, 2),
              TestRule("below", 0, 2, 4)}

TestValues == 0..2
=============================================================================
