------------------------------ MODULE Samples ------------------------------
(***************************************************************************)
(* What the collectors do with samples of one metric: keep the last ones   *)
(* and take their median.                                                  *)
(***************************************************************************)
EXTENDS Integers, FiniteSets, SequencesExt

\* The middle sample, or the two of them.
MiddleOf(samples) ==
    {v \in ToSet(samples) :
        /\ 2 * Cardinality({i \in DOMAIN samples : samples[i] < v}) =< Len(samples)
        /\ 2 * Cardinality({i \in DOMAIN samples : samples[i] > v}) =< Len(samples)}

\* Exact where two samples in the middle have an even sum.
Median(samples) == (Min(MiddleOf(samples)) + Max(MiddleOf(samples))) \div 2

LastOf(samples, n) ==
    IF Len(samples) =< n THEN samples ELSE SubSeq(samples, Len(samples) - n + 1, Len(samples))
=============================================================================
