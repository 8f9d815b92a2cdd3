---------------------------- MODULE MCRatesStack ----------------------------
(* RatesStack for TLC: one process with two or three calls, or two         *)
(* processes with skewed clocks, the first of which may be killed.         *)
EXTENDS RatesStackInvariant

CONSTANTS c1, c2, c3, p1, p2

TwoCalls   == {c1, c2}
ThreeCalls == {c1, c2, c3}

OneProc  == {p1}
TwoProcs == {p1, p2}

AllOnP  == [call \in {c1, c2, c3} |-> p1]
TwoOnP  == [call \in {c1, c2} |-> p1]
OneEach == [call \in {c1, c2} |-> IF call = c1 THEN p1 ELSE p2]

Exact  == [proc \in {p1} |-> 0]
Skewed == [proc \in {p1, p2} |-> IF proc = p1 THEN 1 ELSE 0]
\* Calls of one process are interchangeable: for the runs that check safety only.
Interchangeable == Permutations(Calls)
=============================================================================
