------------------------- MODULE MCStreamAnyScanner -------------------------
(***************************************************************************)
(* StreamProcessor with scanners that may report anything: up to two       *)
(* findings with offsets before, inside and past the buffer.               *)
(***************************************************************************)
EXTENDS StreamProcessor

\* Offsets just outside, at and just inside both ends of a buffer of n bytes.
Offsets(n) == {-1, 0, 1, n - 1, n, n + 1}

AnyFinding(n) == [Start : Offsets(n), End : Offsets(n)]

MCScans(lo, hi) ==
    LET F == AnyFinding(hi - lo)
    IN  {<<>>} \cup {<<f>> : f \in F} \cup {<<f, g>> : f \in F, g \in F}
=============================================================================
