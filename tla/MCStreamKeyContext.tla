------------------------- MODULE MCStreamKeyContext -------------------------
(***************************************************************************)
(* StreamProcessor with the built-in scanners on a body with a token that  *)
(* is reported only after a key label.                                     *)
(***************************************************************************)
EXTENDS StreamProcessor, Scanners

MCBody == <<"a", "_", "K", "f", "a", "b", "1", "_", "a", "_", "a", "_">>

MCScans(lo, hi) == {ScanInOrder(<<"pii", "secrets">>, lo, hi)}

\* The bytes of the findings of the whole body that fit in the window.
Detected ==
    UNION {f.Start..(f.End - 1) :
        f \in {g \in Range(ScanInOrder(<<"pii", "secrets">>, 0, StreamLen)) : g.End - g.Start <= Window}}

(* config.go:80-82: the window is there "so that patterns spanning chunk   *)
(* boundaries are still detected", if it is at least as large as the       *)
(* longest match: what the scanners find in the body does not reach the    *)
(* client.                                                                 *)
StillDetected == raw \cap Detected = {}
=============================================================================
