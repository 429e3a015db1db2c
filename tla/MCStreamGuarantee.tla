-------------------------- MODULE MCStreamGuarantee --------------------------
(***************************************************************************)
(* StreamGuarantee with the built-in scanners, in two orders of the        *)
(* configuration.  The matches are what they find in the whole body: some  *)
(* adjacent, some as long as the window, some open-ended, one at each end  *)
(* of the stream; one token fails its entropy check.  No detector that     *)
(* needs a key label matches: it would not be an honest scanner, as module *)
(* MCStreamKeyContext shows.                                               *)
(***************************************************************************)
EXTENDS StreamGuarantee, Scanners

MCBody == <<"p", "a", "b", "n", "b", "a", "n", "1", "8", "-", "-", "a", "_",
            "p", "a", "a", "_", "a", "@", "b", "-", "b", "_", "a", "_", "b">>

Orders == {<<"pii", "secrets", "sqli", "code">>, <<"code", "sqli", "secrets", "pii">>}

MCScans(lo, hi) == {ScanInOrder(enabled, lo, hi) : enabled \in Orders}

Match(from, to) == [from |-> from, to |-> to]

MCMatches == {Match(0, 3), Match(4, 6), Match(7, 9), Match(9, 12),
              Match(17, 20), Match(20, 22), Match(23, 26)}

ASSUME MatchesAreWholeBodyFindings ==
    \A fs \in MCScans(0, Len(Body)) : {Match(f.Start, f.End) : f \in Range(fs)} = MCMatches
=============================================================================
