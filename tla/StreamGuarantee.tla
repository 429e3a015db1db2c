--------------------------- MODULE StreamGuarantee ---------------------------
(***************************************************************************)
(* StreamProcessor with scanners that do their job.  Matches are the       *)
(* places of the stream the scanners should find.  A scanner sees only the *)
(* buffer: it reports each match that lies whole in the buffer, and may    *)
(* report part of one that the buffer cuts.  The window is at least as     *)
(* long as every match, which stream.go and config.go ask for, and the     *)
(* matches do not overlap, which they do not ask for (see README).         *)
(***************************************************************************)
EXTENDS StreamProcessor

CONSTANT Matches    \* set of [from, to) ranges of stream offsets

ASSUME MatchesAssumption ==
    /\ Matches \subseteq [from : 0..StreamLen, to : 0..StreamLen]
    /\ \A m \in Matches : m.from < m.to /\ m.to - m.from <= Window

ASSUME BufferAssumption == HasRedactor /\ MaxBuffer >= 2 * Window

Sensitive == {x \in 0..(StreamLen - 1) : \E m \in Matches : m.from <= x /\ x < m.to}

Disjoint(f, g) == f.End <= g.Start \/ g.End <= f.Start

\* fs is an honest report on the bytes lo..hi-1.
Honest(fs, lo, hi) ==
    /\ \A m \in Matches : lo <= m.from /\ m.to <= hi =>
          \E k \in DOMAIN fs : fs[k].Start = m.from - lo /\ fs[k].End = m.to - lo
    /\ \A k \in DOMAIN fs :
          /\ Valid(fs[k], hi - lo)
          /\ \E m \in Matches : m.from <= lo + fs[k].Start /\ lo + fs[k].End <= m.to
    /\ \A j, k \in DOMAIN fs : j # k => Disjoint(fs[j], fs[k])

ASSUME HonestScanners ==
    \A hi \in 0..StreamLen : \A lo \in 0..(hi - 1) : \A fs \in Scans(lo, hi) : Honest(fs, lo, hi)

-----------------------------------------------------------------------------
(* No boundary ever cuts a match: the buffer starts in none of them, so    *)
(* each one is scanned and redacted as a whole.                            *)
NoSplit == \A m \in Matches : ~(m.from < base /\ base < m.to)

(* The client sees exactly the bytes that belong to no match, however the  *)
(* stream was cut into reads and wherever it was given up: nothing         *)
(* sensitive leaks and nothing else is hidden.                             *)
ChunkingTransparent ==
    /\ raw \cap Sensitive = {}
    /\ masked \subseteq Sensitive

(* The tail kept for the next Read is shorter than two windows, so the     *)
(* forced flush at MaxBuffer (four windows by default) is never needed.    *)
BoundedTail == pc = "read" => bufLen < 2 * Window

-----------------------------------------------------------------------------
\* How many bytes the client has; a failed Write counts what it passed on.
Frontier == IF result = "write" THEN CHOOSE n \in base..got : Delivered = 0..(n - 1) ELSE base

Outcome == CASE result = "running" -> "open"
             [] result = "ok" -> "complete"
             [] OTHER -> "truncated"

Copy == INSTANCE RedactedCopy
        WITH Length <- StreamLen, sent <- Frontier, clear <- raw, outcome <- Outcome

(* Pipe implements a redacted copy.                                        *)
ImplementsCopy == Copy!CopySpec
=============================================================================
