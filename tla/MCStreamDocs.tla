---------------------------- MODULE MCStreamDocs ----------------------------
(***************************************************************************)
(* StreamProcessor against two statements of its documentation, each with  *)
(* a scanner on which the statement and the code differ.                   *)
(***************************************************************************)
EXTENDS StreamProcessor

In(m, lo, hi) == lo <= m.from /\ m.to <= hi

Report(ms, lo, hi) ==
    LET seen == SelectSeq(ms, LAMBDA m : In(m, lo, hi))
    IN  {[k \in 1..Len(seen) |-> [Start |-> seen[k].from - lo, End |-> seen[k].to - lo]]}

\* Two scanners whose matches overlap; both are shorter than the window of 5.
Overlapping == <<[from |-> 2, to |-> 5], [from |-> 4, to |-> 9]>>
OverlappingScans(lo, hi) == Report(Overlapping, lo, hi)

(* stream.go:32-33: the flushed prefix "does not split any finding in      *)
(* half".                                                                  *)
NoFindingSplit == pc = "emit" => \A k \in DOMAIN findings : ~Straddles(findings[k], flushable)

(* stream.go:37-38: "dst is flushed (when it implements http.Flusher)      *)
(* after every write", so nothing written waits while Pipe reads again.    *)
FlushedAfterWrite == HasFlusher /\ pc = "read" => ~unflushed
=============================================================================
