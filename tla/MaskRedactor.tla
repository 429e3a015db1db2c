---------------------------- MODULE MaskRedactor ----------------------------
(***************************************************************************)
(* mask.Redact: filter the findings, sort them, merge the overlapping ones *)
(* and copy the data with one placeholder per merged range.  The data is   *)
(* its offsets 0..n-1; an output token is such an offset or Placeholder.   *)
(***************************************************************************)
EXTENDS Integers, Sequences, Functions

VARIABLES
    pc,         \* where Redact stands
    n,          \* len(data)
    findings,   \* the findings the caller passed
    valid,      \* the usable ones
    sorted,     \* those sorted so far
    j,          \* loop index
    merged, pos, out

vars == <<pc, n, findings, valid, sorted, j, merged, pos, out>>

Placeholder == -1

\* The locals of Redact before its first statement.
Fresh == valid = <<>> /\ sorted = <<>> /\ j = 1 /\ merged = <<>> /\ pos = 0

Init ==
    /\ pc = "filter"
    /\ n \in Nat
    /\ findings \in Seq([Start : Int, End : Int])
    /\ Fresh
    /\ out = <<>>

\* data[from:to] as output tokens; Go panics unless 0 <= from <= to <= n.
Slice(from, to) == [k \in 1..(to - from) |-> from + k - 1]

MutKeep(f) == f.Start >= 0 /\ f.End <= n
Keep(f) == f.Start >= 0 /\ f.End <= n /\ f.Start < f.End

\* The loop that collects the valid findings, and the returns before and
\* after it when there is nothing to do.
Filter ==
    /\ pc = "filter"
    /\ IF n > 0 /\ j <= Len(findings)
       THEN /\ valid' = IF Keep(findings[j]) THEN Append(valid, findings[j]) ELSE valid
            /\ j' = j + 1
            /\ UNCHANGED <<pc, out>>
       ELSE /\ j' = 1
            /\ IF valid = <<>>
               THEN pc' = "done" /\ out' = Slice(0, n)
               ELSE pc' = "sort" /\ UNCHANGED out
            /\ UNCHANGED valid
    /\ UNCHANGED <<n, findings, sorted, merged, pos>>

Before(f, g) == f.Start < g.Start \/ (f.Start = g.Start /\ f.End >= g.End)

\* f goes into the sorted list s after its first k elements.
InsertAt(s, f, k) == SubSeq(s, 1, k) \o <<f>> \o SubSeq(s, k + 1, Len(s))

\* sort.Slice: ascending Start, longer ranges first.  It is not stable, so
\* equal ranges may end up in any order.
Sort ==
    /\ pc = "sort"
    /\ IF j <= Len(valid)
       THEN /\ \E k \in 0..Len(sorted) :
                  /\ \A a \in 1..k : Before(sorted[a], valid[j])
                  /\ \A b \in (k + 1)..Len(sorted) : Before(valid[j], sorted[b])
                  /\ sorted' = InsertAt(sorted, valid[j], k)
            /\ j' = j + 1
            /\ UNCHANGED pc
       ELSE j' = 1 /\ pc' = "merge" /\ UNCHANGED sorted
    /\ UNCHANGED <<n, findings, valid, merged, pos, out>>

MutMergeInto(m, f) ==
    IF m # <<>> /\ f.Start < m[Len(m)].to
    THEN [m EXCEPT ![Len(m)].to = f.End]
    ELSE Append(m, [from |-> f.Start, to |-> f.End])

\* The range f is merged into the last range if it starts inside it.
MergeInto(m, f) ==
    IF m # <<>> /\ f.Start < m[Len(m)].to
    THEN IF f.End > m[Len(m)].to THEN [m EXCEPT ![Len(m)].to = f.End] ELSE m
    ELSE Append(m, [from |-> f.Start, to |-> f.End])

Merge ==
    /\ pc = "merge"
    /\ IF j <= Len(sorted)
       THEN merged' = MergeInto(merged, sorted[j]) /\ j' = j + 1 /\ UNCHANGED pc
       ELSE j' = 1 /\ pc' = "copy" /\ UNCHANGED merged
    /\ UNCHANGED <<n, findings, valid, sorted, pos, out>>

Copy ==
    /\ pc = "copy"
    /\ IF j <= Len(merged)
       THEN /\ out' = out \o Slice(pos, merged[j].from) \o <<Placeholder>>
            /\ pos' = merged[j].to
            /\ j' = j + 1
            /\ UNCHANGED pc
       ELSE /\ out' = out \o Slice(pos, n)
            /\ pc' = "done"
            /\ UNCHANGED <<pos, j>>
    /\ UNCHANGED <<n, findings, valid, sorted, merged>>

Done == pc = "done" /\ UNCHANGED vars

Next == Filter \/ Sort \/ Merge \/ Copy \/ Done

Spec == Init /\ [][Next]_vars /\ WF_vars(Next)

-----------------------------------------------------------------------------
(***************************************************************************)
(* The reference: walk the data once; an offset inside some usable finding *)
(* is hidden, and a placeholder appears where a chain of overlapping       *)
(* findings starts.                                                        *)
(***************************************************************************)
Usable(fs) == {f \in Range(fs) : 0 <= f.Start /\ f.Start < f.End /\ f.End <= n}

IsHidden(fs, x) == \E f \in Usable(fs) : f.Start <= x /\ x < f.End

StartsRange(fs, x) ==
    /\ \E f \in Usable(fs) : f.Start = x
    /\ ~\E f \in Usable(fs) : f.Start < x /\ x < f.End

\* What the first x bytes become.
Walk(fs) ==
    LET upto[x \in 0..n] ==
          IF x = 0 THEN <<>>
          ELSE upto[x - 1] \o (IF StartsRange(fs, x - 1) THEN <<Placeholder>> ELSE <<>>)
                           \o (IF IsHidden(fs, x - 1) THEN <<>> ELSE <<x - 1>>)
    IN  upto

Reference(fs) == Walk(fs)[n]

(* Every slice Redact takes of the data is in bounds: the merged ranges    *)
(* are non-empty, ordered and inside the data.                             *)
SlicesOrdered ==
    pc = "copy" =>
        /\ 0 <= pos /\ pos <= n
        /\ j <= Len(merged) => pos <= merged[j].from /\ merged[j].from < merged[j].to
=============================================================================
