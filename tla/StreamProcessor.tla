--------------------------- MODULE StreamProcessor ---------------------------
(***************************************************************************)
(* The sliding-window redactor of internal/pipeline/stream.go.             *)
(*                                                                         *)
(* One call of Pipe copies a stream of StreamLen bytes to a client.  A     *)
(* byte is identified by its offset in the stream, so the working buffer   *)
(* `buf` is the interval base..got-1 and what reached the client is two    *)
(* sets of offsets: raw (written as read) and masked (replaced by the      *)
(* redactor's placeholder).  Findings keep the offsets the code uses,      *)
(* relative to the start of the buffer.                                    *)
(*                                                                         *)
(* The scanners are external to Pipe: Scans(lo, hi) is the set of finding  *)
(* lists ScanWith may return for the bytes lo..hi-1.  Nothing but the type *)
(* of its offsets is assumed, since plugin scanners may report any range.  *)
(***************************************************************************)
EXTENDS Integers, Sequences, Functions

CONSTANTS
    StreamLen,      \* bytes the upstream sends before EOF
    ChunkMax,       \* size of the read chunk (32 KiB in the code)
    OptWindow,      \* StreamOptions.Window as given by the caller
    OptMaxBuffer,   \* StreamOptions.MaxBuffer as given by the caller
    HasRedactor,    \* StreamOptions.Redactor # nil
    HasFlusher,     \* dst implements http.Flusher
    Scans(_, _)     \* the finding lists ScanWith may return for lo..hi-1

DefaultWindow == 4096

\* NewStreamProcessor replaces unset options by their defaults.
Window == IF OptWindow <= 0 THEN DefaultWindow ELSE OptWindow

MaxBuffer ==
    IF OptMaxBuffer <= 0 \/ OptMaxBuffer < Window THEN 4 * Window ELSE OptMaxBuffer

Finding == [Start : Int, End : Int]

ASSUME SizesAssumption ==
    /\ StreamLen \in Nat
    /\ ChunkMax \in Nat \ {0}
    /\ OptWindow \in Int
    /\ OptMaxBuffer \in Int
    /\ HasRedactor \in BOOLEAN
    /\ HasFlusher \in BOOLEAN

ASSUME ScansAssumption ==
    \A hi \in 0..StreamLen : \A lo \in 0..(hi - 1) : \A fs \in Scans(lo, hi) : fs \in Seq(Finding)

VARIABLES
    pc,         \* where Pipe (or the flushPrefix it calls) stands
    base,       \* stream offset of buf[0]
    got,        \* stream offset just after the last byte of buf
    spare,      \* len(buf) < cap(buf)
    readErr,    \* error returned by the last Read
    findings,   \* result of the last ScanWith
    i,          \* index of the pull-back loop in flushPrefix
    flushable,  \* the boundary flushPrefix is computing
    raw,        \* stream offsets the client received as they are
    masked,     \* stream offsets the client received a placeholder for
    unflushed,  \* bytes were written since the last Flush
    result      \* what Pipe returned

vars == <<pc, base, got, spare, readErr, findings, i, flushable,
          raw, masked, unflushed, result>>

scanVars == <<findings, i, flushable>>
outVars  == <<raw, masked>>

bufLen == got - base

Init ==
    /\ pc = "read"
    /\ base = 0
    /\ got = 0
    /\ spare = FALSE
    /\ readErr = "nil"
    /\ findings = <<>>
    /\ i = 1
    /\ flushable = 0
    /\ raw = {}
    /\ masked = {}
    /\ unflushed = FALSE
    /\ result = "running"

Return(r) == pc' = "done" /\ result' = r

\* findings, i and flushable are locals of flushPrefix and flushFinal.
LeaveScope == findings' = <<>> /\ i' = 1 /\ flushable' = 0

-----------------------------------------------------------------------------
(***************************************************************************)
(* The redactor: the offsets of data[0:n] that the mask redactor replaces. *)
(* It skips findings that are not a non-empty range inside the data.       *)
(* module MaskRedactor checks the sort-and-merge loop against this set.    *)
(***************************************************************************)
Valid(f, n) == f.Start >= 0 /\ f.End <= n /\ f.Start < f.End

MutCovered(F, n) ==
    {x \in 0..(n - 1) : \E f \in F : Valid(f, n) /\ f.Start < x /\ x < f.End}
Covered(F, n) ==
    {x \in 0..(n - 1) : \E f \in F : Valid(f, n) /\ f.Start <= x /\ x < f.End}

\* applyRedactor returns the data unchanged without a redactor (or findings).
Hidden(F, n) == IF HasRedactor THEN Covered(F, n) ELSE {}

\* dst.Write of the first k bytes of data[0:n], redacted for the findings F.
Write(F, n, k) ==
    /\ raw' = raw \cup {x \in base..(base + k - 1) : x - base \notin Hidden(F, n)}
    /\ masked' = masked \cup {x \in base..(base + k - 1) : x - base \in Hidden(F, n)}

-----------------------------------------------------------------------------
(***************************************************************************)
(* Pipe                                                                    *)
(***************************************************************************)
CtxDone ==
    /\ pc = "read"
    /\ Return("ctx")
    /\ UNCHANGED <<base, got, spare, readErr, scanVars, outVars, unflushed>>

\* src.Read: n bytes and an error, both possible at once.
Read(n, err) ==
    /\ pc = "read"
    /\ got + n <= StreamLen
    /\ n = 0 => err # "nil"
    /\ err = "EOF" => got + n = StreamLen
    /\ readErr' = err
    /\ got' = got + n
    /\ IF n > 0
       THEN spare' \in BOOLEAN /\ pc' = "scan"   \* append may or may not fill the capacity
       ELSE spare' = spare /\ pc' = "check"
    /\ UNCHANGED <<base, scanVars, outVars, unflushed, result>>

ReadAny == \E n \in 0..ChunkMax : \E err \in {"nil", "EOF", "err"} : Read(n, err)

Flush ==
    /\ pc = "flush"
    /\ unflushed' = IF HasFlusher /\ spare THEN FALSE ELSE unflushed
    /\ pc' = "check"
    /\ UNCHANGED <<base, got, spare, readErr, scanVars, outVars, result>>

MutCheckReadErr ==
    /\ pc = "check"
    /\ pc' = IF readErr = "err" THEN "done" ELSE "read"
    /\ result' = IF readErr = "err" THEN "read" ELSE result
    /\ UNCHANGED <<base, got, spare, readErr, scanVars, outVars, unflushed>>

CheckReadErr ==
    /\ pc = "check"
    /\ \/ readErr = "EOF" /\ pc' = "final" /\ UNCHANGED result
       \/ readErr = "err" /\ Return("read")
       \/ readErr = "nil" /\ pc' = "read" /\ UNCHANGED result
    /\ UNCHANGED <<base, got, spare, readErr, scanVars, outVars, unflushed>>

-----------------------------------------------------------------------------
(***************************************************************************)
(* flushPrefix                                                             *)
(***************************************************************************)
ScanPrefix ==
    /\ pc = "scan"
    /\ IF bufLen <= Window
       THEN pc' = "flush" /\ UNCHANGED scanVars
       ELSE /\ findings' \in Scans(base, got)
            /\ flushable' = bufLen - Window
            /\ i' = 1
            /\ pc' = "pull"
    /\ UNCHANGED <<base, got, spare, readErr, outVars, unflushed, result>>

MutStraddles(f, b) == f.End > b
MutStraddlesLate(f, b) == f.Start < b /\ f.End > b + 1
MutStraddlesTouch(f, b) == f.Start < b /\ f.End >= b
Straddles(f, b) == f.Start < b /\ f.End > b

\* One iteration of the loop that pulls the boundary back.
PullBack ==
    /\ pc = "pull"
    /\ i <= Len(findings)
    /\ flushable' = IF Straddles(findings[i], flushable)
                    THEN findings[i].Start ELSE flushable
    /\ i' = i + 1
    /\ UNCHANGED <<pc, base, got, spare, readErr, findings, outVars, unflushed, result>>

\* The loop is over: force the original boundary when the buffer is at its cap.
MutBoundary(b) == IF b <= 0 /\ bufLen >= MaxBuffer THEN bufLen ELSE b
Boundary(b) == IF b <= 0 /\ bufLen >= MaxBuffer THEN bufLen - Window ELSE b

ChooseBoundary ==
    /\ pc = "pull"
    /\ i > Len(findings)
    /\ IF Boundary(flushable) <= 0
       THEN pc' = "flush" /\ LeaveScope
       ELSE pc' = "emit" /\ flushable' = Boundary(flushable) /\ UNCHANGED <<findings, i>>
    /\ UNCHANGED <<base, got, spare, readErr, outVars, unflushed, result>>

MutEmit == {f \in Range(findings) : f.End < flushable}
emit == {f \in Range(findings) : f.End <= flushable}

\* Where the residual tail that flushPrefix keeps starts in the stream.
MutResidual(b) == base + b - 1
Residual(b) == base + b

\* A nil redactor or an empty list of findings never reaches Redact.
RedactFails(F) ==
    /\ HasRedactor
    /\ F # {}
    /\ Return("redactor")
    /\ UNCHANGED <<base, got, spare, readErr, outVars, unflushed>>

\* A failed Write may have passed on any prefix of the output.
WriteFails(F, n) ==
    /\ \E k \in 0..n : Write(F, n, k) /\ unflushed' = (unflushed \/ k > 0)
    /\ Return("write")
    /\ UNCHANGED <<base, got, spare, readErr>>

EmitPrefix ==
    /\ pc = "emit"
    /\ Write(emit, flushable, flushable)
    /\ unflushed' = TRUE
    /\ base' = Residual(flushable)
    /\ spare' = FALSE              \* residual is made with its exact length
    /\ pc' = "flush"
    /\ LeaveScope
    /\ UNCHANGED <<got, readErr, result>>

EmitFails ==
    /\ pc = "emit"
    /\ RedactFails(emit) \/ WriteFails(emit, flushable)
    /\ LeaveScope

-----------------------------------------------------------------------------
(***************************************************************************)
(* flushFinal, and the Flush and return after it                           *)
(***************************************************************************)
FinalEmpty ==
    /\ pc = "final"
    /\ bufLen = 0
    /\ unflushed' = IF HasFlusher THEN FALSE ELSE unflushed
    /\ Return("ok")
    /\ UNCHANGED <<base, got, spare, readErr, scanVars, outVars>>

ScanFinal ==
    /\ pc = "final"
    /\ bufLen > 0
    /\ findings' \in Scans(base, got)
    /\ pc' = "finalEmit"
    /\ UNCHANGED <<base, got, spare, readErr, i, flushable, outVars, unflushed, result>>

MutFlushFinal ==
    /\ pc = "final"
    /\ unflushed' = FALSE
    /\ Return("ok")
    /\ UNCHANGED <<base, got, spare, readErr, scanVars, outVars>>

\* A whole window is always kept, so buf is empty here only for an empty stream.
FlushFinal == IF bufLen = 0 THEN FinalEmpty ELSE ScanFinal

\* buf is not used again; base moves on to record that all of it is written.
FinalEmit ==
    /\ pc = "finalEmit"
    /\ Write(Range(findings), bufLen, bufLen)
    /\ unflushed' = ~HasFlusher
    /\ base' = got
    /\ Return("ok")
    /\ LeaveScope
    /\ UNCHANGED <<got, spare, readErr>>

FinalFails ==
    /\ pc = "finalEmit"
    /\ RedactFails(Range(findings)) \/ WriteFails(Range(findings), bufLen)
    /\ LeaveScope

Done ==
    /\ pc = "done"
    /\ UNCHANGED vars

\* What Pipe does by itself between two Reads.
Step ==
    \/ ScanPrefix \/ PullBack \/ ChooseBoundary \/ EmitPrefix \/ EmitFails
    \/ Flush \/ CheckReadErr
    \/ FlushFinal \/ FinalEmit \/ FinalFails

Next == CtxDone \/ ReadAny \/ Step \/ Done

\* Pipe keeps running and the scanners return; nothing is assumed of the upstream.
Spec == Init /\ [][Next]_vars /\ WF_vars(Step)

-----------------------------------------------------------------------------
(***************************************************************************)
(* Properties that hold for every scanner.                                 *)
(***************************************************************************)
Delivered == raw \cup masked

TypeOK ==
    /\ pc \in {"read", "scan", "pull", "emit", "flush", "check", "final",
               "finalEmit", "done"}
    /\ base \in 0..StreamLen
    /\ got \in base..StreamLen
    /\ spare \in BOOLEAN
    /\ readErr \in {"nil", "EOF", "err"}
    /\ findings \in Seq(Finding)
    /\ i \in Nat \ {0}
    /\ flushable \in Int
    /\ raw \subseteq 0..(got - 1)
    /\ masked \subseteq 0..(got - 1)
    /\ unflushed \in BOOLEAN
    /\ result \in {"running", "ok", "ctx", "redactor", "write", "read"}

(* The slices data[:flushable] and data[flushable:] of flushPrefix are in  *)
(* bounds, non-empty, and leave a whole window behind, whatever offsets    *)
(* the scanners reported (negative, past the end, reversed).               *)
SliceInBounds == pc = "emit" => flushable \in 1..(bufLen - Window)

(* Every byte is delivered exactly once and in order: what the client has  *)
(* is a prefix of the stream that ends where the buffer starts.  Only a    *)
(* failed Write may leave part of the buffer delivered as well.            *)
DeliveredOnce ==
    /\ raw \cap masked = {}
    /\ result # "write" => Delivered = 0..(base - 1)
    /\ result = "write" => \E n \in base..got : Delivered = 0..(n - 1)

(* Until EOF the last Window bytes read are never delivered, so a match no *)
(* longer than the window is always seen whole; a forced flush included.   *)
WindowHeldBack ==
    result \notin {"ok", "write"} => \A x \in Delivered : x < got - Window

(* When Pipe reports success the client has the whole stream.              *)
CompleteOnSuccess == result = "ok" => Delivered = 0..(StreamLen - 1)

(* After a Read, Pipe comes back for the next one or returns; after a Read *)
(* that reported EOF or an error it returns.                               *)
BackToRead ==
    (pc # "read") ~> (pc = "done" \/ (pc = "read" /\ readErr = "nil"))
=============================================================================
