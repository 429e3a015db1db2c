------------------------------ MODULE Pipeline ------------------------------
(***************************************************************************)
(* One call of Pipeline.Process: the raw pass, the transformed passes, the *)
(* merging of their findings and the redaction (internal/pipeline/         *)
(* pipeline.go).  Every pass is a ScanWith: one goroutine per scanner, a   *)
(* wait for all of them, the results joined in scanner order.  The merged  *)
(* list goes to the redactor: module MaskRedactor, or a plugin.            *)
(*                                                                         *)
(* The body is its offsets.  A scanner is what its Scan may return for a   *)
(* view of the body: a list of findings, an error, or both; what a plugin  *)
(* returns passes through module PluginWire.  A transform is its table     *)
(* origIdx from view offsets to body offsets; module Transforms is about   *)
(* how those tables are built.                                             *)
(***************************************************************************)
EXTENDS Integers, Sequences, Functions, PluginWire

CONSTANTS
    NumScanners,        \* scanners are 1..NumScanners, in configuration order
    TransformAware,     \* those with AcceptsTransforms() = true
    NumViews,           \* transformed passes, in the order Scan runs them
    OrigIdx(_),         \* the table of view v: origIdx[x] is OrigIdx(v)[x + 1]
    Reports(_, _),      \* what scanner s may return for view v (0: the raw body)
    Types,              \* finding types
    Plugins,            \* the scanners that run in a plugin process
    BodyLen,            \* bytes of a body that is not empty
    Redactors           \* what Pipeline.redactor may be: "nil", "mask", "plugin"

Scanner == 1..NumScanners
View == 1..NumViews

Finding == [Type : Types, Start : Int, End : Int]
Report == [findings : Seq(Finding), err : BOOLEAN]

ASSUME PipelineAssumption ==
    /\ NumScanners \in Nat
    /\ NumViews \in Nat
    /\ TransformAware \subseteq Scanner
    /\ Plugins \subseteq Scanner \ TransformAware
    /\ BodyLen \in Nat \ {0}
    /\ Redactors \subseteq {"nil", "mask", "plugin"}
    /\ \A v \in View : OrigIdx(v) \in Seq(Nat) /\ OrigIdx(v) # <<>>

ASSUME ReportsAssumption ==
    \A s \in Scanner, v \in 0..NumViews : \A r \in Reports(s, v) : r \in Report

VARIABLES
    pc,             \* where Process stands
    pass,           \* 0 for the raw pass, then the view being scanned
    empty,          \* the body has no bytes
    active,         \* views whose pre-check fires and whose bytes differ
    running,        \* goroutines of the current ScanWith that have not returned
    results,        \* results[s] of the current ScanWith
    extra,          \* findings of the current pass, in body offsets
    k,              \* index of the mergeNew loop
    findings,       \* findings merged so far
    scanErr,        \* the joined error is not nil
    redactErr,      \* Redact returned an error
    redactor,       \* Pipeline.redactor
    step, valid, sorted, j, merged, pos,    \* the locals of mask.Redact
    out,            \* Result.Data, as a list of body offsets and placeholders
    reported        \* history: what each scanner returned in each pass

body == <<empty, active, redactor>>
maskVars == <<step, valid, sorted, j, merged, pos, out>>
redactVars == <<redactErr, maskVars>>
vars == <<pc, pass, body, running, results, extra, k, findings, scanErr, redactVars, reported>>

Size == IF empty THEN 0 ELSE BodyLen

Mask == INSTANCE MaskRedactor WITH pc <- step, n <- Size

NoReport == [findings |-> <<>>, err |-> FALSE]
Lost == [findings |-> <<>>, err |-> TRUE]

Init ==
    /\ pc = "scan"
    /\ pass = 0
    /\ empty \in BOOLEAN
    /\ active \in SUBSET (IF empty THEN {} ELSE View)
    /\ running = {}
    /\ results = [s \in Scanner |-> NoReport]
    /\ extra = <<>>
    /\ k = 1
    /\ findings = <<>>
    /\ scanErr = FALSE
    /\ redactErr = FALSE
    /\ redactor \in Redactors
    /\ step = "idle"
    /\ Mask!Fresh
    /\ out = <<>>
    /\ reported = {}

\* len(origIdx) - 1, the length of view v.
ViewLen(v) == Len(OrigIdx(v)) - 1

\* The scanners a pass fans out to; ScanWith skips an empty view.
Fan(v) ==
    CASE v = 0 -> Scanner
      [] v > 0 /\ ViewLen(v) = 0 -> {}
      [] OTHER -> TransformAware

-----------------------------------------------------------------------------
(***************************************************************************)
(* ScanWith                                                                *)
(***************************************************************************)
\* Scan returns no findings for an empty body or without scanners.
NothingToScan ==
    /\ pc = "scan"
    /\ empty \/ NumScanners = 0
    /\ pc' = "process"
    /\ UNCHANGED <<pass, body, running, results, extra, k, findings, scanErr, redactVars, reported>>

\* wg.Add and the go statements.
Launch ==
    /\ pc = "scan"
    /\ ~empty /\ NumScanners > 0
    /\ running' = Fan(pass)
    /\ results' = [s \in Scanner |-> NoReport]
    /\ pc' = "wait"
    /\ UNCHANGED <<pass, body, extra, k, findings, scanErr, redactVars, reported>>

\* The goroutine of scanner s: Scan, results[i] = ..., wg.Done.
Return(s) ==
    /\ s \in running
    /\ \E r \in Reports(s, pass) :
          /\ results' = [results EXCEPT ![s] = IF s \in Plugins THEN ClientScan(ServerScan(r)) ELSE r]
          /\ reported' = reported \cup {<<s, pass, r>>}
    /\ running' = running \ {s}
    /\ UNCHANGED <<pc, pass, body, extra, k, findings, scanErr, redactVars>>

\* The plugin of scanner s is gone, or the call is refused or lost.
CallFails(s) ==
    /\ s \in running \cap Plugins
    /\ results' = [results EXCEPT ![s] = Lost]
    /\ reported' = reported \cup {<<s, pass, Lost>>}
    /\ running' = running \ {s}
    /\ UNCHANGED <<pc, pass, body, extra, k, findings, scanErr, redactVars>>

\* allFindings: the results appended in scanner order.
MutJoined(rs) ==
    LET upto[s \in 0..NumScanners] ==
          IF s = 0 THEN <<>> ELSE rs[s].findings \o upto[s - 1]
    IN  upto[NumScanners]
Joined(rs) ==
    LET upto[s \in 0..NumScanners] ==
          IF s = 0 THEN <<>> ELSE upto[s - 1] \o rs[s].findings
    IN  upto[NumScanners]

AnyErr(rs) == \E s \in Scanner : rs[s].err

MutWaited == TRUE
Waited == running = {}

\* After wg.Wait in the raw pass: findings, scanErr := ScanWith(...).
JoinRaw ==
    /\ pc = "wait"
    /\ pass = 0
    /\ Waited
    /\ findings' = Joined(results)
    /\ scanErr' = AnyErr(results)
    /\ pc' = "next"
    /\ UNCHANGED <<pass, body, running, results, extra, k, redactVars, reported>>

-----------------------------------------------------------------------------
(***************************************************************************)
(* transformedPass and mergeNew                                            *)
(***************************************************************************)
Mappable(v, f) == f.Start >= 0 /\ f.End <= ViewLen(v) /\ f.Start < f.End

ToBody(v, f) ==
    [f EXCEPT !.Start = OrigIdx(v)[f.Start + 1], !.End = OrigIdx(v)[f.End + 1]]

\* The loop of transformedPass.
Mapped(v, fs) ==
    LET upto[m \in 0..Len(fs)] ==
          IF m = 0 THEN <<>>
          ELSE IF Mappable(v, fs[m]) THEN Append(upto[m - 1], ToBody(v, fs[m]))
          ELSE upto[m - 1]
    IN  upto[Len(fs)]

MutJoinErr(rs) == AnyErr(rs)
JoinErr(rs) == scanErr \/ AnyErr(rs)

JoinView ==
    /\ pc = "wait"
    /\ pass > 0
    /\ Waited
    /\ extra' = Mapped(pass, Joined(results))
    /\ scanErr' = JoinErr(results)
    /\ k' = 1
    /\ pc' = "merge"
    /\ UNCHANGED <<pass, body, running, results, findings, redactVars, reported>>

Overlaps(e, f) == e.Type = f.Type /\ e.Start < f.End /\ f.Start < e.End

MutOverlapsExisting(f) == \E e \in Range(findings) : e.Start < f.End /\ f.Start < e.End
overlapsExisting(f) == \E e \in Range(findings) : Overlaps(e, f)

\* One iteration of mergeNew.
MergeNew ==
    /\ pc = "merge"
    /\ k <= Len(extra)
    /\ findings' = IF overlapsExisting(extra[k]) THEN findings ELSE Append(findings, extra[k])
    /\ k' = k + 1
    /\ UNCHANGED <<pc, pass, body, running, results, extra, scanErr, redactVars, reported>>

MergeDone ==
    /\ pc = "merge"
    /\ k > Len(extra)
    /\ pc' = "next"
    /\ extra' = <<>>
    /\ k' = 1
    /\ UNCHANGED <<pass, body, running, results, findings, scanErr, redactVars, reported>>

-----------------------------------------------------------------------------
\* The next view whose pre-check fires, if any scanner wants views at all.
MutPending == {v \in active : v >= pass /\ TransformAware # {}}
Pending == {v \in active : v > pass /\ TransformAware # {}}

NextPass ==
    /\ pc = "next"
    /\ Pending # {}
    /\ pass' \in Pending
    /\ \A v \in Pending : pass' <= v
    /\ pc' = "scan"
    /\ UNCHANGED <<body, running, results, extra, k, findings, scanErr, redactVars, reported>>

ScanReturns ==
    /\ pc = "next"
    /\ Pending = {}
    /\ pc' = "process"
    /\ UNCHANGED <<pass, body, running, results, extra, k, findings, scanErr, redactVars, reported>>

-----------------------------------------------------------------------------
(***************************************************************************)
(* Process, after Scan.  An error of the redactor is joined to scanErr.    *)
(***************************************************************************)
scanVars == <<pass, body, running, results, extra, k, findings, reported>>

WholeBody == Mask!Slice(0, Size)

MutSkips == findings = <<>> \/ redactor = "nil" \/ scanErr
Skips == findings = <<>> \/ redactor = "nil"

SkipRedact ==
    /\ pc = "process"
    /\ Skips
    /\ out' = WholeBody
    /\ pc' = "done"
    /\ UNCHANGED <<scanVars, scanErr, redactErr, step, valid, sorted, j, merged, pos>>

MaskCalled ==
    /\ pc = "process"
    /\ ~Skips /\ redactor = "mask"
    /\ step' = "filter"
    /\ pc' = "redact"
    /\ UNCHANGED <<scanVars, scanErr, redactErr, valid, sorted, j, merged, pos, out>>

MaskStep ==
    /\ pc = "redact"
    /\ UNCHANGED <<pc, scanVars, scanErr, redactErr>>
    /\ Mask!Filter \/ Mask!Sort \/ Mask!Merge \/ Mask!Copy

MaskReturns ==
    /\ pc = "redact"
    /\ step = "done"
    /\ pc' = "done"
    /\ UNCHANGED <<scanVars, scanErr, redactVars>>

\* A plugin that masks what it is told to; or the call fails, and Process
\* returns the original body with the error.
PluginRedacts ==
    /\ pc = "process"
    /\ ~Skips /\ redactor = "plugin"
    /\ \/ out' = Mask!Reference(ServerRedact(findings)) /\ UNCHANGED <<scanErr, redactErr>>
       \/ out' = WholeBody /\ redactErr' = TRUE /\ scanErr' = TRUE
    /\ pc' = "done"
    /\ UNCHANGED <<scanVars, step, valid, sorted, j, merged, pos>>

Done == pc = "done" /\ UNCHANGED vars

Step == NothingToScan \/ Launch \/ JoinRaw \/ JoinView \/ MergeNew \/ MergeDone \/ NextPass \/ ScanReturns
        \/ SkipRedact \/ MaskCalled \/ MaskStep \/ MaskReturns \/ PluginRedacts

Next == Step \/ (\E s \in Scanner : Return(s) \/ CallFails(s)) \/ Done

\* Every scanner returns: nothing in ScanWith makes one that does not.
Spec == Init /\ [][Next]_vars /\ WF_vars(Step) /\ \A s \in Scanner : WF_vars(Return(s) \/ CallFails(s))

-----------------------------------------------------------------------------
\* The offsets of the raw findings and of the tables are int32, as the wire
\* needs them: so for every body below 2 GiB, though no code ensures it.
FitsWire(x) == -OffsetLimit <= x /\ x < OffsetLimit

OffsetsFit ==
    /\ \A s \in Scanner : \A r \in Reports(s, 0) :
          \A f \in Range(r.findings) : FitsWire(f.Start) /\ FitsWire(f.End)
    /\ \A v \in View : \A x \in Range(OrigIdx(v)) : FitsWire(x)

\* What scanner s found in view v; the findings of a plugin that returns an
\* error with them do not cross the wire.
Said(s, v) ==
    UNION {Range(t[3].findings) :
        t \in {u \in reported : u[1] = s /\ u[2] = v /\ (u[3].err => s \notin Plugins)}}

Heard(s, v) == \E r \in {t[3] : t \in reported} : <<s, v, r>> \in reported

(* Process returns only after every scanner has answered every pass it     *)
(* takes part in: wg.Wait is not passed early.                             *)
EveryScannerHeard ==
    pc = "done" /\ ~empty =>
        \A v \in {0} \cup active : \A s \in (IF v = 0 THEN Scanner ELSE Fan(v)) : Heard(s, v)

(* One failing scanner never costs the findings of another: everything     *)
(* found in the raw body is returned, and a finding in a view is returned  *)
(* unless one of its type that overlaps it is.                             *)
NothingLost ==
    pc = "done" =>
        \A s \in Scanner :
            /\ Said(s, 0) \subseteq Range(findings)
            /\ \A v \in View : \A f \in Said(s, v) : Mappable(v, f) =>
                  \/ ToBody(v, f) \in Range(findings)
                  \/ \E e \in Range(findings) : Overlaps(e, ToBody(v, f))

(* What any scanner, built in or plugin, found in the raw body is not in   *)
(* the body Process returns, whatever the other scanners reported and      *)
(* whichever of them failed; unless the redactor failed or there is none.  *)
FoundIsHidden ==
    pc = "done" /\ redactor # "nil" /\ ~redactErr =>
        \A s \in Scanner : \A f \in Said(s, 0) :
            Mask!Keep(f) => (f.Start..(f.End - 1)) \cap Range(out) = {}

(* An error of any scanner in any pass, or of the redactor, reaches the    *)
(* caller, which decides between failing open and failing closed.          *)
ErrorsSurface == pc = "done" /\ (redactErr \/ \E t \in reported : t[3].err) => scanErr

(* Redact returns the reference output whatever the order, overlap,        *)
(* duplication or invalidity of the findings it is given; a plugin gets    *)
(* the findings it has to mask unchanged over the wire.                    *)
RedactsByReference ==
    pc = "done" =>
        out = IF Skips \/ redactErr THEN WholeBody ELSE Mask!Reference(findings)

(* Every slice Redact takes of the data is in bounds: the merged ranges    *)
(* are non-empty, ordered and inside the data.                             *)
SlicesInBounds == Mask!SlicesOrdered

-----------------------------------------------------------------------------
(***************************************************************************)
(* The sequential reference, on a history of reports: the scanners one     *)
(* after the other, pass after pass, a view's finding kept unless it       *)
(* overlaps an earlier kept one.                                           *)
(***************************************************************************)
\* What a failed plugin found does not arrive.
Answer(history, s, v) ==
    LET own == {t \in history : t[1] = s /\ t[2] = v}
        r == (CHOOSE t \in own : TRUE)[3]
    IN  IF own = {} \/ (r.err /\ s \in Plugins) THEN <<>> ELSE r.findings

InTurn(history, v) ==
    LET upto[s \in 0..NumScanners] ==
          IF s = 0 THEN <<>> ELSE upto[s - 1] \o Answer(history, s, v)
    IN  upto[NumScanners]

KeepNew(kept, f) ==
    IF \E e \in Range(kept) : Overlaps(e, f) THEN kept ELSE Append(kept, f)

KeepEach(fs, gs) ==
    LET upto[m \in 0..Len(gs)] == IF m = 0 THEN fs ELSE KeepNew(upto[m - 1], gs[m])
    IN  upto

Sequential(history) ==
    LET list(v) == Mapped(v, InTurn(history, v))
        upto[v \in 0..NumViews] ==
          IF v = 0 THEN InTurn(history, 0) ELSE KeepEach(upto[v - 1], list(v))[Len(list(v))]
    IN  upto[NumViews]

(* The order in which the goroutines of a pass return changes nothing:     *)
(* Process returns the findings, in the order, of running the scanners one *)
(* after the other.                                                        *)
InterleavingFree == pc = "done" => findings = Sequential(reported)

(* Process returns once the scanners do.                                   *)
ProcessReturns == <>(pc = "done")
=============================================================================
