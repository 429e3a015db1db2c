------------------------ MODULE StreamGuaranteeProofs ------------------------
(***************************************************************************)
(* With honest scanners, disjoint matches no longer than the window and a  *)
(* buffer cap of at least two windows, Pipe is a redacted copy: for every  *)
(* stream, every set of matches, every window and every chunking.          *)
(***************************************************************************)
EXTENDS StreamGuarantee, StreamProcessorProofs

(* The findings in use are an honest report on the current buffer.         *)
ReportHonest == pc \in {"pull", "emit", "finalEmit"} => Honest(findings, base, got)

(* The boundary is the first one, or the start of a finding that straddled *)
(* the first one: disjoint findings pull it back at most once.             *)
PulledOnce ==
    \/ flushable = bufLen - Window
    \/ \E j \in DOMAIN findings : findings[j].Start = flushable
                                  /\ findings[j].End > bufLen - Window

(* No finding the loop has passed straddles the boundary; after the loop,  *)
(* none does.                                                              *)
LoopClean ==
    /\ pc = "pull" => \A j \in DOMAIN findings : j < i => ~Straddles(findings[j], flushable)
    /\ pc = "emit" => \A j \in DOMAIN findings : ~Straddles(findings[j], flushable)
    /\ pc \in {"pull", "emit"} => PulledOnce

ShortTail == pc \in {"flush", "check", "read"} => bufLen < 2 * Window

GInv ==
    /\ ReportHonest
    /\ LoopClean
    /\ ShortTail
    /\ NoSplit
    /\ ChunkingTransparent

-----------------------------------------------------------------------------
(* An honest finding lies in a match, so it is no longer than the window.  *)
LEMMA HonestShort ==
    ASSUME NEW fs \in Seq(Finding), NEW lo \in Nat, NEW hi \in Nat,
           Honest(fs, lo, hi), NEW k \in DOMAIN fs
    PROVE  /\ fs[k].Start \in Int /\ fs[k].End \in Int
           /\ 0 <= fs[k].Start /\ fs[k].Start < fs[k].End /\ fs[k].End <= hi - lo
           /\ fs[k].End - fs[k].Start <= Window
<1>1. fs[k] \in Finding
      OBVIOUS
<1>2. fs[k].Start \in Int /\ fs[k].End \in Int
      BY <1>1 DEF Finding
<1>3. Valid(fs[k], hi - lo)
      BY DEF Honest
<1>4. PICK m \in Matches : m.from <= lo + fs[k].Start /\ lo + fs[k].End <= m.to
      BY DEF Honest
<1>5. m.from \in Int /\ m.to \in Int /\ m.to - m.from <= Window
      BY MatchesAssumption, SizesAssumption
<1> QED
      BY <1>2, <1>3, <1>4, <1>5, SizesPositive DEF Valid

(* A boundary b that no finding straddles and that leaves a window behind  *)
(* (or is the end of the stream) separates the matches, and the findings   *)
(* that end before it cover exactly the sensitive bytes before it.         *)
LEMMA CleanBoundary ==
    ASSUME NEW fs \in Seq(Finding), NEW lo \in Nat, NEW hi \in 0..StreamLen,
           Honest(fs, lo, hi), NEW b \in Nat,
           b + Window <= hi - lo \/ (b = hi - lo /\ hi = StreamLen),
           \A m \in Matches : ~(m.from < lo /\ lo < m.to),
           \A j \in DOMAIN fs : ~Straddles(fs[j], b)
    PROVE  /\ \A m \in Matches : ~(m.from < lo + b /\ lo + b < m.to)
           /\ \A x \in lo..(lo + b - 1) :
                 x \in Sensitive <=> x - lo \in Covered({f \in Range(fs) : f.End <= b}, b)
<1> USE SizesAssumption, SizesPositive
<1>0. \A m \in Matches : /\ m.from \in 0..StreamLen /\ m.to \in 0..StreamLen
                         /\ m.from < m.to /\ m.to - m.from <= Window
      BY MatchesAssumption
<1>1. ASSUME NEW m \in Matches, lo <= m.from, m.from < lo + b
      PROVE  \E k \in DOMAIN fs : /\ fs[k].Start = m.from - lo /\ fs[k].End = m.to - lo
                                  /\ fs[k].End <= b /\ fs[k].Start < fs[k].End
  <2>1. m.to <= hi
        BY <1>0, <1>1
  <2>2. PICK k \in DOMAIN fs : fs[k].Start = m.from - lo /\ fs[k].End = m.to - lo
        BY <1>1, <2>1 DEF Honest
  <2>3. ~Straddles(fs[k], b)
        OBVIOUS
  <2>4. fs[k].End <= b
        BY <1>0, <1>1, <2>2, <2>3 DEF Straddles
  <2> QED
        BY <1>0, <2>2, <2>4
<1>2. ASSUME NEW m \in Matches, m.from < lo + b, lo + b < m.to PROVE FALSE
  <2>1. CASE lo <= m.from
        BY <1>0, <1>1, <1>2, <2>1
  <2>2. CASE m.from < lo
    <3>1. lo < m.to
          BY <1>0, <1>2
    <3> QED
          BY <2>2, <3>1
  <2> QED
        BY <1>0, <2>1, <2>2
<1>3. ASSUME NEW x \in lo..(lo + b - 1), x \in Sensitive
      PROVE  x - lo \in Covered({f \in Range(fs) : f.End <= b}, b)
  <2>1. PICK m \in Matches : m.from <= x /\ x < m.to
        BY <1>3 DEF Sensitive
  <2>2. lo <= m.from
    <3>1. SUFFICES ASSUME m.from < lo PROVE FALSE
          BY <1>0
    <3>2. lo < m.to
          BY <1>0, <2>1
    <3> QED
          BY <3>1, <3>2
  <2>3. m.from < lo + b
        BY <1>0, <2>1
  <2>4. PICK k \in DOMAIN fs : /\ fs[k].Start = m.from - lo /\ fs[k].End = m.to - lo
                               /\ fs[k].End <= b /\ fs[k].Start < fs[k].End
        BY <1>1, <2>2, <2>3
  <2>5. fs[k] \in {f \in Range(fs) : f.End <= b}
        BY <2>4 DEF Range
  <2>6. Valid(fs[k], b)
        BY <1>0, <2>2, <2>4 DEF Valid
  <2>7. x - lo \in 0..(b - 1) /\ fs[k].Start <= x - lo /\ x - lo < fs[k].End
        BY <1>0, <2>1, <2>4
  <2> QED
        BY <2>5, <2>6, <2>7 DEF Covered
<1>4. ASSUME NEW x \in lo..(lo + b - 1),
             x - lo \in Covered({f \in Range(fs) : f.End <= b}, b)
      PROVE  x \in Sensitive
  <2>1. PICK f \in Range(fs) : f.Start <= x - lo /\ x - lo < f.End
        BY <1>4 DEF Covered
  <2>2. PICK k \in DOMAIN fs : f = fs[k]
        BY DEF Range
  <2>3. f.Start \in Int /\ f.End \in Int
        BY <2>2, HonestShort
  <2>4. PICK m \in Matches : m.from <= lo + f.Start /\ lo + f.End <= m.to
        BY <2>2 DEF Honest
  <2>5. m.from <= x /\ x < m.to
    <3>1. m.from \in Int /\ m.to \in Int /\ x \in Int /\ lo \in Int
          BY <1>0
    <3> QED
          BY <2>1, <2>3, <2>4, <3>1
  <2>6. x \in 0..(StreamLen - 1)
        BY <1>0, <2>5
  <2> QED
        BY <2>5, <2>6 DEF Sensitive
<1> QED
      BY <1>2, <1>3, <1>4

-----------------------------------------------------------------------------
(* Writing up to a clean boundary sends the sensitive bytes to masked and  *)
(* the others to raw.                                                      *)
LEMMA CleanWrite ==
    ASSUME NEW F, NEW b \in Nat, NEW k \in 0..b, base \in Nat, ChunkingTransparent,
           Write(F, b, k),
           \A x \in base..(base + b - 1) : x \in Sensitive <=> x - base \in Covered(F, b)
    PROVE  /\ ChunkingTransparent'
           /\ raw' = raw \cup (base..(base + k - 1) \ Sensitive)
<1>1. Hidden(F, b) = Covered(F, b)
      BY BufferAssumption DEF Hidden
<1>2. \A x \in base..(base + k - 1) : x \in Sensitive <=> x - base \in Hidden(F, b)
      BY <1>1
<1>3. /\ raw' = raw \cup {x \in base..(base + k - 1) : x - base \notin Hidden(F, b)}
      /\ masked' = masked \cup {x \in base..(base + k - 1) : x - base \in Hidden(F, b)}
      BY DEF Write
<1>4. raw' = raw \cup (base..(base + k - 1) \ Sensitive)
      BY <1>2, <1>3
<1>5. masked' \subseteq masked \cup Sensitive
      BY <1>2, <1>3
<1>6. (raw \cap Sensitive)' = raw' \cap Sensitive /\ (masked \subseteq Sensitive)' = (masked' \subseteq Sensitive)
      BY DEF Sensitive
<1> QED
      BY <1>4, <1>5, <1>6 DEF ChunkingTransparent, Sensitive

(* A step that writes nothing and leaves the buffer's start alone keeps    *)
(* both properties of the output.                                          *)
LEMMA QuietStep ==
    ASSUME GInv, base' = base, UNCHANGED outVars
    PROVE  NoSplit' /\ ChunkingTransparent'
BY DEF GInv, NoSplit, ChunkingTransparent, outVars, Sensitive

(* In flushPrefix the write of the findings to emit is a clean one, and    *)
(* its boundary splits no match.                                           *)
LEMMA EmitClean ==
    ASSUME IInv, GInv, pc = "emit"
    PROVE  /\ flushable \in Nat /\ flushable + Window <= got - base
           /\ \A m \in Matches : ~(m.from < base + flushable /\ base + flushable < m.to)
           /\ \A x \in base..(base + flushable - 1) :
                 x \in Sensitive <=> x - base \in Covered(emit, flushable)
<1>1. /\ base \in Nat /\ got \in 0..StreamLen /\ findings \in Seq(Finding)
      /\ flushable \in Nat /\ flushable + Window <= got - base
      BY SizesAssumption, SizesPositive DEF IInv, TypeOK, SliceInBounds, bufLen
<1>2. Honest(findings, base, got) /\ \A j \in DOMAIN findings : ~Straddles(findings[j], flushable)
      BY DEF GInv, ReportHonest, LoopClean
<1>3. \A m \in Matches : ~(m.from < base /\ base < m.to)
      BY DEF GInv, NoSplit
<1> QED
      BY <1>1, <1>2, <1>3, CleanBoundary DEF emit

(* The same for flushFinal, whose boundary is the end of the stream.       *)
LEMMA FinalClean ==
    ASSUME IInv, GInv, pc = "finalEmit"
    PROVE  /\ bufLen \in Nat /\ base + bufLen = StreamLen
           /\ \A x \in base..(base + bufLen - 1) :
                 x \in Sensitive <=> x - base \in Covered(Range(findings), bufLen)
<1>1. /\ base \in Nat /\ got \in 0..StreamLen /\ findings \in Seq(Finding)
      /\ got = StreamLen /\ bufLen \in Nat /\ bufLen = got - base
      BY SizesAssumption DEF IInv, TypeOK, Control, bufLen
<1>2. Honest(findings, base, got)
      BY DEF GInv, ReportHonest
<1>3. \A m \in Matches : ~(m.from < base /\ base < m.to)
      BY DEF GInv, NoSplit
<1>4. \A j \in DOMAIN findings : findings[j].End \in Int /\ findings[j].End <= bufLen
      BY <1>1, <1>2, HonestShort
<1>5. \A j \in DOMAIN findings : ~Straddles(findings[j], bufLen)
      BY <1>1, <1>4 DEF Straddles
<1>6. {f \in Range(findings) : f.End <= bufLen} = Range(findings)
      BY <1>4 DEF Range
<1>7. \A x \in base..(base + bufLen - 1) :
         x \in Sensitive <=>
         x - base \in Covered({f \in Range(findings) : f.End <= bufLen}, bufLen)
      BY <1>1, <1>2, <1>3, <1>5, CleanBoundary
<1> QED
      BY <1>1, <1>6, <1>7

LEMMA GuaranteeInit == Init => GInv
<1> SUFFICES ASSUME Init PROVE GInv
    OBVIOUS
<1>1. ReportHonest /\ LoopClean
      BY DEF Init, ReportHonest, LoopClean
<1>2. ShortTail
      BY SizesPositive DEF Init, ShortTail, bufLen
<1>3. NoSplit
      BY MatchesAssumption, SizesAssumption DEF Init, NoSplit
<1>4. ChunkingTransparent
      BY DEF Init, ChunkingTransparent
<1> QED
      BY <1>1, <1>2, <1>3, <1>4 DEF GInv

(* After the loop a boundary at or below 0 is the start of a finding at    *)
(* the head of the buffer, which is then shorter than two windows: the     *)
(* forced flush is out of reach.                                           *)
LEMMA NeverForced ==
    ASSUME IInv, GInv, pc = "pull", i > Len(findings)
    PROVE  /\ Boundary(flushable) = flushable
           /\ flushable <= 0 => bufLen < 2 * Window
<1>1. /\ base \in Nat /\ got \in Nat /\ findings \in Seq(Finding) /\ flushable \in Int
      /\ Window < got - base /\ Honest(findings, base, got) /\ PulledOnce
      BY SizesAssumption DEF IInv, TypeOK, LoopBound, GInv, ReportHonest, LoopClean, bufLen
<1>2. flushable <= 0 => bufLen < 2 * Window
  <2> SUFFICES ASSUME flushable <= 0 PROVE bufLen < 2 * Window
      OBVIOUS
  <2>1. PICK j \in DOMAIN findings : findings[j].Start = flushable
                                     /\ findings[j].End > bufLen - Window
        BY <1>1, SizesPositive DEF PulledOnce, bufLen
  <2>2. /\ findings[j].Start \in Int /\ findings[j].End \in Int
        /\ findings[j].End - findings[j].Start <= Window
        BY <1>1, HonestShort
  <2> QED
        BY <1>1, <2>1, <2>2, SizesPositive DEF bufLen
<1> QED
      BY <1>1, <1>2, BufferAssumption, SizesPositive DEF Boundary, bufLen

LEMMA GuaranteeStep == IInv /\ IInv' /\ GInv /\ [Next]_vars => GInv'
<1> SUFFICES ASSUME IInv, IInv', GInv, [Next]_vars PROVE GInv'
    OBVIOUS
<1> USE SizesAssumption, SizesPositive
<1>0. /\ base \in Nat /\ got \in Nat /\ base <= got /\ got <= StreamLen
      /\ flushable \in Int /\ i \in Nat \ {0} /\ findings \in Seq(Finding)
      BY DEF IInv, TypeOK
<1>1. CASE CtxDone
      BY <1>1, QuietStep DEF CtxDone, Return, GInv, ReportHonest, LoopClean, ShortTail
<1>2. CASE ReadAny
  <2> PICK n \in 0..ChunkMax, err \in {"nil", "EOF", "err"} : Read(n, err)
      BY <1>2 DEF ReadAny
  <2>1. NoSplit' /\ ChunkingTransparent'
        BY QuietStep DEF Read
  <2>2. ShortTail'
        BY <1>0 DEF Read, bufLen, GInv, ShortTail
  <2> QED
        BY <2>1, <2>2 DEF Read, GInv, ReportHonest, LoopClean
<1>3. CASE Flush
      BY <1>3, <1>0, QuietStep DEF Flush, GInv, ReportHonest, LoopClean, ShortTail, bufLen
<1>4. CASE CheckReadErr
      BY <1>4, <1>0, QuietStep
         DEF CheckReadErr, Return, GInv, ReportHonest, LoopClean, ShortTail, bufLen
<1>5. CASE ScanPrefix
  <2>1. NoSplit' /\ ChunkingTransparent'
        BY <1>5, QuietStep DEF ScanPrefix
  <2>2. CASE bufLen <= Window
    <3>1. ShortTail'
          BY <1>5, <1>0, <2>2 DEF ScanPrefix, ShortTail, bufLen
    <3> QED
          BY <1>5, <2>1, <2>2, <3>1 DEF ScanPrefix, GInv, ReportHonest, LoopClean
  <2>3. CASE ~(bufLen <= Window)
    <3>1. base' = base /\ got' = got /\ pc' = "pull" /\ i' = 1 /\ flushable' = bufLen' - Window
          BY <1>5, <2>3 DEF ScanPrefix, bufLen
    <3>2. Honest(findings', base, got)
          BY <1>5, <1>0, <2>3, HonestScanners DEF ScanPrefix, bufLen
    <3>3. ReportHonest'
          BY <3>1, <3>2 DEF ReportHonest, Honest
    <3>4. LoopClean'
      <4>1. findings' \in Seq(Finding)
            BY DEF IInv, TypeOK
      <4>2. \A j \in DOMAIN findings' : ~(j < i')
            BY <3>1, <4>1
      <4> QED
            BY <3>1, <4>2 DEF LoopClean, PulledOnce
    <3> QED
          BY <2>1, <3>1, <3>3, <3>4 DEF GInv, ShortTail
  <2> QED
        BY <2>2, <2>3
<1>6. CASE PullBack
  <2>0. /\ pc = "pull" /\ i \in DOMAIN findings /\ findings' = findings /\ i' = i + 1
        /\ base' = base /\ got' = got /\ pc' = "pull" /\ bufLen' = bufLen /\ bufLen \in Int
        /\ flushable' = IF Straddles(findings[i], flushable)
                        THEN findings[i].Start ELSE flushable
        BY <1>6, <1>0 DEF PullBack, bufLen
  <2>1. NoSplit' /\ ChunkingTransparent'
        BY <1>6, QuietStep DEF PullBack
  <2>2. Honest(findings, base, got)
        BY <2>0 DEF GInv, ReportHonest
  <2>3. ReportHonest'
        BY <2>0, <2>2 DEF ReportHonest, Honest
  <2>4. /\ \A j \in DOMAIN findings : j < i => ~Straddles(findings[j], flushable)
        /\ PulledOnce
        BY <2>0 DEF GInv, LoopClean
  <2>5. \A j \in DOMAIN findings : /\ j \in Nat
                                   /\ findings[j].Start \in Int /\ findings[j].End \in Int
                                   /\ findings[j].Start < findings[j].End
        BY <1>0, <2>2, HonestShort
  <2>6. CASE ~Straddles(findings[i], flushable)
    <3>1. flushable' = flushable /\ PulledOnce'
          BY <2>0, <2>4, <2>6 DEF PulledOnce
    <3>2. \A j \in DOMAIN findings : j < i + 1 => ~Straddles(findings[j], flushable)
          BY <1>0, <2>4, <2>5, <2>6
    <3> QED
          BY <2>0, <2>1, <2>3, <3>1, <3>2 DEF GInv, LoopClean, ShortTail, Straddles
  <2>7. CASE Straddles(findings[i], flushable)
    <3>1. flushable' = findings[i].Start
          BY <2>0, <2>7
    <3>2. \A j \in DOMAIN findings : j # i => Disjoint(findings[j], findings[i])
          BY <2>0, <2>2 DEF Honest
    <3>3. \A j \in DOMAIN findings : ~Straddles(findings[j], findings[i].Start)
          BY <2>0, <2>5, <3>2 DEF Straddles, Disjoint
    <3>4. flushable = bufLen - Window
      <4> SUFFICES ASSUME NEW j \in DOMAIN findings, findings[j].Start = flushable,
                          findings[j].End > bufLen - Window
                   PROVE  FALSE
          BY <2>4 DEF PulledOnce
      <4>1. j # i
            BY <1>0, <2>0, <2>5, <2>7 DEF Straddles
      <4> QED
            BY <1>0, <2>0, <2>5, <2>7, <3>2, <4>1 DEF Straddles, Disjoint
    <3>5. PulledOnce'
          BY <2>0, <2>7, <3>1, <3>4 DEF PulledOnce, Straddles
    <3> QED
          BY <2>0, <2>1, <2>3, <3>1, <3>3, <3>5 DEF GInv, LoopClean, ShortTail, Straddles
  <2> QED
        BY <2>6, <2>7
<1>7. CASE ChooseBoundary
  <2>0. /\ pc = "pull" /\ i > Len(findings) /\ base' = base /\ got' = got
        /\ bufLen' = bufLen
        BY <1>7 DEF ChooseBoundary, bufLen
  <2>1. NoSplit' /\ ChunkingTransparent'
        BY <1>7, QuietStep DEF ChooseBoundary
  <2>2. Boundary(flushable) = flushable /\ (flushable <= 0 => bufLen < 2 * Window)
        BY <2>0, NeverForced
  <2>3. CASE flushable <= 0
    <3>1. pc' = "flush"
          BY <1>7, <2>2, <2>3 DEF ChooseBoundary
    <3> QED
          BY <2>0, <2>1, <2>2, <2>3, <3>1 DEF GInv, ReportHonest, LoopClean, ShortTail
  <2>4. CASE ~(flushable <= 0)
    <3>1. pc' = "emit" /\ flushable' = flushable /\ findings' = findings
          BY <1>7, <2>2, <2>4 DEF ChooseBoundary
    <3>2. \A j \in DOMAIN findings : ~Straddles(findings[j], flushable)
      <4>1. \A j \in DOMAIN findings : j < i
            BY <1>0, <2>0
      <4> QED
            BY <2>0, <4>1 DEF GInv, LoopClean
    <3>3. LoopClean'
          BY <2>0, <3>1, <3>2 DEF GInv, LoopClean, PulledOnce, Straddles
    <3>4. ReportHonest'
          BY <2>0, <3>1 DEF GInv, ReportHonest, Honest
    <3> QED
          BY <2>1, <3>1, <3>3, <3>4 DEF GInv, ShortTail
  <2> QED
        BY <2>3, <2>4
<1>8. CASE EmitPrefix
  <2>0. /\ pc = "emit" /\ pc' = "flush" /\ base' = base + flushable /\ got' = got
        /\ Write(emit, flushable, flushable)
        BY <1>8 DEF EmitPrefix, Residual
  <2>1. /\ flushable \in Nat /\ flushable + Window <= got - base
        /\ \A m \in Matches : ~(m.from < base + flushable /\ base + flushable < m.to)
        /\ \A x \in base..(base + flushable - 1) :
              x \in Sensitive <=> x - base \in Covered(emit, flushable)
        BY <2>0, EmitClean
  <2>2. ChunkingTransparent'
    <3>1. flushable \in 0..flushable /\ ChunkingTransparent
          BY <2>1 DEF GInv
    <3> QED
          BY <1>0, <2>0, <2>1, <3>1, CleanWrite
  <2>3. NoSplit'
        BY <2>0, <2>1 DEF NoSplit
  <2>4. ShortTail'
    <3>1. PulledOnce /\ Honest(findings, base, got)
          BY <2>0 DEF GInv, LoopClean, ReportHonest
    <3>2. got - (base + flushable) < 2 * Window
      <4>1. CASE flushable = bufLen - Window
            BY <1>0, <2>1, <4>1 DEF bufLen
      <4>2. CASE \E j \in DOMAIN findings : findings[j].Start = flushable
                                            /\ findings[j].End > bufLen - Window
        <5> PICK j \in DOMAIN findings : findings[j].Start = flushable
                                         /\ findings[j].End > bufLen - Window
            BY <4>2
        <5>1. findings[j].End \in Int /\ findings[j].End - findings[j].Start <= Window
              BY <1>0, <3>1, HonestShort
        <5> QED
              BY <1>0, <2>1, <5>1 DEF bufLen
      <4> QED
            BY <3>1, <4>1, <4>2 DEF PulledOnce
    <3> QED
          BY <2>0, <3>2 DEF ShortTail, bufLen
  <2> QED
        BY <2>0, <2>2, <2>3, <2>4 DEF GInv, ReportHonest, LoopClean
<1>9. ASSUME NEW F, RedactFails(F) PROVE GInv'
      BY <1>9, QuietStep DEF RedactFails, Return, GInv, ReportHonest, LoopClean, ShortTail
<1>10. ASSUME NEW F, NEW n \in Nat, WriteFails(F, n),
              \A x \in base..(base + n - 1) : x \in Sensitive <=> x - base \in Covered(F, n)
       PROVE  GInv'
  <2> PICK k \in 0..n : Write(F, n, k)
      BY <1>10 DEF WriteFails
  <2>1. ChunkingTransparent'
        BY <1>0, <1>10, CleanWrite DEF GInv
  <2>2. NoSplit'
        BY <1>10 DEF WriteFails, GInv, NoSplit
  <2> QED
        BY <1>10, <2>1, <2>2 DEF WriteFails, Return, GInv, ReportHonest, LoopClean, ShortTail
<1>11. CASE EmitFails
       BY <1>11, <1>9, <1>10, EmitClean DEF EmitFails
<1>12. CASE FinalEmpty
       BY <1>12, QuietStep DEF FinalEmpty, Return, GInv, ReportHonest, LoopClean, ShortTail
<1>13. CASE ScanFinal
  <2>1. NoSplit' /\ ChunkingTransparent'
        BY <1>13, QuietStep DEF ScanFinal
  <2>2. Honest(findings', base, got)
        BY <1>13, <1>0, HonestScanners DEF ScanFinal, bufLen
  <2>3. ReportHonest'
        BY <1>13, <2>2 DEF ScanFinal, ReportHonest, Honest
  <2> QED
        BY <1>13, <2>1, <2>3 DEF ScanFinal, GInv, LoopClean, ShortTail
<1>14. CASE FinalEmit
  <2>0. /\ pc = "finalEmit" /\ pc' = "done" /\ base' = got
        /\ Write(Range(findings), bufLen, bufLen)
        BY <1>14 DEF FinalEmit, Return
  <2>1. /\ bufLen \in Nat /\ base + bufLen = StreamLen
        /\ \A x \in base..(base + bufLen - 1) :
              x \in Sensitive <=> x - base \in Covered(Range(findings), bufLen)
        BY <2>0, FinalClean
  <2>2. ChunkingTransparent'
    <3>1. bufLen \in 0..bufLen /\ ChunkingTransparent
          BY <2>1 DEF GInv
    <3> QED
          BY <1>0, <2>0, <2>1, <3>1, CleanWrite
  <2>3. NoSplit'
        BY <1>0, <2>0, <2>1, MatchesAssumption DEF NoSplit, bufLen
  <2> QED
        BY <2>0, <2>2, <2>3 DEF GInv, ReportHonest, LoopClean, ShortTail
<1>15. CASE FinalFails
       BY <1>15, <1>9, <1>10, FinalClean DEF FinalFails
<1>16. CASE UNCHANGED vars
       BY <1>16, QuietStep DEF vars, outVars, GInv, ReportHonest, LoopClean, ShortTail,
                    PulledOnce, Honest, bufLen
<1> QED
    BY <1>1, <1>2, <1>3, <1>4, <1>5, <1>6, <1>7, <1>8, <1>11, <1>12, <1>13, <1>14,
       <1>15, <1>16 DEF Next, Step, FlushFinal, Done

THEOREM GuaranteeInvariant == Spec => []GInv
<1>1. Init => GInv
      BY GuaranteeInit
<1>2. IInv /\ IInv' /\ GInv /\ [Next]_vars => GInv'
      BY GuaranteeStep
<1> QED
      BY <1>1, <1>2, InductiveInvariant, PTL DEF Spec

(* No boundary of a flush cuts a match in two.                             *)
THEOREM MatchesStayWhole == Spec => []NoSplit
<1>1. GInv => NoSplit
      BY DEF GInv
<1> QED
      BY <1>1, GuaranteeInvariant, PTL

(* No byte of a match reaches the client in the clear, and no other byte   *)
(* is hidden from it.                                                      *)
THEOREM NothingLeaks == Spec => []ChunkingTransparent
<1>1. GInv => ChunkingTransparent
      BY DEF GInv
<1> QED
      BY <1>1, GuaranteeInvariant, PTL

(* The tail kept between two Reads is shorter than two windows.            *)
THEOREM TailBounded == Spec => []BoundedTail
<1>1. GInv => BoundedTail
      BY DEF GInv, ShortTail, BoundedTail
<1> QED
      BY <1>1, GuaranteeInvariant, PTL

-----------------------------------------------------------------------------
(* The frontier of a failed Write is determined by what was delivered.     *)
LEMMA FrontierUnique ==
    ASSUME NEW b \in Nat, NEW g \in Nat, NEW n \in b..g, NEW D, D = 0..(n - 1)
    PROVE  (CHOOSE m \in b..g : D = 0..(m - 1)) = n
<1>1. ASSUME NEW m \in b..g, D = 0..(m - 1) PROVE m = n
  <2>1. CASE m < n
    <3>1. n - 1 \in D /\ n - 1 \notin 0..(m - 1)
          BY <2>1
    <3> QED
          BY <1>1, <3>1
  <2>2. CASE n < m
    <3>1. m - 1 \in 0..(m - 1) /\ m - 1 \notin D
          BY <2>2
    <3> QED
          BY <1>1, <3>1
  <2> QED
        BY <2>1, <2>2
<1> QED
      BY <1>1

LEMMA CopyStarts == Init => Copy!CopyInit
BY DEF Init, Copy!CopyInit, Frontier, Outcome

(* A step that writes nothing and does not return maps to a stutter.       *)
LEMMA CopyStutters ==
    ASSUME base' = base, UNCHANGED outVars, result' = result, result # "write"
    PROVE  UNCHANGED Copy!copyVars
BY DEF outVars, Copy!copyVars, Frontier, Outcome

(* A step that writes nothing and returns an error truncates the copy.     *)
LEMMA CopyGivesUp ==
    ASSUME IInv, base' = base, UNCHANGED outVars, result = "running",
           result' \in {"ctx", "read", "redactor"}
    PROVE  Copy!Truncate
<1>1. base \in Nat /\ base \in base..StreamLen
      BY SizesAssumption DEF IInv, TypeOK
<1>2. Frontier = base /\ Frontier' = base /\ Outcome = "open" /\ Outcome' = "truncated"
      BY DEF Frontier, Outcome
<1>3. raw' = raw \cup ((base..(base - 1)) \ Sensitive)
      BY <1>1 DEF outVars
<1> QED
      BY <1>1, <1>2, <1>3 DEF Copy!Truncate, Copy!Deliver

(* A failed Write delivers part of what it was given and truncates.        *)
LEMMA CopyCutShort ==
    ASSUME IInv, GInv, pc \in {"emit", "finalEmit"},
           NEW F, NEW n \in 0..bufLen, WriteFails(F, n),
           \A x \in base..(base + n - 1) : x \in Sensitive <=> x - base \in Covered(F, n)
    PROVE  Copy!Truncate
<1> PICK k \in 0..n : Write(F, n, k)
    BY DEF WriteFails
<1>0. base \in Nat /\ got \in Nat /\ base <= got /\ got <= StreamLen
      BY SizesAssumption DEF IInv, TypeOK
<1>1. n \in Nat /\ k \in Nat /\ base + k \in base..got /\ base + k \in base..StreamLen
      BY <1>0, SizesAssumption DEF bufLen
<1>2. base' = base /\ got' = got /\ result' = "write" /\ result = "running"
      BY DEF WriteFails, Return, IInv, Control
<1>3. raw' = raw \cup ((base..((base + k) - 1)) \ Sensitive)
  <2>1. ChunkingTransparent
        BY DEF GInv
  <2> QED
        BY <1>0, <1>1, <2>1, CleanWrite
<1>4. Delivered' = 0..((base + k) - 1)
      BY <1>0, <1>1, <1>2, WriteDelivers DEF IInv, DeliveredOnce
<1>5. (CHOOSE m \in base..got : Delivered' = 0..(m - 1)) = base + k
      BY <1>0, <1>1, <1>4, FrontierUnique
<1>6. Frontier = base /\ Outcome = "open" /\ Frontier' = base + k /\ Outcome' = "truncated"
      BY <1>2, <1>5 DEF Frontier, Outcome
<1> QED
      BY <1>1, <1>3, <1>6 DEF Copy!Truncate, Copy!Deliver

LEMMA CopyStep ==
    IInv /\ GInv /\ [Next]_vars => [Copy!CopyNext]_(Copy!copyVars)
<1> SUFFICES ASSUME IInv, GInv, [Next]_vars
             PROVE  Copy!CopyNext \/ UNCHANGED Copy!copyVars
    OBVIOUS
<1>0. /\ base \in Nat /\ got \in Nat /\ base <= got /\ got <= StreamLen
      /\ pc # "done" => result = "running"
      BY SizesAssumption DEF IInv, TypeOK, Control
<1>1. CASE CtxDone
      BY <1>1, <1>0, CopyGivesUp DEF CtxDone, Return, Copy!CopyNext
<1>2. CASE ReadAny
      BY <1>2, <1>0, CopyStutters DEF ReadAny, Read
<1>3. CASE Flush \/ ScanPrefix \/ PullBack \/ ChooseBoundary \/ ScanFinal
      BY <1>3, <1>0, CopyStutters DEF Flush, ScanPrefix, PullBack, ChooseBoundary, ScanFinal
<1>4. CASE CheckReadErr
      BY <1>4, <1>0, CopyStutters, CopyGivesUp DEF CheckReadErr, Return, Copy!CopyNext
<1>5. CASE EmitPrefix
  <2>0. /\ pc = "emit" /\ base' = base + flushable /\ result' = result /\ result = "running"
        /\ Write(emit, flushable, flushable)
        BY <1>5, <1>0 DEF EmitPrefix, Residual
  <2>1. /\ flushable \in Nat /\ flushable + Window <= got - base
        /\ \A x \in base..(base + flushable - 1) :
              x \in Sensitive <=> x - base \in Covered(emit, flushable)
        BY <2>0, EmitClean
  <2>2. flushable \in 0..flushable /\ base + flushable \in base..StreamLen
        BY <1>0, <2>1, SizesAssumption, SizesPositive
  <2>3. raw' = raw \cup ((base..((base + flushable) - 1)) \ Sensitive)
        BY <1>0, <2>0, <2>1, <2>2, CleanWrite DEF GInv
  <2>4. Frontier = base /\ Frontier' = base + flushable /\ Outcome = "open" /\ Outcome' = "open"
        BY <2>0 DEF Frontier, Outcome
  <2>5. Copy!Progress
        BY <2>2, <2>3, <2>4 DEF Copy!Progress, Copy!Deliver
  <2> QED
        BY <2>5 DEF Copy!CopyNext
<1>6. CASE EmitFails
  <2>1. CASE RedactFails(emit)
        BY <1>0, <1>6, <2>1, CopyGivesUp DEF EmitFails, RedactFails, Return, Copy!CopyNext
  <2>2. CASE WriteFails(emit, flushable)
    <3>1. pc = "emit"
          BY <1>6 DEF EmitFails
    <3>2. flushable \in 0..bufLen
          BY <1>0, <3>1, EmitClean, SizesPositive DEF bufLen
    <3> QED
          BY <2>2, <3>1, <3>2, EmitClean, CopyCutShort DEF Copy!CopyNext
  <2> QED
        BY <1>6, <2>1, <2>2 DEF EmitFails
<1>7. CASE FinalEmpty
  <2>1. /\ base' = base /\ result = "running" /\ result' = "ok" /\ raw' = raw
        /\ base = StreamLen
        BY <1>7, <1>0 DEF FinalEmpty, Return, outVars, bufLen, IInv, Control
  <2>2. raw' = raw \cup ((base..(StreamLen - 1)) \ Sensitive)
        BY <1>0, <2>1
  <2>3. Frontier = base /\ Frontier' = StreamLen /\ Outcome = "open" /\ Outcome' = "complete"
        BY <2>1 DEF Frontier, Outcome
  <2> QED
        BY <2>2, <2>3 DEF Copy!CopyNext, Copy!Complete, Copy!Deliver
<1>8. CASE FinalEmit
  <2>0. /\ pc = "finalEmit" /\ base' = got /\ result' = "ok" /\ result = "running"
        /\ Write(Range(findings), bufLen, bufLen)
        BY <1>8, <1>0 DEF FinalEmit, Return
  <2>1. /\ bufLen \in Nat /\ base + bufLen = StreamLen
        /\ \A x \in base..(base + bufLen - 1) :
              x \in Sensitive <=> x - base \in Covered(Range(findings), bufLen)
        BY <2>0, FinalClean
  <2>2. bufLen \in 0..bufLen /\ got = StreamLen
        BY <1>0, <2>1 DEF bufLen
  <2>3. raw' = raw \cup ((base..((base + bufLen) - 1)) \ Sensitive)
    <3>1. ChunkingTransparent
          BY DEF GInv
    <3> QED
          BY <1>0, <2>0, <2>1, <2>2, <3>1, CleanWrite
  <2>4. Frontier = base /\ Frontier' = StreamLen /\ Outcome = "open" /\ Outcome' = "complete"
        BY <2>0, <2>2 DEF Frontier, Outcome
  <2> QED
        BY <2>1, <2>3, <2>4 DEF Copy!CopyNext, Copy!Complete, Copy!Deliver
<1>9. CASE FinalFails
  <2>1. CASE RedactFails(Range(findings))
        BY <1>0, <1>9, <2>1, CopyGivesUp DEF FinalFails, RedactFails, Return, Copy!CopyNext
  <2>2. CASE WriteFails(Range(findings), bufLen)
    <3>1. pc = "finalEmit"
          BY <1>9 DEF FinalFails
    <3>2. bufLen \in 0..bufLen
          BY <1>0 DEF bufLen
    <3> QED
          BY <2>2, <3>1, <3>2, FinalClean, CopyCutShort DEF Copy!CopyNext
  <2> QED
        BY <1>9, <2>1, <2>2 DEF FinalFails
<1>10. CASE UNCHANGED vars
       BY <1>10 DEF vars, Copy!copyVars, Frontier, Outcome, Delivered
<1> QED
    BY <1>1, <1>2, <1>3, <1>4, <1>5, <1>6, <1>7, <1>8, <1>9, <1>10 DEF Next, Step, FlushFinal, Done

(* Pipe implements RedactedCopy: the bytes the client gets, and when it    *)
(* gets them, are those of a copy that knows the matches in advance.       *)
THEOREM PipeImplementsCopy == Spec => ImplementsCopy
<1>1. Init => Copy!CopyInit
      BY CopyStarts
<1>2. IInv /\ GInv /\ [Next]_vars => [Copy!CopyNext]_(Copy!copyVars)
      BY CopyStep
<1> QED
      BY <1>1, <1>2, InductiveInvariant, GuaranteeInvariant, PTL
         DEF Spec, ImplementsCopy, Copy!CopySpec
=============================================================================
