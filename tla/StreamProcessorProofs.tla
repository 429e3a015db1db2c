------------------------ MODULE StreamProcessorProofs ------------------------
(***************************************************************************)
(* What StreamProcessor guarantees for every scanner, every window, buffer *)
(* and chunk size, every stream length and every way of cutting it.        *)
(***************************************************************************)
EXTENDS StreamProcessor, TLAPS

(* Control facts the properties rest on: Pipe has a result exactly when it *)
(* is done, EOF is only reported at the end of the stream, and the final   *)
(* flush runs after EOF.                                                   *)
Control ==
    /\ (result = "running") <=> (pc # "done")
    /\ readErr = "EOF" => got = StreamLen
    /\ pc \in {"final", "finalEmit"} => got = StreamLen
    /\ result = "ok" => got = StreamLen /\ base = got

(* Inside the pull-back loop the boundary never exceeds the first one.     *)
LoopBound == pc = "pull" => Window < bufLen /\ flushable <= bufLen - Window

(* Nothing is written before the window is full, and from then on a window *)
(* of bytes stays in the buffer.                                           *)
TailKept == result # "ok" => base = 0 \/ base + Window <= got

IInv ==
    /\ TypeOK
    /\ Control
    /\ LoopBound
    /\ SliceInBounds
    /\ TailKept
    /\ DeliveredOnce

LEMMA SizesPositive == Window \in Nat \ {0} /\ MaxBuffer \in Nat \ {0}
BY SizesAssumption DEF Window, MaxBuffer, DefaultWindow

LEMMA IntervalGrows ==
    ASSUME NEW a \in Int, NEW b \in Int, a <= b
    PROVE  0..(a - 1) \subseteq 0..(b - 1)
OBVIOUS

(* One Write moves the delivered prefix on by k bytes, each in one set.    *)
LEMMA WriteDelivers ==
    ASSUME NEW fs, NEW n, NEW k \in Nat, base \in Nat,
           Delivered = 0..(base - 1), raw \cap masked = {},
           Write(fs, n, k)
    PROVE  /\ Delivered' = 0..(base + k - 1)
           /\ (raw \cap masked)' = {}
           /\ raw' \subseteq 0..(base + k - 1)
           /\ masked' \subseteq 0..(base + k - 1)
<1> DEFINE H == Hidden(fs, n)
<1>1. /\ raw' = raw \cup {x \in base..(base + k - 1) : x - base \notin H}
      /\ masked' = masked \cup {x \in base..(base + k - 1) : x - base \in H}
      BY DEF Write
<1>2. raw \cup masked = 0..(base - 1)
      BY DEF Delivered
<1> HIDE DEF H
<1>3. raw' \cup masked' = 0..(base + k - 1)
      BY <1>1, <1>2
<1>4. raw' \cap masked' = {}
      BY <1>1, <1>2
<1> QED
      BY <1>3, <1>4 DEF Delivered

LEMMA InitEstablishes == Init => IInv
<1> SUFFICES ASSUME Init PROVE IInv
    OBVIOUS
<1> USE SizesAssumption, SizesPositive DEF Init
<1>0. findings \in Seq(Finding) /\ i \in Nat \ {0} /\ flushable \in Int
      OBVIOUS
<1>1. TypeOK
  <2>1. base \in 0..StreamLen /\ got \in base..StreamLen
        OBVIOUS
  <2>2. raw \subseteq 0..(got - 1) /\ masked \subseteq 0..(got - 1)
        OBVIOUS
  <2> QED
        BY <1>0, <2>1, <2>2 DEF TypeOK
<1>2. Control /\ LoopBound /\ SliceInBounds /\ TailKept
      BY DEF Control, LoopBound, SliceInBounds, TailKept
<1>3. DeliveredOnce
      BY DEF DeliveredOnce, Delivered
<1> QED
      BY <1>1, <1>2, <1>3 DEF IInv

(* The facts about the sets of a call that writes nothing.                 *)
LEMMA NothingWritten ==
    ASSUME IInv, base' = base, got' \in got..StreamLen, UNCHANGED outVars,
           result # "write", result' # "write"
    PROVE  /\ DeliveredOnce'
           /\ raw' \subseteq 0..(got' - 1)
           /\ masked' \subseteq 0..(got' - 1)
<1>1. DeliveredOnce'
      BY DEF IInv, DeliveredOnce, Delivered, outVars
<1>2. got \in Int /\ got' \in Int /\ got <= got'
      BY SizesAssumption DEF IInv, TypeOK
<1>3. 0..(got - 1) \subseteq 0..(got' - 1)
      BY <1>2, IntervalGrows
<1>4. raw' = raw /\ masked' = masked /\ raw \subseteq 0..(got - 1) /\ masked \subseteq 0..(got - 1)
      BY DEF IInv, TypeOK, outVars
<1> QED
      BY <1>1, <1>3, <1>4

LEMMA StepPreserves == IInv /\ [Next]_vars => IInv'
<1> SUFFICES ASSUME IInv, [Next]_vars PROVE IInv'
    OBVIOUS
<1> USE SizesAssumption, SizesPositive
<1>0. /\ base \in Nat /\ got \in Nat /\ base <= got /\ got <= StreamLen
      /\ flushable \in Int /\ i \in Nat \ {0}
      /\ findings \in Seq(Finding)
      BY DEF IInv, TypeOK
<1>scope. ASSUME LeaveScope
          PROVE  findings' \in Seq(Finding) /\ i' \in Nat \ {0} /\ flushable' \in Int
          BY <1>scope DEF LeaveScope
<1>1. CASE CtxDone
  <2>1. DeliveredOnce' /\ raw' \subseteq 0..(got' - 1) /\ masked' \subseteq 0..(got' - 1)
        BY <1>1, <1>0, NothingWritten DEF CtxDone, Return, IInv, Control
  <2>2. TypeOK'
        BY <1>1, <2>1 DEF CtxDone, Return, scanVars, IInv, TypeOK
  <2> QED
        BY <1>1, <2>1, <2>2 DEF CtxDone, Return, scanVars, IInv, Control,
                                LoopBound, SliceInBounds, TailKept
<1>2. CASE ReadAny
  <2> PICK n \in 0..ChunkMax, err \in {"nil", "EOF", "err"} : Read(n, err)
      BY <1>2 DEF ReadAny
  <2>1. n \in Nat /\ got' = got + n /\ got' \in got..StreamLen
        BY <1>0 DEF Read
  <2>2. DeliveredOnce' /\ raw' \subseteq 0..(got' - 1) /\ masked' \subseteq 0..(got' - 1)
        BY <2>1, NothingWritten DEF Read, IInv, Control
  <2>3. TypeOK'
        BY <1>0, <2>1, <2>2 DEF Read, scanVars, IInv, TypeOK
  <2>4. Control' /\ LoopBound' /\ SliceInBounds'
        BY <1>0, <2>1 DEF Read, scanVars, IInv, Control, LoopBound, SliceInBounds
  <2>5. TailKept'
        BY <1>0, <2>1 DEF Read, IInv, TailKept
  <2> QED
        BY <2>2, <2>3, <2>4, <2>5 DEF IInv
<1>3. CASE Flush
  <2>1. DeliveredOnce' /\ raw' \subseteq 0..(got' - 1) /\ masked' \subseteq 0..(got' - 1)
        BY <1>3, <1>0, NothingWritten DEF Flush, IInv, Control
  <2>2. TypeOK'
        BY <1>3, <2>1 DEF Flush, scanVars, IInv, TypeOK
  <2> QED
        BY <1>3, <2>1, <2>2 DEF Flush, IInv, Control, LoopBound, SliceInBounds, TailKept
<1>4. CASE CheckReadErr
  <2>1. DeliveredOnce' /\ raw' \subseteq 0..(got' - 1) /\ masked' \subseteq 0..(got' - 1)
        BY <1>4, <1>0, NothingWritten DEF CheckReadErr, Return, IInv, Control
  <2>2. TypeOK'
        BY <1>4, <2>1 DEF CheckReadErr, Return, scanVars, IInv, TypeOK
  <2> QED
        BY <1>4, <2>1, <2>2 DEF CheckReadErr, Return, IInv, Control, LoopBound,
                                SliceInBounds, TailKept
<1>5. CASE ScanPrefix
  <2>1. DeliveredOnce' /\ raw' \subseteq 0..(got' - 1) /\ masked' \subseteq 0..(got' - 1)
        BY <1>5, <1>0, NothingWritten DEF ScanPrefix, IInv, Control
  <2>2. CASE bufLen <= Window
        BY <1>5, <2>1, <2>2 DEF ScanPrefix, scanVars, IInv, TypeOK, Control, LoopBound,
                                SliceInBounds, TailKept
  <2>3. CASE ~(bufLen <= Window)
    <3>1. findings' \in Seq(Finding)
          BY <1>5, <1>0, <2>3, ScansAssumption DEF ScanPrefix, bufLen
    <3>2. TypeOK'
          BY <1>5, <1>0, <2>1, <2>3, <3>1 DEF ScanPrefix, bufLen, IInv, TypeOK
    <3> QED
          BY <1>5, <1>0, <2>1, <2>3, <3>2 DEF ScanPrefix, bufLen, IInv, Control,
                                              LoopBound, SliceInBounds, TailKept
  <2> QED
        BY <2>2, <2>3
<1>6. CASE PullBack
  <2>1. DeliveredOnce' /\ raw' \subseteq 0..(got' - 1) /\ masked' \subseteq 0..(got' - 1)
        BY <1>6, <1>0, NothingWritten DEF PullBack, IInv, Control
  <2>2. findings[i].Start \in Int
    <3>1. i \in 1..Len(findings)
          BY <1>6, <1>0 DEF PullBack
    <3>2. findings[i] \in Finding
          BY <1>0, <3>1
    <3> QED
          BY <3>2 DEF Finding
  <2>3. flushable' \in Int /\ flushable' <= flushable
        BY <1>6, <1>0, <2>2 DEF PullBack, Straddles
  <2>4. TypeOK'
        BY <1>6, <1>0, <2>1, <2>3 DEF PullBack, IInv, TypeOK
  <2> QED
        BY <1>6, <1>0, <2>1, <2>3, <2>4 DEF PullBack, bufLen, IInv, Control, LoopBound,
                                           SliceInBounds, TailKept
<1>7. CASE ChooseBoundary
  <2>1. DeliveredOnce' /\ raw' \subseteq 0..(got' - 1) /\ masked' \subseteq 0..(got' - 1)
        BY <1>7, <1>0, NothingWritten DEF ChooseBoundary, IInv, Control
  <2>2. Boundary(flushable) \in Int /\ Boundary(flushable) <= bufLen - Window
        BY <1>7, <1>0 DEF ChooseBoundary, Boundary, bufLen, IInv, LoopBound
  <2>3. TypeOK'
        BY <1>7, <1>0, <1>scope, <2>1, <2>2 DEF ChooseBoundary, IInv, TypeOK
  <2> QED
        BY <1>7, <1>0, <2>1, <2>2, <2>3 DEF ChooseBoundary, bufLen, IInv, Control,
                                           LoopBound, SliceInBounds, TailKept
<1>8. CASE EmitPrefix
  <2>1. flushable \in Nat /\ flushable <= got - base - Window
        BY <1>8, <1>0 DEF EmitPrefix, IInv, SliceInBounds, bufLen
  <2>2. Delivered = 0..(base - 1) /\ raw \cap masked = {}
        BY <1>8 DEF EmitPrefix, IInv, DeliveredOnce, Control
  <2>3. /\ Delivered' = 0..(base + flushable - 1)
        /\ (raw \cap masked)' = {}
        /\ raw' \subseteq 0..(base + flushable - 1)
        /\ masked' \subseteq 0..(base + flushable - 1)
        BY <1>8, <1>0, <2>1, <2>2, WriteDelivers DEF EmitPrefix
  <2>4. base' = base + flushable /\ got' = got /\ result' = result /\ result = "running"
        BY <1>8 DEF EmitPrefix, Residual, IInv, Control
  <2>5. 0..(base + flushable - 1) \subseteq 0..(got - 1)
        BY <1>0, <2>1
  <2>6. TypeOK'
    <3>1. raw' \subseteq 0..(got' - 1) /\ masked' \subseteq 0..(got' - 1)
          BY <2>3, <2>4, <2>5
    <3>2. base' \in 0..StreamLen /\ got' \in base'..StreamLen
          BY <1>0, <2>1, <2>4
    <3> QED
          BY <1>8, <1>scope, <2>4, <3>1, <3>2 DEF EmitPrefix, IInv, TypeOK
  <2>7. DeliveredOnce'
    <3>1. Delivered' = 0..(base' - 1)
      <4>1. base' \in Int /\ base' - 1 = base + flushable - 1
            BY <1>0, <2>1, <2>4
      <4> QED
            BY <2>3, <4>1
    <3> QED
          BY <2>3, <2>4, <3>1 DEF DeliveredOnce
  <2> QED
        BY <1>8, <1>0, <2>1, <2>4, <2>6, <2>7 DEF EmitPrefix, IInv, Control, LoopBound,
                                                  SliceInBounds, TailKept
<1>9. ASSUME NEW fs, RedactFails(fs), LeaveScope, pc \in {"emit", "finalEmit"} PROVE IInv'
  <2>1. DeliveredOnce' /\ raw' \subseteq 0..(got' - 1) /\ masked' \subseteq 0..(got' - 1)
        BY <1>9, <1>0, NothingWritten DEF RedactFails, Return, IInv, Control
  <2>2. TypeOK'
        BY <1>9, <1>0, <1>scope, <2>1 DEF RedactFails, Return, IInv, TypeOK
  <2> QED
        BY <1>9, <2>1, <2>2 DEF RedactFails, Return, IInv, Control, LoopBound,
                                SliceInBounds, TailKept
<1>10. ASSUME NEW fs, NEW n \in 0..bufLen, WriteFails(fs, n), LeaveScope,
              pc \in {"emit", "finalEmit"}
       PROVE  IInv'
  <2> PICK k \in 0..n : Write(fs, n, k) /\ unflushed' = (unflushed \/ k > 0)
      BY <1>10 DEF WriteFails
  <2>1. Delivered = 0..(base - 1) /\ raw \cap masked = {}
        BY <1>10 DEF IInv, DeliveredOnce, Control
  <2>2. k \in Nat /\ base + k \in base..got
        BY <1>10, <1>0 DEF bufLen
  <2>3. /\ Delivered' = 0..(base + k - 1)
        /\ (raw \cap masked)' = {}
        /\ raw' \subseteq 0..(base + k - 1)
        /\ masked' \subseteq 0..(base + k - 1)
        BY <1>0, <2>1, <2>2, WriteDelivers
  <2>4. base' = base /\ got' = got /\ result' = "write" /\ pc' = "done"
        BY <1>10 DEF WriteFails, Return
  <2>5. DeliveredOnce'
    <3>1. base + k \in base'..got' /\ Delivered' = 0..((base + k) - 1)
          BY <1>0, <2>2, <2>3, <2>4
    <3> QED
          BY <2>3, <2>4, <3>1 DEF DeliveredOnce
  <2>6. 0..(base + k - 1) \subseteq 0..(got - 1)
        BY <1>0, <2>2
  <2>7. unflushed' \in BOOLEAN
        OBVIOUS
  <2>8. TypeOK'
        BY <1>10, <1>0, <1>scope, <2>3, <2>4, <2>6, <2>7 DEF WriteFails, IInv, TypeOK
  <2> QED
        BY <1>10, <1>0, <2>4, <2>5, <2>8 DEF WriteFails, IInv, Control, LoopBound,
                                            SliceInBounds, TailKept
<1>11. CASE EmitFails
  <2>1. flushable \in 0..bufLen
        BY <1>11, <1>0 DEF EmitFails, IInv, SliceInBounds, bufLen
  <2> QED
        BY <1>11, <1>9, <1>10, <2>1 DEF EmitFails
<1>12. CASE FinalEmpty
  <2>1. DeliveredOnce' /\ raw' \subseteq 0..(got' - 1) /\ masked' \subseteq 0..(got' - 1)
        BY <1>12, <1>0, NothingWritten DEF FinalEmpty, Return, IInv, Control
  <2>2. TypeOK'
        BY <1>12, <2>1 DEF FinalEmpty, Return, scanVars, IInv, TypeOK
  <2> QED
        BY <1>12, <1>0, <2>1, <2>2 DEF FinalEmpty, Return, bufLen, IInv, Control,
                                      LoopBound, SliceInBounds, TailKept
<1>13. CASE ScanFinal
  <2>1. DeliveredOnce' /\ raw' \subseteq 0..(got' - 1) /\ masked' \subseteq 0..(got' - 1)
        BY <1>13, <1>0, NothingWritten DEF ScanFinal, IInv, Control
  <2>2. findings' \in Seq(Finding)
        BY <1>13, <1>0, ScansAssumption DEF ScanFinal, bufLen
  <2>3. TypeOK'
        BY <1>13, <2>1, <2>2 DEF ScanFinal, IInv, TypeOK
  <2> QED
        BY <1>13, <2>1, <2>3 DEF ScanFinal, IInv, Control, LoopBound, SliceInBounds, TailKept
<1>14. CASE FinalEmit
  <2>1. Delivered = 0..(base - 1) /\ raw \cap masked = {}
        BY <1>14 DEF FinalEmit, IInv, DeliveredOnce, Control
  <2>2. bufLen \in Nat /\ base + bufLen = got
        BY <1>0 DEF bufLen
  <2>3. /\ Delivered' = 0..(got - 1)
        /\ (raw \cap masked)' = {}
        /\ raw' \subseteq 0..(got - 1)
        /\ masked' \subseteq 0..(got - 1)
        BY <1>14, <1>0, <2>1, <2>2, WriteDelivers DEF FinalEmit
  <2>4. base' = got /\ got' = got /\ result' = "ok" /\ pc' = "done"
        BY <1>14 DEF FinalEmit, Return
  <2>5. TypeOK'
        BY <1>14, <1>0, <1>scope, <2>3, <2>4 DEF FinalEmit, IInv, TypeOK
  <2>6. DeliveredOnce'
        BY <2>3, <2>4 DEF DeliveredOnce
  <2> QED
        BY <1>14, <2>4, <2>5, <2>6 DEF FinalEmit, IInv, Control, LoopBound,
                                       SliceInBounds, TailKept
<1>15. CASE FinalFails
  <2>1. bufLen \in 0..bufLen
        BY <1>0 DEF bufLen
  <2> QED
        BY <1>15, <1>9, <1>10, <2>1 DEF FinalFails
<1>16. CASE UNCHANGED vars
       BY <1>16 DEF vars, IInv, TypeOK, Control, LoopBound, SliceInBounds, TailKept,
                    DeliveredOnce, Delivered, bufLen
<1> QED
    BY <1>1, <1>2, <1>3, <1>4, <1>5, <1>6, <1>7, <1>8, <1>11, <1>12, <1>13, <1>14,
       <1>15, <1>16 DEF Next, Step, FlushFinal, Done

THEOREM InductiveInvariant == Spec => []IInv
<1>1. Init => IInv
      BY InitEstablishes
<1>2. IInv /\ [Next]_vars => IInv'
      BY StepPreserves
<1> QED
      BY <1>1, <1>2, PTL DEF Spec

(* Every reachable state of Pipe is well typed: in particular the buffer   *)
(* never starts after its end and never runs past what was read.           *)
THEOREM TypeCorrect == Spec => []TypeOK
<1>1. IInv => TypeOK
      BY DEF IInv
<1> QED
      BY <1>1, InductiveInvariant, PTL

(* flushPrefix never slices out of range, whatever the scanners report.    *)
THEOREM SlicesSafe == Spec => []SliceInBounds
<1>1. IInv => SliceInBounds
      BY DEF IInv
<1> QED
      BY <1>1, InductiveInvariant, PTL

(* Every byte reaches the client once and in order.                        *)
THEOREM DeliveryExact == Spec => []DeliveredOnce
<1>1. IInv => DeliveredOnce
      BY DEF IInv
<1> QED
      BY <1>1, InductiveInvariant, PTL

(* The last Window bytes read are held back until EOF.                     *)
THEOREM WindowKept == Spec => []WindowHeldBack
<1>1. IInv => WindowHeldBack
  <2> SUFFICES ASSUME IInv, result \notin {"ok", "write"}, NEW x \in Delivered
               PROVE  x < got - Window
      BY DEF WindowHeldBack
  <2>1. x \in 0..(base - 1)
        BY DEF IInv, DeliveredOnce
  <2> QED
        BY <2>1, SizesPositive, SizesAssumption DEF IInv, TailKept, TypeOK
<1> QED
      BY <1>1, InductiveInvariant, PTL

(* A successful Pipe has delivered the whole stream.                       *)
THEOREM SuccessComplete == Spec => []CompleteOnSuccess
<1>1. IInv => CompleteOnSuccess
      BY DEF IInv, CompleteOnSuccess, Control, DeliveredOnce
<1> QED
      BY <1>1, InductiveInvariant, PTL
=============================================================================
