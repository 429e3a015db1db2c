--------------------------- MODULE PipelineProofs ---------------------------
(***************************************************************************)
(* Theorems about Pipeline, for any number of scanners and views, any      *)
(* tables and any reports.                                                 *)
(***************************************************************************)
EXTENDS Pipeline, SequenceTheorems, WellFoundedInduction, TLAPS

-----------------------------------------------------------------------------
(***************************************************************************)
(* The inductive invariant.                                                *)
(***************************************************************************)
ScanTypes ==
    /\ pc \in {"scan", "wait", "next", "merge", "process", "redact", "done"}
    /\ pass \in 0..NumViews
    /\ empty \in BOOLEAN /\ scanErr \in BOOLEAN /\ redactErr \in BOOLEAN
    /\ active \subseteq View
    /\ running \subseteq Scanner
    /\ results \in [Scanner -> Report]
    /\ extra \in Seq(Finding) /\ findings \in Seq(Finding)
    /\ k \in Nat \ {0}
    /\ reported \subseteq Scanner \X (0..NumViews) \X Report

Span == [from : Nat, to : Nat]

MaskTypes ==
    /\ valid \in Seq(Finding) /\ sorted \in Seq(Finding)
    /\ merged \in Seq(Span)
    /\ j \in Nat \ {0} /\ pos \in Nat /\ out \in Seq(Int)

\* Redact runs once, after the scan, and a redactor's error is the last step.
Control ==
    /\ pc \in {"scan", "wait", "next", "merge", "process"} => step = "idle" /\ Mask!Fresh /\ out = <<>>
    /\ pc = "redact" => step \in {"filter", "sort", "merge", "copy", "done"} /\ redactor = "mask" /\ ~Skips
    /\ pc = "done" => step \in {"idle", "done"}
    /\ step = "done" => ~Skips /\ ~redactErr
    /\ redactErr => pc = "done" /\ scanErr
    /\ running # {} => pc = "wait"
    /\ pc = "wait" => ~empty /\ running \subseteq Fan(pass)

\* A scanner reports once in a pass.
History ==
    \A t \in reported :
        /\ t[2] <= pass
        /\ t[2] = pass => pc # "scan" /\ t[1] \notin running

HeardAll(v) == \A s \in Fan(v) : Heard(s, v)

Listened ==
    /\ pc = "wait" => \A s \in Fan(pass) \ running : Heard(s, pass)
    /\ pc \in {"merge", "next"} => HeardAll(pass)
    /\ pc \in {"scan", "wait", "merge", "next"} => \A v \in {0} \cup active : v < pass => HeardAll(v)
    /\ pc \in {"process", "redact", "done"} /\ ~empty => \A v \in {0} \cup active : HeardAll(v)

\* An error is in scanErr, or still in the results of the current pass.
Errors ==
    /\ pass = 0 /\ pc \in {"scan", "wait"} => ~scanErr
    /\ \A t \in reported : t[3].err =>
          scanErr \/ (pc = "wait" /\ t[2] = pass /\ results[t[1]].err)

-----------------------------------------------------------------------------
\* The loops of Redact.
Filtering ==
    /\ sorted = <<>> /\ merged = <<>> /\ pos = 0 /\ out = <<>>
    /\ j <= Len(findings) + 1
    /\ Range(valid) = {findings[i] : i \in {h \in 1..(j - 1) : Mask!Keep(findings[h])}}

Ordered(s) == \A a, b \in 1..Len(s) : a <= b => s[a].Start <= s[b].Start

Sorting ==
    /\ merged = <<>> /\ pos = 0 /\ out = <<>>
    /\ Range(valid) = Mask!Usable(findings)
    /\ j <= Len(valid) + 1
    /\ Range(sorted) = {valid[i] : i \in 1..(j - 1)}
    /\ Ordered(sorted)

Disjoint(m) ==
    \A a \in 1..Len(m) :
        /\ m[a].from < m[a].to /\ m[a].to <= Size
        /\ \A b \in 1..Len(m) : a < b => m[a].to <= m[b].from

\* The ranges m are the chains of overlapping ones among the first i of s.
Chains(m, s, i) ==
    /\ \A h \in 1..i : \E a \in 1..Len(m) : m[a].from <= s[h].Start /\ s[h].End <= m[a].to
    /\ \A a \in 1..Len(m) :
          /\ \E h \in 1..i : s[h].Start = m[a].from
          /\ \A x \in (m[a].from + 1)..(m[a].to - 1) : \E h \in 1..i : s[h].Start < x /\ x < s[h].End

Merging ==
    /\ pos = 0 /\ out = <<>>
    /\ Range(sorted) = Mask!Usable(findings)
    /\ Ordered(sorted)
    /\ j <= Len(sorted) + 1
    /\ Disjoint(merged)
    /\ Chains(merged, sorted, j - 1)

Copying ==
    /\ Disjoint(merged)
    /\ \A x \in 0..(Size - 1) :
          /\ Mask!IsHidden(findings, x) <=> \E a \in 1..Len(merged) : merged[a].from <= x /\ x < merged[a].to
          /\ Mask!StartsRange(findings, x) <=> \E a \in 1..Len(merged) : merged[a].from = x
    /\ j <= Len(merged) + 1
    /\ pos = IF j = 1 THEN 0 ELSE merged[j - 1].to
    /\ out = Mask!Walk(findings)[pos]

Masking ==
    /\ step = "filter" => Filtering
    /\ step = "sort" => Sorting
    /\ step = "merge" => Merging
    /\ step = "copy" => Copying
    /\ step = "done" => out = Mask!Reference(findings)

\* Without the mask redactor Process returns the body or what the plugin makes of it.
Returned ==
    pc = "done" /\ step = "idle" =>
        \/ (Skips \/ redactErr) /\ out = WholeBody
        \/ ~Skips /\ ~redactErr /\ out = Mask!Reference(ServerRedact(findings))

IInv == ScanTypes /\ MaskTypes /\ Control /\ History /\ Listened /\ Errors /\ Masking /\ Returned

-----------------------------------------------------------------------------
(***************************************************************************)
(* Induction, stated with sets, and loops written as recursive functions.  *)
(***************************************************************************)
LEMMA LeastElement ==
    ASSUME NEW T \in SUBSET Nat, T # {}
    PROVE  \E x \in T : \A y \in T : x <= y
<1>1. IsWellFoundedOn(OpToRel(<, Nat), Nat)
      BY NatLessThanWellFounded
<1>2. \A x, y \in Nat : <<x, y>> \in OpToRel(<, Nat) <=> x < y
      BY DEF OpToRel
<1>3. PICK x \in T : \A y \in T : ~(<<y, x>> \in OpToRel(<, Nat))
      BY <1>1, WFMin, Zenon
<1>4. \A y \in T : ~(y < x)
      BY <1>2, <1>3, Zenon
<1> QED
      BY <1>4

LEMMA Induction ==
    ASSUME NEW a \in Nat, NEW b \in Nat, a <= b,
           NEW S \in SUBSET (a..b), a \in S, \A x \in S : x < b => x + 1 \in S
    PROVE  S = a..b
<1> SUFFICES ASSUME (a..b) \ S # {} PROVE FALSE
    OBVIOUS
<1> DEFINE T == (a..b) \ S
<1>1. T \in SUBSET Nat /\ T # {}
      OBVIOUS
<1>2. PICK x \in T : \A y \in T : x <= y
  <2> HIDE DEF T
  <2> QED
      BY <1>1, LeastElement
<1>3. x \in a..b /\ x \notin S /\ x # a
      BY <1>2
<1>4. x - 1 \in a..b /\ x - 1 < x
      BY <1>3
<1>5. x - 1 \in S
      BY <1>2, <1>4
<1> QED
      BY <1>3, <1>4, <1>5

(* A loop that starts from c and in round x turns its value y into G[x][y] *)
(* has a value after each round.                                           *)
Runs(N, D, c, G) ==
    \E f \in [0..N -> D] : f[0] = c /\ \A x \in 1..N : f[x] = G[x][f[x - 1]]

LEMMA LoopExists ==
    ASSUME NEW N \in Nat, NEW D, NEW c \in D, NEW G \in [1..N -> [D -> D]]
    PROVE  Runs(N, D, c, G)
<1> DEFINE S == {m \in 0..N : \E f \in [0..m -> D] : f[0] = c /\ \A x \in 1..m : f[x] = G[x][f[x - 1]]}
<1>1. 0 \in S
  <2> DEFINE f == [x \in 0..0 |-> c]
  <2>1. f \in [0..0 -> D] /\ f[0] = c /\ \A x \in 1..0 : f[x] = G[x][f[x - 1]]
        OBVIOUS
  <2> HIDE DEF f
  <2> QED
        BY <2>1
<1>2. ASSUME NEW m \in S, m < N PROVE m + 1 \in S
  <2>1. PICK f \in [0..m -> D] : f[0] = c /\ \A x \in 1..m : f[x] = G[x][f[x - 1]]
        OBVIOUS
  <2>2. m \in 0..N /\ m + 1 \in 1..N
        BY <1>2
  <2> HIDE DEF S
  <2> DEFINE g == [x \in 0..(m + 1) |-> IF x = m + 1 THEN G[m + 1][f[m]] ELSE f[x]]
  <2>3. f[m] \in D
        BY <2>1, <2>2
  <2>4. G[m + 1][f[m]] \in D
        BY <2>2, <2>3
  <2>5. g \in [0..(m + 1) -> D]
        BY <2>1, <2>2, <2>4
  <2>6. g[0] = c
        BY <2>1, <2>2
  <2>7. ASSUME NEW x \in 1..(m + 1) PROVE g[x] = G[x][g[x - 1]]
    <3>1. x - 1 \in 0..(m + 1) /\ x - 1 # m + 1 /\ x \in 0..(m + 1)
          BY <2>2
    <3>2. g[x - 1] = f[x - 1]
          BY <3>1
    <3>3. CASE x = m + 1
          BY <3>1, <3>2, <3>3, <2>2
    <3>4. CASE x # m + 1
      <4>1. x \in 1..m /\ g[x] = f[x]
            BY <3>1, <3>4, <2>2
      <4> HIDE DEF g
      <4> QED
            BY <4>1, <3>2, <2>1
    <3> QED
          BY <3>3, <3>4
  <2> HIDE DEF g
  <2>8. m + 1 \in 0..N
        BY <2>2
  <2> QED
        BY <2>5, <2>6, <2>7, <2>8 DEF S
<1>3. S = 0..N
  <2>1. S \in SUBSET (0..N)
        OBVIOUS
  <2> HIDE DEF S
  <2> QED
        BY <1>1, <1>2, <2>1, Induction
<1>4. N \in S
      BY SMTT(30), <1>3
<1> QED
      BY <1>4 DEF Runs

LEMMA RangeConcat ==
    ASSUME NEW F, NEW p \in Seq(F), NEW q \in Seq(F)
    PROVE  /\ p \o q \in Seq(F)
           /\ \A f : f \in Range(p \o q) <=> f \in Range(p) \/ f \in Range(q)
BY RangeConcatenation, ConcatProperties

LEMMA ConcatParts ==
    ASSUME NEW F, NEW p \in Seq(F), NEW q \in Seq(F)
    PROVE  /\ p \o q \in Seq(F) /\ Len(p \o q) = Len(p) + Len(q)
           /\ \A i \in 1..Len(p) : (p \o q)[i] = p[i]
           /\ \A i \in 1..Len(q) : (p \o q)[Len(p) + i] = q[i]
OBVIOUS

LEMMA RangeAppend ==
    ASSUME NEW F, NEW p \in Seq(F), NEW e \in F
    PROVE  /\ Append(p, e) \in Seq(F)
           /\ \A f : f \in Range(Append(p, e)) <=> f \in Range(p) \/ f = e
<1>1. /\ Append(p, e) \in Seq(F) /\ Len(Append(p, e)) = Len(p) + 1
      /\ \A i \in 1..Len(p) : Append(p, e)[i] = p[i]
      /\ Append(p, e)[Len(p) + 1] = e
      OBVIOUS
<1>2. Len(p) \in Nat /\ DOMAIN p = 1..Len(p) /\ DOMAIN Append(p, e) = 1..(Len(p) + 1)
      BY <1>1
<1>3. 1..(Len(p) + 1) = (1..Len(p)) \cup {Len(p) + 1}
      BY <1>2
<1>4. Range(Append(p, e)) = {Append(p, e)[i] : i \in 1..(Len(p) + 1)} /\ Range(p) = {p[i] : i \in 1..Len(p)}
      BY <1>2 DEF Range
<1> QED
      BY <1>1, <1>3, <1>4

(* ScanWith's last loop: the joined list holds the findings of every       *)
(* scanner and nothing else.                                               *)
LEMMA JoinedAll ==
    ASSUME NEW F, NEW rs, \A s \in Scanner : rs[s].findings \in Seq(F)
    PROVE  /\ Joined(rs) \in Seq(F)
           /\ \A f : f \in Range(Joined(rs)) <=> \E s \in Scanner : f \in Range(rs[s].findings)
<1> DEFINE N == NumScanners
           Body(f, x) == IF x = 0 THEN <<>> ELSE f[x - 1] \o rs[x].findings
           E == CHOOSE f : f = [x \in 0..N |-> Body(f, x)]
<1>1. N \in Nat /\ Scanner = 1..N
      BY PipelineAssumption DEF Scanner
<1>2. Joined(rs) = E[N]
      BY DEF Joined
<1>3. \E f : f = [x \in 0..N |-> Body(f, x)]
  <2> DEFINE G == [x \in 1..N |-> [y \in Seq(F) |-> y \o rs[x].findings]]
  <2>1. G \in [1..N -> [Seq(F) -> Seq(F)]]
        BY <1>1, ConcatProperties
  <2>2. <<>> \in Seq(F)
        OBVIOUS
  <2>a. \A x \in 1..N : \A y \in Seq(F) : G[x][y] = y \o rs[x].findings
        OBVIOUS
  <2> HIDE DEF G
  <2>3. PICK f \in [0..N -> Seq(F)] : f[0] = <<>> /\ \A x \in 1..N : f[x] = G[x][f[x - 1]]
    <3> DEFINE D == Seq(F)
               c == <<>>
    <3>1. G \in [1..N -> [D -> D]] /\ c \in D
          BY <2>1, <2>2
    <3> HIDE DEF D, c, N
    <3>2. Runs(N, D, c, G)
          BY <3>1, <1>1, LoopExists
    <3> QED
          BY <3>2 DEF Runs, D, c
  <2>4. ASSUME NEW x \in 0..N PROVE f[x] = Body(f, x)
    <3>1. CASE x = 0
          BY <2>3, <3>1
    <3>2. CASE x # 0
      <4>1. x \in 1..N /\ x - 1 \in 0..N
            BY <1>1, <3>2
      <4>2. f[x - 1] \in Seq(F)
            BY <4>1, <2>3
      <4> QED
            BY <4>1, <4>2, <2>3, <2>a, <3>2
    <3> QED
          BY <3>1, <3>2
  <2> HIDE DEF Body
  <2>5. f = [x \in 0..N |-> Body(f, x)]
        BY <2>3, <2>4
  <2> QED
        BY <2>5
<1>4. \A x \in 0..N : E[x] = Body(E, x)
  <2>1. E = [x \in 0..N |-> Body(E, x)]
    <3> HIDE DEF Body
    <3> QED
        BY <1>3
  <2> HIDE DEF E, Body
  <2> QED
      BY <2>1
<1> HIDE DEF E
<1>5. E[0] = <<>>
      BY <1>1, <1>4
<1>6. ASSUME NEW x \in 0..N, x < N PROVE E[x + 1] = E[x] \o rs[x + 1].findings
  <2>1. x + 1 \in 0..N /\ x + 1 # 0 /\ (x + 1) - 1 = x
        BY <1>1, <1>6
  <2> QED
        BY <2>1, <1>4
<1> DEFINE P(x) == /\ E[x] \in Seq(F)
                   /\ \A f : f \in Range(E[x]) <=> \E s \in 1..x : f \in Range(rs[s].findings)
           S == {x \in 0..N : P(x)}
<1>7. P(0)
  <2>1. Range(<<>>) = {}
        BY DEF Range
  <2> QED
        BY <1>5, <2>1
<1>8. ASSUME NEW x \in 0..N, x < N, P(x) PROVE P(x + 1)
  <2>1. x \in Nat /\ x + 1 \in 1..N /\ 1..(x + 1) = (1..x) \cup {x + 1}
        BY <1>1, <1>8
  <2>2. rs[x + 1].findings \in Seq(F)
        BY <1>1, <2>1
  <2> DEFINE p == E[x]
             q == rs[x + 1].findings
  <2>3. p \in Seq(F) /\ q \in Seq(F) /\ E[x + 1] = p \o q
        BY <1>6, <1>8, <2>2
  <2>4. p \o q \in Seq(F) /\ \A f : f \in Range(p \o q) <=> f \in Range(p) \/ f \in Range(q)
    <3> HIDE DEF p, q
    <3> QED
        BY <2>3, RangeConcat
  <2> QED
        BY <2>1, <2>3, <2>4, <1>8
<1>9. S = 0..N
  <2> HIDE DEF P
  <2>1. S \in SUBSET (0..N) /\ 0 \in S
        BY <1>1, <1>7
  <2>2. ASSUME NEW x \in S, x < N PROVE x + 1 \in S
    <3>1. x + 1 \in 0..N
          BY <1>1, <2>2
    <3> QED
          BY <3>1, <2>2, <1>8
  <2> HIDE DEF S
  <2> QED
        BY <1>1, <2>1, <2>2, Induction
<1>10. P(N)
  <2> HIDE DEF P
  <2> QED
      BY <1>1, <1>9
<1> QED
      BY <1>1, <1>2, <1>10

(* A finding in a view is mapped to a finding in the body.                 *)
LEMMA ToBodyIsFinding ==
    ASSUME NEW v \in View, NEW f \in Finding, Mappable(v, f)
    PROVE  /\ ToBody(v, f) \in Finding
           /\ ToBody(v, f).Start \in Range(OrigIdx(v)) /\ ToBody(v, f).End \in Range(OrigIdx(v))
<1>1. OrigIdx(v) \in Seq(Nat) /\ Len(OrigIdx(v)) \in Nat /\ DOMAIN OrigIdx(v) = 1..Len(OrigIdx(v))
      BY PipelineAssumption
<1>2. f.Start + 1 \in 1..Len(OrigIdx(v)) /\ f.End + 1 \in 1..Len(OrigIdx(v))
      BY <1>1 DEF Mappable, ViewLen, Finding
<1>3. OrigIdx(v)[f.Start + 1] \in Nat /\ OrigIdx(v)[f.End + 1] \in Nat
      BY <1>1, <1>2
<1>4. /\ ToBody(v, f) \in Finding
      /\ ToBody(v, f).Start = OrigIdx(v)[f.Start + 1] /\ ToBody(v, f).End = OrigIdx(v)[f.End + 1]
  <2> DEFINE a == OrigIdx(v)[f.Start + 1]
             b == OrigIdx(v)[f.End + 1]
  <2>1. ToBody(v, f) = [[f EXCEPT !.Start = a] EXCEPT !.End = b]
        BY DEF ToBody
  <2> HIDE DEF a, b
  <2>2. a \in Int /\ b \in Int
        BY <1>3 DEF a, b
  <2> QED
        BY <2>1, <2>2 DEF a, b, Finding
<1> QED
      BY <1>1, <1>2, <1>4 DEF Range

(* The loop of transformedPass: every finding that can be mapped is, and   *)
(* nothing else is returned.                                               *)
LEMMA MappedAll ==
    ASSUME NEW v \in View, NEW fs \in Seq(Finding)
    PROVE  /\ Mapped(v, fs) \in Seq(Finding)
           /\ \A f : f \in Range(Mapped(v, fs)) <=>
                   \E i \in 1..Len(fs) : Mappable(v, fs[i]) /\ f = ToBody(v, fs[i])
<1> DEFINE N == Len(fs)
           Body(f, x) == IF x = 0 THEN <<>>
                         ELSE IF Mappable(v, fs[x]) THEN Append(f[x - 1], ToBody(v, fs[x])) ELSE f[x - 1]
           E == CHOOSE f : f = [x \in 0..N |-> Body(f, x)]
<1>1. N \in Nat /\ \A x \in 1..N : fs[x] \in Finding
      OBVIOUS
<1>2. Mapped(v, fs) = E[N]
      BY DEF Mapped
<1>3. \E f : f = [x \in 0..N |-> Body(f, x)]
  <2> DEFINE D == Seq(Finding)
             G == [x \in 1..N |-> [y \in D |-> IF Mappable(v, fs[x]) THEN Append(y, ToBody(v, fs[x])) ELSE y]]
  <2>1. \A x \in 1..N : \A y \in D : (IF Mappable(v, fs[x]) THEN Append(y, ToBody(v, fs[x])) ELSE y) \in D
        BY <1>1, ToBodyIsFinding
  <2>2. G \in [1..N -> [D -> D]] /\ <<>> \in D
    <3>1. <<>> \in D
          OBVIOUS
    <3> HIDE DEF D
    <3> QED
        BY <2>1, <3>1
  <2>3. \A x \in 1..N : \A y \in D : G[x][y] = IF Mappable(v, fs[x]) THEN Append(y, ToBody(v, fs[x])) ELSE y
        OBVIOUS
  <2> HIDE DEF G, D
  <2>4. PICK f \in [0..N -> D] : f[0] = <<>> /\ \A x \in 1..N : f[x] = G[x][f[x - 1]]
    <3> DEFINE c == <<>>
    <3>1. c \in D
          BY <2>2
    <3> HIDE DEF c, N
    <3>2. Runs(N, D, c, G)
          BY <2>2, <3>1, <1>1, LoopExists
    <3> QED
          BY <3>2 DEF Runs, c
  <2>5. ASSUME NEW x \in 0..N PROVE f[x] = Body(f, x)
    <3>1. CASE x = 0
          BY <2>4, <3>1
    <3>2. CASE x # 0
      <4>1. x \in 1..N /\ x - 1 \in 0..N
            BY <1>1, <3>2
      <4>2. f[x - 1] \in D
            BY <4>1, <2>4
      <4> QED
            BY <4>1, <4>2, <2>4, <2>3, <3>2
    <3> QED
          BY <3>1, <3>2
  <2> HIDE DEF Body
  <2>6. f = [x \in 0..N |-> Body(f, x)]
        BY <2>4, <2>5
  <2> QED
        BY <2>6
<1>4. \A x \in 0..N : E[x] = Body(E, x)
  <2>1. E = [x \in 0..N |-> Body(E, x)]
    <3> HIDE DEF Body
    <3> QED
        BY <1>3
  <2> HIDE DEF E, Body
  <2> QED
      BY <2>1
<1> HIDE DEF E
<1>5. E[0] = <<>>
      BY <1>1, <1>4
<1>6. ASSUME NEW x \in 0..N, x < N
      PROVE  E[x + 1] = IF Mappable(v, fs[x + 1]) THEN Append(E[x], ToBody(v, fs[x + 1])) ELSE E[x]
  <2>1. x + 1 \in 0..N /\ x + 1 # 0 /\ (x + 1) - 1 = x
        BY <1>1, <1>6
  <2> QED
        BY <2>1, <1>4
<1> DEFINE P(x) == /\ E[x] \in Seq(Finding)
                   /\ \A f : f \in Range(E[x]) <=>
                          \E i \in 1..x : Mappable(v, fs[i]) /\ f = ToBody(v, fs[i])
           S == {x \in 0..N : P(x)}
<1>7. P(0)
  <2>1. Range(<<>>) = {}
        BY DEF Range
  <2> QED
        BY <1>5, <2>1
<1>8. ASSUME NEW x \in 0..N, x < N, P(x) PROVE P(x + 1)
  <2>1. x \in Nat /\ x + 1 \in 1..N /\ 1..(x + 1) = (1..x) \cup {x + 1} /\ fs[x + 1] \in Finding
        BY <1>1, <1>8
  <2>2. CASE Mappable(v, fs[x + 1])
    <3> DEFINE p == E[x]
               e == ToBody(v, fs[x + 1])
    <3>1. p \in Seq(Finding) /\ e \in Finding /\ E[x + 1] = Append(p, e)
          BY <1>6, <1>8, <2>1, <2>2, ToBodyIsFinding
    <3>2. Append(p, e) \in Seq(Finding) /\ \A f : f \in Range(Append(p, e)) <=> f \in Range(p) \/ f = e
      <4> HIDE DEF p, e
      <4> QED
          BY <3>1, RangeAppend
    <3> QED
          BY <2>1, <2>2, <3>1, <3>2, <1>8
  <2>3. CASE ~Mappable(v, fs[x + 1])
        BY <2>1, <2>3, <1>6, <1>8
  <2> QED
        BY <2>2, <2>3
<1>9. S = 0..N
  <2> HIDE DEF P
  <2>1. S \in SUBSET (0..N) /\ 0 \in S
        BY <1>1, <1>7
  <2>2. ASSUME NEW x \in S, x < N PROVE x + 1 \in S
    <3>1. x + 1 \in 0..N
          BY <1>1, <2>2
    <3> QED
          BY <3>1, <2>2, <1>8
  <2> HIDE DEF S
  <2> QED
        BY <1>1, <2>1, <2>2, Induction
<1>10. P(N)
  <2> HIDE DEF P
  <2> QED
      BY <1>1, <1>9
<1> QED
      BY <1>1, <1>2, <1>10

-----------------------------------------------------------------------------
(***************************************************************************)
(* The walk that defines what Redact has to return.                        *)
(***************************************************************************)
Mark(fs, x) == IF Mask!StartsRange(fs, x) THEN <<Mask!Placeholder>> ELSE <<>>
Shown(fs, x) == IF Mask!IsHidden(fs, x) THEN <<>> ELSE <<x>>

LEMMA WalkLoop ==
    ASSUME Size \in Nat, NEW fs
    PROVE  /\ Mask!Walk(fs)[0] = <<>>
           /\ \A x \in 0..(Size - 1) :
                 Mask!Walk(fs)[x + 1] = (Mask!Walk(fs)[x] \o Mark(fs, x)) \o Shown(fs, x)
           /\ \A x \in 0..Size : Mask!Walk(fs)[x] \in Seq(Int)
<1> DEFINE N == Size
           D == Seq(Int)
           W == Mask!Walk(fs)
           Body(f, x) == IF x = 0 THEN <<>> ELSE (f[x - 1] \o Mark(fs, x - 1)) \o Shown(fs, x - 1)
<1>1. N \in Nat /\ <<>> \in D
      OBVIOUS
<1>2. W = CHOOSE f : f = [x \in 0..N |-> Body(f, x)]
      BY DEF Mask!Walk, Mark, Shown
<1>3. \A x \in 1..N : Mark(fs, x - 1) \in D /\ Shown(fs, x - 1) \in D
      BY <1>1 DEF Mark, Shown, Mask!Placeholder
<1>4. \A x \in 1..N : \A y \in D : (y \o Mark(fs, x - 1)) \o Shown(fs, x - 1) \in D
      BY <1>3, ConcatProperties
<1>5. \E f : f = [x \in 0..N |-> Body(f, x)]
  <2> DEFINE G == [x \in 1..N |-> [y \in D |-> (y \o Mark(fs, x - 1)) \o Shown(fs, x - 1)]]
             c == <<>>
  <2>1. G \in [1..N -> [D -> D]] /\ c \in D
    <3> HIDE DEF D
    <3> QED
        BY <1>1, <1>4
  <2>2. \A x \in 1..N : \A y \in D : G[x][y] = (y \o Mark(fs, x - 1)) \o Shown(fs, x - 1)
        OBVIOUS
  <2>3. Runs(N, D, c, G)
    <3> HIDE DEF G, D, c, N
    <3> QED
        BY <1>1, <2>1, LoopExists
  <2>4. PICK f \in [0..N -> D] : f[0] = <<>> /\ \A x \in 1..N : f[x] = G[x][f[x - 1]]
    <3> HIDE DEF G, D, N
    <3> QED
        BY <2>3 DEF Runs
  <2> HIDE DEF G, D
  <2>5. ASSUME NEW x \in 0..N PROVE f[x] = Body(f, x)
    <3>1. CASE x = 0
          BY <2>4, <3>1
    <3>2. CASE x # 0
      <4>1. x \in 1..N /\ x - 1 \in 0..N
            BY <1>1, <3>2
      <4>2. f[x - 1] \in D
            BY <4>1, <2>4
      <4> QED
            BY <4>1, <4>2, <2>4, <2>2, <3>2
    <3> QED
          BY <3>1, <3>2
  <2> HIDE DEF Body
  <2>6. f = [x \in 0..N |-> Body(f, x)]
        BY <2>4, <2>5
  <2> QED
        BY <2>6
<1>6. \A x \in 0..N : W[x] = Body(W, x)
  <2>1. W = [x \in 0..N |-> Body(W, x)]
    <3> HIDE DEF Body, W
    <3> QED
        BY <1>2, <1>5
  <2> HIDE DEF W, Body
  <2> QED
      BY <2>1
<1> HIDE DEF W
<1>7. W[0] = <<>>
      BY <1>1, <1>6
<1>8. ASSUME NEW x \in 0..(N - 1) PROVE W[x + 1] = (W[x] \o Mark(fs, x)) \o Shown(fs, x)
  <2>1. x + 1 \in 0..N /\ x + 1 # 0 /\ (x + 1) - 1 = x
        BY <1>1
  <2> QED
        BY <2>1, <1>6
<1> DEFINE S == {x \in 0..N : W[x] \in D}
<1>9. S = 0..N
  <2>a. 0 \in 0..N /\ W[0] \in D
        BY <1>1, <1>7
  <2>1. S \in SUBSET (0..N) /\ 0 \in S
    <3> HIDE DEF D
    <3> QED
        BY <2>a
  <2>2. ASSUME NEW x \in S, x < N PROVE x + 1 \in S
    <3>1. x \in 0..(N - 1) /\ x + 1 \in 1..N /\ (x + 1) - 1 = x /\ x + 1 \in 0..N
          BY <1>1, <2>2
    <3>2. (W[x] \o Mark(fs, x)) \o Shown(fs, x) \in D
      <4> HIDE DEF D
      <4> QED
          BY <3>1, <1>4
    <3> QED
          BY <3>1, <3>2, <1>8
  <2> HIDE DEF S
  <2> QED
      BY <1>1, <2>1, <2>2, Induction
<1> QED
      BY <1>7, <1>8, <1>9 DEF W

(* Nothing that is hidden is ever shown.                                   *)
LEMMA WalkShows ==
    ASSUME Size \in Nat, NEW fs
    PROVE  \A x \in 0..Size : \A y \in Range(Mask!Walk(fs)[x]) :
              y = Mask!Placeholder \/ ~Mask!IsHidden(fs, y)
<1> DEFINE W == Mask!Walk(fs)
           P(x) == \A y \in Range(W[x]) : y = Mask!Placeholder \/ ~Mask!IsHidden(fs, y)
           S == {x \in 0..Size : P(x)}
<1>1. P(0)
  <2>1. Range(<<>>) = {}
        BY DEF Range
  <2> QED
        BY <2>1, WalkLoop
<1>2. ASSUME NEW x \in 0..(Size - 1), P(x) PROVE P(x + 1)
  <2> DEFINE w == W[x]
             m == Mark(fs, x)
             h == Shown(fs, x)
  <2>1. W[x + 1] = (w \o m) \o h
        BY <1>2, WalkLoop
  <2>2. w \in Seq(Int) /\ m \in Seq(Int) /\ h \in Seq(Int)
    <3>1. x \in 0..Size /\ x \in Int
          BY <1>2
    <3>2. w \in Seq(Int)
          BY <3>1, WalkLoop
    <3>3. m \in Seq(Int)
          BY DEF Mark, Mask!Placeholder
    <3>4. h \in Seq(Int)
          BY <3>1 DEF Shown
    <3> QED
          BY <3>2, <3>3, <3>4
  <2>3. w \o m \in Seq(Int) /\ \A y : y \in Range((w \o m) \o h) <=> y \in Range(w) \/ y \in Range(m) \/ y \in Range(h)
    <3> HIDE DEF w, m, h
    <3>1. w \o m \in Seq(Int) /\ \A y : y \in Range(w \o m) <=> y \in Range(w) \/ y \in Range(m)
          BY <2>2, RangeConcat
    <3> QED
          BY <3>1, <2>2, RangeConcat
  <2>4. \A y \in Range(m) : y = Mask!Placeholder
        BY DEF Mark, Range
  <2>5. \A y \in Range(h) : ~Mask!IsHidden(fs, y)
    <3>1. CASE Mask!IsHidden(fs, x)
          BY <3>1 DEF Shown, Range
    <3>2. CASE ~Mask!IsHidden(fs, x)
      <4>1. h = <<x>>
            BY <3>2 DEF Shown
      <4>2. \A y \in Range(h) : y = x
            BY <4>1 DEF Range
      <4> QED
            BY <4>2, <3>2
    <3> QED
          BY <3>1, <3>2
  <2> HIDE DEF w, m, h, W
  <2>6. \A y \in Range(w) : y = Mask!Placeholder \/ ~Mask!IsHidden(fs, y)
        BY <1>2 DEF w
  <2> QED
        BY <2>1, <2>3, <2>4, <2>5, <2>6
<1> HIDE DEF P
<1>3. S = 0..Size
  <2>1. S \in SUBSET (0..Size) /\ 0 \in S
        BY <1>1
  <2>2. ASSUME NEW x \in S, x < Size PROVE x + 1 \in S
    <3>1. x \in 0..(Size - 1) /\ x + 1 \in 0..Size
          BY <2>2
    <3> QED
          BY <3>1, <2>2, <1>2
  <2> HIDE DEF S
  <2> QED
      BY <2>1, <2>2, Induction
<1> QED
      BY <1>3 DEF P

LEMMA SliceProperties ==
    ASSUME NEW a \in Nat, NEW b \in Nat, a <= b
    PROVE  /\ Mask!Slice(a, b) \in Seq(Int)
           /\ Mask!Slice(a, a) = <<>>
           /\ Mask!Slice(a, b + 1) = Mask!Slice(a, b) \o <<b>>
<1>1. b - a \in Nat /\ (b + 1) - a = (b - a) + 1
      OBVIOUS
<1>2. Mask!Slice(a, b) = [i \in 1..(b - a) |-> a + i - 1]
      BY DEF Mask!Slice
<1>3. Mask!Slice(a, b) \in Seq(Int) /\ Len(Mask!Slice(a, b)) = b - a
      BY <1>1, <1>2
<1>4. Mask!Slice(a, a) = <<>>
  <2>1. Mask!Slice(a, a) = [i \in 1..0 |-> a + i - 1]
        BY DEF Mask!Slice
  <2>2. Mask!Slice(a, a) \in Seq(Int) /\ Len(Mask!Slice(a, a)) = 0
        BY <2>1
  <2> QED
        BY <2>2
<1>5. Mask!Slice(a, b + 1) = Mask!Slice(a, b) \o <<b>>
  <2> DEFINE p == Mask!Slice(a, b + 1)
             q == Mask!Slice(a, b) \o <<b>>
  <2>1. p = [i \in 1..((b - a) + 1) |-> a + i - 1]
        BY <1>1 DEF Mask!Slice
  <2>2. p \in Seq(Int) /\ Len(p) = (b - a) + 1
        BY <1>1, <2>1
  <2>3. <<b>> \in Seq(Int) /\ Len(<<b>>) = 1 /\ <<b>>[1] = b
        OBVIOUS
  <2>4. /\ q \in Seq(Int) /\ Len(q) = (b - a) + 1
        /\ \A i \in 1..(b - a) : q[i] = Mask!Slice(a, b)[i]
        /\ q[(b - a) + 1] = b
    <3> DEFINE u == Mask!Slice(a, b)
               w == <<b>>
    <3>1. u \in Seq(Int) /\ Len(u) = b - a /\ w \in Seq(Int) /\ Len(w) = 1 /\ w[1] = b
          BY <1>3, <2>3
    <3> HIDE DEF u, w
    <3>2. /\ u \o w \in Seq(Int) /\ Len(u \o w) = Len(u) + Len(w)
          /\ \A i \in 1..Len(u) : (u \o w)[i] = u[i]
          /\ \A i \in 1..Len(w) : (u \o w)[Len(u) + i] = w[i]
          BY <3>1, ConcatParts
    <3>3. 1 \in 1..Len(w)
          BY <3>1
    <3>4. (u \o w)[(b - a) + 1] = w[1]
          BY <3>1, <3>2, <3>3
    <3> QED
          BY <3>1, <3>2, <3>4, <1>1 DEF u, w
  <2>5. ASSUME NEW i \in 1..((b - a) + 1) PROVE p[i] = q[i]
    <3>1. p[i] = a + i - 1
          BY <2>1
    <3>2. CASE i <= b - a
      <4>1. i \in 1..(b - a)
            BY <3>2, <1>1
      <4>2. Mask!Slice(a, b)[i] = a + i - 1
            BY <1>2, <4>1
      <4> QED
            BY <3>1, <4>1, <4>2, <2>4
    <3>3. CASE ~(i <= b - a)
      <4>1. i = (b - a) + 1 /\ i - (b - a) = 1
            BY <3>3, <1>1
      <4>2. q[i] = b
            BY <4>1, <3>3, <2>3, <2>4
      <4>3. a + i - 1 = b
            BY <4>1
      <4> QED
            BY <3>1, <4>3, <4>2
    <3> QED
          BY <3>2, <3>3
  <2> HIDE DEF p, q
  <2>6. p = q
        BY <2>2, <2>4, <2>5, SeqEqual
  <2> QED
        BY <2>6 DEF p, q
<1> QED
      BY <1>3, <1>4, <1>5

(* The walk copies what nothing hides ...                                  *)
LEMMA WalkPlain ==
    ASSUME Size \in Nat, NEW fs, NEW a \in 0..Size, NEW b \in a..Size,
           \A x \in a..(b - 1) : ~Mask!IsHidden(fs, x) /\ ~Mask!StartsRange(fs, x)
    PROVE  Mask!Walk(fs)[b] = Mask!Walk(fs)[a] \o Mask!Slice(a, b)
<1> DEFINE W == Mask!Walk(fs)
           S == {x \in a..b : W[x] = W[a] \o Mask!Slice(a, x)}
<1>1. a \in Nat /\ b \in Nat /\ a <= b /\ W[a] \in Seq(Int)
      BY WalkLoop
<1>2. a \in S
  <2>1. Mask!Slice(a, a) = <<>>
        BY <1>1, SliceProperties
  <2>2. W[a] \o <<>> = W[a]
        BY <1>1, ConcatEmptySeq
  <2> QED
        BY <1>1, <2>1, <2>2
<1>3. ASSUME NEW x \in S, x < b PROVE x + 1 \in S
  <2>1. x \in Nat /\ a <= x /\ x \in a..(b - 1) /\ x \in 0..(Size - 1) /\ x + 1 \in a..b /\ x \in 0..Size
        BY <1>1, <1>3
  <2>2. W[x + 1] = (W[x] \o Mark(fs, x)) \o Shown(fs, x)
        BY <2>1, WalkLoop
  <2>3. Mark(fs, x) = <<>> /\ Shown(fs, x) = <<x>>
        BY <2>1 DEF Mark, Shown
  <2>4. W[x] \in Seq(Int)
        BY <2>1, WalkLoop
  <2>5. W[x + 1] = W[x] \o <<x>>
        BY <2>2, <2>3, <2>4, ConcatEmptySeq
  <2>6. W[x] = W[a] \o Mask!Slice(a, x)
        BY <1>3
  <2>7. Mask!Slice(a, x) \in Seq(Int) /\ Mask!Slice(a, x + 1) = Mask!Slice(a, x) \o <<x>>
        BY <1>1, <2>1, SliceProperties
  <2>8. <<x>> \in Seq(Int)
        BY <2>1
  <2>9. (W[a] \o Mask!Slice(a, x)) \o <<x>> = W[a] \o (Mask!Slice(a, x) \o <<x>>)
    <3> DEFINE p == W[a]
               q == Mask!Slice(a, x)
               r == <<x>>
    <3>1. p \in Seq(Int) /\ q \in Seq(Int) /\ r \in Seq(Int)
          BY <1>1, <2>7, <2>8
    <3> HIDE DEF p, q, r
    <3>2. (p \o q) \o r = p \o (q \o r)
      <4> HIDE DEF W, S
      <4> QED
          BY SMTT(30), <3>1, ConcatAssociative
    <3> QED
          BY <3>2 DEF p, q, r
  <2>10. W[x + 1] = W[a] \o Mask!Slice(a, x + 1)
        BY <2>5, <2>6, <2>7, <2>9
  <2> QED
        BY <2>1, <2>10
<1>4. S = a..b
  <2>1. S \in SUBSET (a..b)
        OBVIOUS
  <2> HIDE DEF S
  <2> QED
      BY <1>1, <1>2, <1>3, <2>1, Induction
<1> QED
      BY <1>1, <1>4

(* ... and puts one placeholder for a chain of overlapping findings.       *)
LEMMA WalkRange ==
    ASSUME Size \in Nat, NEW fs, NEW a \in 0..Size, NEW b \in (a + 1)..Size,
           Mask!StartsRange(fs, a),
           \A x \in a..(b - 1) : Mask!IsHidden(fs, x),
           \A x \in (a + 1)..(b - 1) : ~Mask!StartsRange(fs, x)
    PROVE  Mask!Walk(fs)[b] = Mask!Walk(fs)[a] \o <<Mask!Placeholder>>
<1> DEFINE W == Mask!Walk(fs)
           w == W[a] \o <<Mask!Placeholder>>
           S == {x \in (a + 1)..b : W[x] = w}
<1>1. a \in Nat /\ a + 1 \in Nat /\ b \in Nat /\ a + 1 <= b /\ a \in a..(b - 1) /\ a \in 0..(Size - 1)
      OBVIOUS
<1>2. W[a] \in Seq(Int) /\ <<Mask!Placeholder>> \in Seq(Int) /\ w \in Seq(Int)
  <2>1. W[a] \in Seq(Int)
        BY <1>1, WalkLoop
  <2>2. <<Mask!Placeholder>> \in Seq(Int)
        BY DEF Mask!Placeholder
  <2> QED
        BY <2>1, <2>2, ConcatProperties
<1>3. a + 1 \in S
  <2>1. W[a + 1] = (W[a] \o Mark(fs, a)) \o Shown(fs, a)
        BY <1>1, WalkLoop
  <2>2. Mark(fs, a) = <<Mask!Placeholder>> /\ Shown(fs, a) = <<>>
        BY <1>1 DEF Mark, Shown
  <2>3. W[a + 1] = w
        BY <2>1, <2>2, <1>2, ConcatEmptySeq
  <2> QED
        BY <2>3, <1>1
<1>4. ASSUME NEW x \in S, x < b PROVE x + 1 \in S
  <2>1. x \in (a + 1)..(b - 1) /\ x \in a..(b - 1) /\ x \in 0..(Size - 1) /\ x + 1 \in (a + 1)..b
        BY <1>1, <1>4
  <2>2. W[x + 1] = (W[x] \o Mark(fs, x)) \o Shown(fs, x)
        BY <2>1, WalkLoop
  <2>3. Mark(fs, x) = <<>> /\ Shown(fs, x) = <<>>
        BY <2>1 DEF Mark, Shown
  <2>4. W[x] = w
        BY <1>4
  <2> HIDE DEF w
  <2>5. W[x + 1] = w
        BY <2>2, <2>3, <2>4, <1>2, ConcatEmptySeq
  <2> QED
        BY <2>1, <2>5
<1>5. S = (a + 1)..b
  <2>1. S \in SUBSET ((a + 1)..b)
        OBVIOUS
  <2> HIDE DEF S
  <2> QED
      BY <1>1, <1>3, <1>4, <2>1, Induction
<1> QED
      BY <1>1, <1>5

-----------------------------------------------------------------------------
(***************************************************************************)
(* The loops of Redact.                                                    *)
(***************************************************************************)
LEMMA SizeNat ==
    ASSUME empty \in BOOLEAN
    PROVE  Size \in Nat
BY PipelineAssumption DEF Size

LEMMA UsableKeep ==
    ASSUME Size \in Nat, NEW fs \in Seq(Finding)
    PROVE  Mask!Usable(fs) = {f \in Range(fs) : Mask!Keep(f)}
<1>1. ASSUME NEW f \in Range(fs) PROVE f.Start \in Int /\ f.End \in Int
  <2>1. f \in Finding
        BY RangeOfSeq
  <2> QED
        BY <2>1 DEF Finding
<1>2. \A f \in Range(fs) : Mask!Keep(f) <=> 0 <= f.Start /\ f.Start < f.End /\ f.End <= Size
      BY <1>1 DEF Mask!Keep
<1>3. Mask!Usable(fs) = {f \in Range(fs) : 0 <= f.Start /\ f.Start < f.End /\ f.End <= Size}
      BY DEF Mask!Usable, Mask!Range, Range
<1> QED
      BY <1>2, <1>3

LEMMA RangeIndexed ==
    ASSUME NEW F, NEW s \in Seq(F)
    PROVE  Range(s) = {s[i] : i \in 1..Len(s)}
BY DEF Range

(* With nothing to redact the reference is the whole body.                 *)
LEMMA NothingUsable ==
    ASSUME Size \in Nat, NEW fs, Mask!Usable(fs) = {}
    PROVE  Mask!Reference(fs) = Mask!Slice(0, Size)
<1>1. \A x \in 0..(Size - 1) : ~Mask!IsHidden(fs, x) /\ ~Mask!StartsRange(fs, x)
      BY DEF Mask!IsHidden, Mask!StartsRange
<1>2. 0 \in 0..Size /\ Size \in 0..Size
      OBVIOUS
<1>3. Mask!Walk(fs)[Size] = Mask!Walk(fs)[0] \o Mask!Slice(0, Size)
      BY <1>1, <1>2, WalkPlain
<1>4. Mask!Walk(fs)[0] = <<>> /\ Mask!Slice(0, Size) \in Seq(Int)
  <2>1. 0 \in Nat /\ 0 <= Size
        OBVIOUS
  <2>2. Mask!Slice(0, Size) \in Seq(Int)
        BY <2>1, SliceProperties, Zenon
  <2> QED
        BY <2>2, WalkLoop
<1>5. <<>> \o Mask!Slice(0, Size) = Mask!Slice(0, Size)
      BY <1>4, ConcatEmptySeq
<1> QED
      BY <1>3, <1>4, <1>5 DEF Mask!Reference

MaskUnchanged == findings' = findings /\ empty' = empty

LEMMA StepFilter ==
    ASSUME empty \in BOOLEAN, findings \in Seq(Finding), MaskTypes, Masking,
           MaskUnchanged, Mask!Filter
    PROVE  /\ MaskTypes' /\ Masking'
           /\ step' \in {"filter", "sort", "done"}
<1>1. Size \in Nat /\ Size' = Size
      BY SizeNat DEF MaskUnchanged, Size
<1>2. Filtering /\ step = "filter"
      BY DEF Masking, Mask!Filter
<1>3. /\ sorted' = sorted /\ merged' = merged /\ pos' = pos /\ findings' = findings
      BY DEF Mask!Filter
<1>4. Len(findings) \in Nat /\ Range(findings) = {findings[i] : i \in 1..Len(findings)}
      /\ \A i \in 1..Len(findings) : findings[i] \in Finding
      BY RangeIndexed
<1>5. CASE Size > 0 /\ j <= Len(findings)
  <2>1. /\ valid' = IF Mask!Keep(findings[j]) THEN Append(valid, findings[j]) ELSE valid
        /\ j' = j + 1 /\ step' = step /\ out' = out
        BY <1>5 DEF Mask!Filter
  <2>2. j \in 1..Len(findings) /\ findings[j] \in Finding /\ j \in Nat /\ (j + 1) - 1 = j
        BY <1>4, <1>5 DEF MaskTypes
  <2>3. 1..j = (1..(j - 1)) \cup {j}
        BY <2>2
  <2>4. valid \in Seq(Finding)
        BY DEF MaskTypes
  <2>5. /\ valid' \in Seq(Finding)
        /\ \A f : f \in Range(valid') <=> f \in Range(valid) \/ (Mask!Keep(findings[j]) /\ f = findings[j])
    <3>1. CASE Mask!Keep(findings[j])
      <4>1. Append(valid, findings[j]) \in Seq(Finding)
            /\ \A f : f \in Range(Append(valid, findings[j])) <=> f \in Range(valid) \/ f = findings[j]
            BY <2>2, <2>4, RangeAppend
      <4> QED
            BY <2>1, <3>1, <4>1
    <3>2. CASE ~Mask!Keep(findings[j])
          BY <2>1, <2>4, <3>2
    <3> QED
          BY <3>1, <3>2
  <2>6. MaskTypes'
        BY <2>1, <2>2, <2>5, <1>3 DEF MaskTypes
  <2>7. Range(valid') = {findings[i] : i \in {h \in 1..j : Mask!Keep(findings[h])}}
        BY <2>3, <2>5, <1>2 DEF Filtering
  <2>9. \A h : Mask!Keep(findings[h])' <=> Mask!Keep(findings[h])
        BY <1>1, <1>3 DEF Mask!Keep
  <2>10. Filtering'
    <3>1. sorted' = <<>> /\ merged' = <<>> /\ pos' = 0 /\ out' = <<>> /\ j' <= Len(findings') + 1
          BY <1>2, <1>3, <1>4, <2>1, <2>2 DEF Filtering
    <3>2. Range(valid') = {findings'[i] : i \in {h \in 1..(j' - 1) : Mask!Keep(findings[h])'}}
          BY <2>1, <2>2, <2>7, <2>9, <1>3
    <3> QED
          BY <3>1, <3>2 DEF Filtering
  <2>11. Masking'
        BY <2>1, <2>10, <1>2 DEF Masking
  <2> QED
        BY <2>1, <2>6, <2>11, <1>2
<1>6. CASE ~(Size > 0 /\ j <= Len(findings))
  <2>1. /\ j' = 1 /\ valid' = valid
        /\ IF valid = <<>> THEN step' = "done" /\ out' = Mask!Slice(0, Size)
                           ELSE step' = "sort" /\ out' = out
        BY <1>6 DEF Mask!Filter
  <2>2. Range(valid) = Mask!Usable(findings)
    <3>1. Range(valid) = {findings[i] : i \in {h \in 1..(j - 1) : Mask!Keep(findings[h])}}
          BY <1>2 DEF Filtering
    <3>2. CASE Size > 0
      <4>1. j - 1 = Len(findings)
            BY <1>2, <1>4, <1>6, <3>2 DEF Filtering, MaskTypes
      <4> QED
            BY <3>1, <4>1, <1>1, <1>4, UsableKeep
    <3>3. CASE ~(Size > 0)
      <4>1. \A f \in Finding : ~Mask!Keep(f)
            BY <1>1, <3>3 DEF Mask!Keep, Finding
      <4>2. 1..(j - 1) \subseteq 1..Len(findings)
            BY <1>2, <1>4 DEF Filtering, MaskTypes
      <4>3. Range(valid) = {}
            BY <3>1, <4>1, <4>2, <1>4
      <4>4. Mask!Usable(findings) = {}
            BY <4>1, <1>1, <1>4, UsableKeep
      <4> QED
            BY <4>3, <4>4
    <3> QED
          BY <3>2, <3>3
  <2>3. (Mask!Usable(findings) = Mask!Usable(findings)') /\ (Mask!Reference(findings) = Mask!Reference(findings)')
        BY <1>1, <1>3 DEF Mask!Usable, Mask!Reference, Mask!Walk, Mask!StartsRange, Mask!IsHidden
  <2>4. CASE valid = <<>>
    <3>1. Mask!Usable(findings) = {}
          BY <2>2, <2>4 DEF Range
    <3>2. out' = Mask!Reference(findings)
          BY <2>1, <2>4, <3>1, <1>1, NothingUsable
    <3>3. Mask!Slice(0, Size) \in Seq(Int)
      <4>1. 0 \in Nat /\ 0 <= Size /\ Size \in Nat
            BY <1>1
      <4> QED
            BY <4>1, SliceProperties, Zenon
    <3> QED
          BY <2>1, <2>3, <2>4, <3>2, <3>3, <1>3 DEF MaskTypes, Masking
  <2>5. CASE valid # <<>>
    <3>1. step' = "sort" /\ out' = out
          BY <2>1, <2>5
    <3>2. MaskTypes'
          BY <3>1, <2>1, <1>3 DEF MaskTypes
    <3>3. Sorting'
      <4>1. merged' = <<>> /\ pos' = 0 /\ out' = <<>> /\ sorted' = <<>>
            BY <3>1, <1>2, <1>3 DEF Filtering
      <4>2. Range(valid') = Mask!Usable(findings)'
            BY <2>1, <2>2, <2>3
      <4>3. j' <= Len(valid') + 1
            BY <2>1 DEF MaskTypes
      <4>4. Range(sorted') = {valid'[i] : i \in 1..(j' - 1)}
            BY <4>1, <2>1 DEF Range
      <4>5. Ordered(sorted')
            BY <4>1 DEF Ordered
      <4> QED
            BY <4>1, <4>2, <4>3, <4>4, <4>5 DEF Sorting
    <3> QED
          BY <3>1, <3>2, <3>3 DEF Masking
  <2> QED
        BY <2>4, <2>5
<1> QED
      BY <1>5, <1>6

LEMMA Inserted ==
    ASSUME NEW s \in Seq(Finding), NEW f \in Finding, NEW h \in 0..Len(s)
    PROVE  /\ Mask!InsertAt(s, f, h) \in Seq(Finding)
           /\ Len(Mask!InsertAt(s, f, h)) = Len(s) + 1
           /\ \A i \in 1..h : Mask!InsertAt(s, f, h)[i] = s[i]
           /\ Mask!InsertAt(s, f, h)[h + 1] = f
           /\ \A i \in (h + 1)..Len(s) : Mask!InsertAt(s, f, h)[i + 1] = s[i]
<1> DEFINE a == SubSeq(s, 1, h)
           b == <<f>>
           c == SubSeq(s, h + 1, Len(s))
           d == a \o b
<1>1. Len(s) \in Nat /\ h \in Nat /\ h <= Len(s)
      OBVIOUS
<1>2. a \in Seq(Finding) /\ Len(a) = h /\ \A i \in 1..h : a[i] = s[i]
      BY <1>1
<1>3. b \in Seq(Finding) /\ Len(b) = 1 /\ b[1] = f
      OBVIOUS
<1>4. /\ c \in Seq(Finding) /\ Len(c) = Len(s) - h
      /\ \A i \in 1..(Len(s) - h) : c[i] = s[h + i]
  <2>1. h + 1 \in 1..(Len(s) + 1)
        BY <1>1
  <2> QED
        BY <1>1, <2>1, SubSeqProperties
<1>5. Mask!InsertAt(s, f, h) = d \o c
      BY DEF Mask!InsertAt
<1>t. a \in Seq(Finding) /\ b \in Seq(Finding) /\ c \in Seq(Finding)
      BY <1>2, <1>3, <1>4
<1> HIDE DEF a, b, c
<1>6. /\ d \in Seq(Finding) /\ Len(d) = Len(a) + Len(b)
      /\ \A i \in 1..Len(a) : d[i] = a[i]
      /\ \A i \in 1..Len(b) : d[Len(a) + i] = b[i]
      BY <1>t, ConcatParts
<1>7. 1 \in 1..Len(b)
      BY <1>3
<1>8. d[h + 1] = f /\ Len(d) = h + 1
      BY <1>2, <1>3, <1>6, <1>7
<1> HIDE DEF d
<1>u. d \in Seq(Finding)
      BY <1>6
<1>9. /\ d \o c \in Seq(Finding) /\ Len(d \o c) = Len(d) + Len(c)
      /\ \A i \in 1..Len(d) : (d \o c)[i] = d[i]
      /\ \A i \in 1..Len(c) : (d \o c)[Len(d) + i] = c[i]
      BY <1>t, <1>u, ConcatParts
<1>10. Len(d \o c) = Len(s) + 1
      BY <1>1, <1>4, <1>8, <1>9
<1>11. ASSUME NEW i \in 1..h PROVE (d \o c)[i] = s[i]
  <2>1. i \in 1..Len(a) /\ i \in 1..Len(d)
        BY <1>1, <1>2, <1>8
  <2> QED
        BY <2>1, <1>2, <1>6, <1>9
<1>12. (d \o c)[h + 1] = f
  <2>1. h + 1 \in 1..Len(d)
        BY <1>1, <1>8
  <2> QED
        BY <2>1, <1>8, <1>9
<1>13. ASSUME NEW i \in (h + 1)..Len(s) PROVE (d \o c)[i + 1] = s[i]
  <2>1. i - h \in 1..Len(c) /\ i - h \in 1..(Len(s) - h) /\ Len(d) + (i - h) = i + 1 /\ h + (i - h) = i
        BY <1>1, <1>4, <1>8
  <2>2. (d \o c)[Len(d) + (i - h)] = c[i - h]
        BY <2>1, <1>9
  <2>3. c[i - h] = s[h + (i - h)]
        BY <2>1, <1>4
  <2> QED
        BY <2>1, <2>2, <2>3
<1> QED
      BY <1>5, <1>9, <1>10, <1>11, <1>12, <1>13

(* An insertion at a place the comparison allows keeps the list sorted.    *)
LEMMA InsertionSorts ==
    ASSUME NEW s \in Seq(Finding), NEW f \in Finding, NEW h \in 0..Len(s), Ordered(s),
           \A a \in 1..h : Mask!Before(s[a], f),
           \A b \in (h + 1)..Len(s) : Mask!Before(f, s[b])
    PROVE  /\ Ordered(Mask!InsertAt(s, f, h))
           /\ \A g : g \in Range(Mask!InsertAt(s, f, h)) <=> g \in Range(s) \/ g = f
<1> DEFINE t == Mask!InsertAt(s, f, h)
<1>1. Len(s) \in Nat /\ h \in Nat /\ h <= Len(s)
      OBVIOUS
<1>2. /\ t \in Seq(Finding) /\ Len(t) = Len(s) + 1
      /\ \A i \in 1..h : t[i] = s[i]
      /\ t[h + 1] = f
      /\ \A i \in (h + 1)..Len(s) : t[i + 1] = s[i]
      BY SMTT(30), Inserted
<1> HIDE DEF t
<1>3. ASSUME NEW i \in (h + 2)..(Len(s) + 1) PROVE i - 1 \in (h + 1)..Len(s) /\ t[i] = s[i - 1]
  <2>1. i - 1 \in (h + 1)..Len(s) /\ (i - 1) + 1 = i
        BY <1>1
  <2> QED
        BY <2>1, <1>2
<1>4. f.Start \in Int /\ \A i \in 1..Len(s) : s[i].Start \in Int
  <2>1. \A i \in 1..Len(s) : s[i] \in Finding
        OBVIOUS
  <2> QED
        BY <2>1 DEF Finding
<1>5. ASSUME NEW i \in 1..h PROVE s[i].Start <= f.Start
  <2>1. i \in 1..Len(s) /\ Mask!Before(s[i], f)
        BY <1>1
  <2> QED
        BY <2>1, <1>4 DEF Mask!Before
<1>6. ASSUME NEW i \in (h + 1)..Len(s) PROVE f.Start <= s[i].Start
  <2>1. i \in 1..Len(s) /\ Mask!Before(f, s[i])
        BY <1>1
  <2> QED
        BY <2>1, <1>4 DEF Mask!Before
<1>7. Ordered(t)
  <2> SUFFICES ASSUME NEW a \in 1..Len(t), NEW b \in 1..Len(t), a <= b
               PROVE  t[a].Start <= t[b].Start
      BY DEF Ordered
  <2>1. a \in 1..(Len(s) + 1) /\ b \in 1..(Len(s) + 1)
        BY <1>2
  <2>2. CASE b <= h
    <3>1. a \in 1..h /\ b \in 1..h /\ a \in 1..Len(s) /\ b \in 1..Len(s)
          BY <2>1, <2>2, <1>1
    <3> QED
          BY <3>1, <1>2 DEF Ordered
  <2>3. CASE a >= h + 2
    <3>1. a \in (h + 2)..(Len(s) + 1) /\ b \in (h + 2)..(Len(s) + 1)
          BY <2>1, <2>3, <1>1
    <3>2. t[a] = s[a - 1] /\ t[b] = s[b - 1] /\ a - 1 \in 1..Len(s) /\ b - 1 \in 1..Len(s) /\ a - 1 <= b - 1
          BY <3>1, <1>1, <1>3
    <3> QED
          BY <3>2 DEF Ordered
  <2>4. CASE a <= h + 1 /\ b >= h + 1
    <3>1. t[a].Start <= f.Start
      <4>1. CASE a = h + 1
            BY <4>1, <1>2 DEF Finding
      <4>2. CASE a # h + 1
        <5>1. a \in 1..h
              BY <2>1, <2>4, <4>2, <1>1
        <5> QED
              BY <5>1, <1>2, <1>5
      <4> QED
            BY <4>1, <4>2
    <3>2. f.Start <= t[b].Start
      <4>1. CASE b = h + 1
            BY <4>1, <1>2 DEF Finding
      <4>2. CASE b # h + 1
        <5>1. b \in (h + 2)..(Len(s) + 1)
              BY <2>1, <2>4, <4>2, <1>1
        <5>2. t[b] = s[b - 1] /\ b - 1 \in (h + 1)..Len(s)
              BY <5>1, <1>3
        <5> QED
              BY <5>2, <1>6
      <4> QED
            BY <4>1, <4>2
    <3>3. t[a] \in Finding /\ t[b] \in Finding
          BY <1>2
    <3> QED
          BY <3>1, <3>2, <3>3 DEF Finding
  <2> QED
        BY <2>1, <2>2, <2>3, <2>4, <1>1
<1>8. ASSUME NEW g, g \in Range(t) PROVE g \in Range(s) \/ g = f
  <2>1. PICK i \in 1..(Len(s) + 1) : g = t[i]
        BY <1>8, <1>2, RangeIndexed
  <2>2. CASE i \in 1..h
    <3>1. i \in 1..Len(s) /\ g = s[i]
          BY <2>1, <2>2, <1>1, <1>2
    <3> QED
          BY <3>1, RangeIndexed
  <2>3. CASE i = h + 1
        BY <2>1, <2>3, <1>2
  <2>4. CASE i \in (h + 2)..(Len(s) + 1)
    <3>1. i - 1 \in 1..Len(s) /\ g = s[i - 1]
          BY <2>1, <2>4, <1>1, <1>3
    <3> QED
          BY <3>1, RangeIndexed
  <2> QED
        BY <2>1, <2>2, <2>3, <2>4, <1>1
<1>9. ASSUME NEW g, g \in Range(s) \/ g = f PROVE g \in Range(t)
  <2>1. CASE g = f
    <3>1. h + 1 \in 1..Len(t) /\ g = t[h + 1]
          BY <2>1, <1>1, <1>2
    <3> QED
          BY <3>1, <1>2, RangeIndexed
  <2>2. CASE g \in Range(s)
    <3>1. PICK i \in 1..Len(s) : g = s[i]
          BY <2>2, RangeIndexed
    <3>2. CASE i <= h
      <4>1. i \in 1..Len(t) /\ g = t[i]
            BY <3>1, <3>2, <1>1, <1>2
      <4> QED
            BY <4>1, <1>2, RangeIndexed
    <3>3. CASE i > h
      <4>1. i + 1 \in 1..Len(t) /\ g = t[i + 1]
            BY <3>1, <3>3, <1>1, <1>2
      <4> QED
            BY <4>1, <1>2, RangeIndexed
    <3> QED
          BY <3>1, <3>2, <3>3, <1>1
  <2> QED
        BY <1>9, <2>1, <2>2
<1> QED
      BY <1>7, <1>8, <1>9 DEF t

LEMMA StepSort ==
    ASSUME empty \in BOOLEAN, findings \in Seq(Finding), MaskTypes, Masking,
           MaskUnchanged, Mask!Sort
    PROVE  /\ MaskTypes' /\ Masking'
           /\ step' \in {"sort", "merge"}
<1>1. Size \in Nat /\ Size' = Size
      BY SizeNat DEF MaskUnchanged, Size
<1>2. Sorting /\ step = "sort"
      BY DEF Masking, Mask!Sort
<1>3. /\ valid' = valid /\ merged' = merged /\ pos' = pos /\ findings' = findings /\ out' = out
      BY DEF Mask!Sort
<1>4. Mask!Usable(findings)' = Mask!Usable(findings)
      BY <1>1, <1>3 DEF Mask!Usable
<1>5. valid \in Seq(Finding) /\ sorted \in Seq(Finding) /\ j \in Nat \ {0} /\ Len(valid) \in Nat
      BY DEF MaskTypes
<1>6. CASE j <= Len(valid)
  <2>1. PICK h \in 0..Len(sorted) :
            /\ \A a \in 1..h : Mask!Before(sorted[a], valid[j])
            /\ \A b \in (h + 1)..Len(sorted) : Mask!Before(valid[j], sorted[b])
            /\ sorted' = Mask!InsertAt(sorted, valid[j], h)
        BY <1>6 DEF Mask!Sort
  <2>2. j' = j + 1 /\ step' = step
        BY <1>6 DEF Mask!Sort
  <2>3. valid[j] \in Finding /\ 1..j = (1..(j - 1)) \cup {j} /\ (j + 1) - 1 = j
        BY <1>5, <1>6
  <2>4. Ordered(sorted) /\ Range(sorted) = {valid[i] : i \in 1..(j - 1)}
        BY <1>2 DEF Sorting
  <2>5. sorted' \in Seq(Finding)
        BY <2>1, <2>3, <1>5, Inserted
  <2>6. Ordered(sorted') /\ \A g : g \in Range(sorted') <=> g \in Range(sorted) \/ g = valid[j]
        BY <2>1, <2>3, <2>4, <1>5, InsertionSorts
  <2>7. MaskTypes'
        BY <2>2, <2>5, <1>3 DEF MaskTypes
  <2>8. Range(sorted') = {valid[i] : i \in 1..j}
        BY <2>3, <2>4, <2>6
  <2>9. Sorting'
    <3>1. merged' = <<>> /\ pos' = 0 /\ out' = <<>> /\ Range(valid') = Mask!Usable(findings)'
          BY <1>2, <1>3, <1>4 DEF Sorting
    <3>2. j' <= Len(valid') + 1 /\ Range(sorted') = {valid'[i] : i \in 1..(j' - 1)}
          BY <2>2, <2>3, <2>8, <1>3, <1>5, <1>6
    <3> QED
          BY <3>1, <3>2, <2>6 DEF Sorting
  <2> QED
        BY <2>2, <2>7, <2>9, <1>2 DEF Masking
<1>7. CASE ~(j <= Len(valid))
  <2>1. j' = 1 /\ step' = "merge" /\ sorted' = sorted
        BY <1>7 DEF Mask!Sort
  <2>2. MaskTypes'
        BY <2>1, <1>3 DEF MaskTypes
  <2>3. j - 1 = Len(valid) /\ Range(valid) = {valid[i] : i \in 1..Len(valid)}
        BY <1>2, <1>5, <1>7, RangeIndexed DEF Sorting
  <2>4. Range(sorted) = Mask!Usable(findings)
        BY <2>3, <1>2 DEF Sorting
  <2>5. merged' = <<>> /\ j' - 1 = 0 /\ Len(sorted) \in Nat
        BY <2>1, <1>2, <1>3, <1>5 DEF Sorting
  <2>6. Disjoint(merged)' /\ Chains(merged, sorted, j - 1)'
        BY <2>5 DEF Disjoint, Chains
  <2>7. Merging'
    <3>1. pos' = 0 /\ out' = <<>> /\ Range(sorted') = Mask!Usable(findings)'
          BY <2>1, <2>4, <1>2, <1>3, <1>4 DEF Sorting
    <3>2. Ordered(sorted') /\ j' <= Len(sorted') + 1
          BY <2>1, <2>5, <1>2 DEF Sorting
    <3> QED
          BY <3>1, <3>2, <2>6 DEF Merging
  <2> QED
        BY <2>1, <2>2, <2>7 DEF Masking
<1> QED
      BY <1>6, <1>7

(* One round of the merging loop.                                          *)
LEMMA MergeRound ==
    ASSUME Size \in Nat, NEW s \in Seq(Finding), NEW m \in Seq(Span),
           NEW i \in 1..Len(s), Ordered(s),
           \A h \in 1..Len(s) : 0 <= s[h].Start /\ s[h].Start < s[h].End /\ s[h].End <= Size,
           Disjoint(m), Chains(m, s, i - 1)
    PROVE  /\ Mask!MergeInto(m, s[i]) \in Seq(Span)
           /\ Disjoint(Mask!MergeInto(m, s[i]))
           /\ Chains(Mask!MergeInto(m, s[i]), s, i)
<1> DEFINE f == s[i]
           L == Len(m)
           r == Mask!MergeInto(m, s[i])
<1>a. \A h \in 1..Len(s) : s[h] \in Finding
      OBVIOUS
<1>b. \A h \in 1..Len(s) : s[h].Start \in Int /\ s[h].End \in Int
      BY <1>a DEF Finding
<1>c. \A h \in 1..Len(s) : s[h].Start \in Nat /\ s[h].End \in Nat
      BY <1>b
<1>1. L \in Nat /\ i \in Nat /\ \A h \in 1..Len(s) : s[h].Start \in Nat /\ s[h].End \in Nat
      BY <1>c
<1>2. \A a \in 1..L : m[a] \in Span
      OBVIOUS
<1>3. \A a \in 1..L : m[a].from \in Nat /\ m[a].to \in Nat
      BY <1>2 DEF Span
<1>4. 1..i = (1..(i - 1)) \cup {i} /\ i \in 1..i /\ 1..(i - 1) \subseteq 1..i
      BY <1>1
<1>5. f.Start \in Nat /\ f.End \in Nat /\ f.Start < f.End /\ f.End <= Size
      BY <1>1
<1>6. CASE m = <<>> \/ ~(f.Start < m[L].to)
  <2> DEFINE e == [from |-> f.Start, to |-> f.End]
  <2>1. r = Append(m, e)
        BY <1>6 DEF Mask!MergeInto
  <2>2. e \in Span /\ e.from = f.Start /\ e.to = f.End
        BY <1>5 DEF Span
  <2> HIDE DEF e, f
  <2>3. /\ r \in Seq(Span) /\ Len(r) = L + 1
        /\ \A a \in 1..L : r[a] = m[a]
        /\ r[L + 1] = e
        BY <2>1, <2>2
  <2> HIDE DEF r
  <2>4. 1..(L + 1) = (1..L) \cup {L + 1}
        BY <1>1
  <2>5. ASSUME NEW a \in 1..L PROVE m[a].to <= f.Start
    <3>1. m # <<>> /\ L \in 1..L
          BY <1>1
    <3>2. m[L].to <= f.Start
          BY <1>3, <1>5, <1>6, <3>1
    <3>3. CASE a = L
          BY <3>2, <3>3
    <3>4. CASE a < L
      <4>1. m[a].to <= m[L].from /\ m[L].from < m[L].to
            BY <3>1, <3>4 DEF Disjoint
      <4> QED
            BY SMTT(30), <4>1, <3>1, <3>2, <1>3, <1>5
    <3> QED
          BY <3>3, <3>4, <1>1
  <2>6. Disjoint(r)
    <3> SUFFICES ASSUME NEW a \in 1..(L + 1)
                 PROVE  /\ r[a].from < r[a].to /\ r[a].to <= Size
                        /\ \A b \in 1..(L + 1) : a < b => r[a].to <= r[b].from
        BY <2>3 DEF Disjoint
    <3>1. CASE a \in 1..L
      <4>1. r[a] = m[a] /\ m[a].from < m[a].to /\ m[a].to <= Size
            BY <3>1, <2>3 DEF Disjoint
      <4>2. ASSUME NEW b \in 1..(L + 1), a < b PROVE r[a].to <= r[b].from
        <5>1. CASE b \in 1..L
              BY <3>1, <4>1, <4>2, <5>1, <2>3 DEF Disjoint
        <5>2. CASE b = L + 1
              BY <3>1, <4>1, <5>2, <2>2, <2>3, <2>5
        <5> QED
              BY <5>1, <5>2, <2>4
      <4> QED
            BY <4>1, <4>2
    <3>2. CASE a = L + 1
      <4>1. r[a].from < r[a].to /\ r[a].to <= Size
            BY <3>2, <2>2, <2>3, <1>5 DEF f
      <4>2. \A b \in 1..(L + 1) : ~(a < b)
            BY <3>2, <1>1
      <4> QED
            BY <4>1, <4>2
    <3> QED
          BY <3>1, <3>2, <2>4
  <2>7. Chains(r, s, i)
    <3>1. ASSUME NEW h \in 1..i
          PROVE  \E a \in 1..(L + 1) : r[a].from <= s[h].Start /\ s[h].End <= r[a].to
      <4>1. CASE h \in 1..(i - 1)
        <5>1. PICK a \in 1..L : m[a].from <= s[h].Start /\ s[h].End <= m[a].to
              BY <4>1 DEF Chains
        <5> QED
              BY <5>1, <2>3, <2>4
      <4>2. CASE h = i
        <5>1. r[L + 1].from <= s[h].Start /\ s[h].End <= r[L + 1].to
              BY <4>2, <2>2, <2>3, <1>5 DEF f
        <5> QED
              BY <5>1, <2>4
      <4> QED
            BY <4>1, <4>2, <1>4
    <3>2. ASSUME NEW a \in 1..(L + 1)
          PROVE  /\ \E h \in 1..i : s[h].Start = r[a].from
                 /\ \A x \in (r[a].from + 1)..(r[a].to - 1) : \E h \in 1..i : s[h].Start < x /\ x < s[h].End
      <4>1. CASE a \in 1..L
            BY <4>1, <2>3, <1>4 DEF Chains
      <4>2. CASE a = L + 1
        <5>1. s[i].Start = r[a].from /\ s[i].End = r[a].to
              BY <4>2, <2>2, <2>3 DEF f
        <5>2. \A x \in (r[a].from + 1)..(r[a].to - 1) : s[i].Start < x /\ x < s[i].End
              BY SMTT(30), <5>1, <1>5 DEF f
        <5> QED
              BY <5>1, <5>2, <1>4
      <4> QED
            BY <4>1, <4>2, <2>4
    <3> QED
          BY <3>1, <3>2, <2>3 DEF Chains
  <2> QED
        BY <2>3, <2>6, <2>7 DEF r
<1>7. ASSUME m # <<>>, f.Start < m[L].to PROVE L \in 1..L /\ m[L].from <= f.Start
  <2>1. L \in 1..L
        BY <1>7, <1>1
  <2>2. PICK g \in 1..(i - 1) : s[g].Start = m[L].from
        BY <2>1 DEF Chains
  <2>3. g \in 1..Len(s) /\ g <= i
        BY <1>1
  <2>4. s[g].Start <= s[i].Start
        BY <2>3 DEF Ordered
  <2> QED
        BY <2>1, <2>2, <2>4
<1>8. CASE m # <<>> /\ f.Start < m[L].to /\ f.End > m[L].to
  <2>1. r = [m EXCEPT ![L].to = f.End]
        BY <1>8 DEF Mask!MergeInto
  <2>2. L \in 1..L /\ m[L].from <= f.Start
        BY <1>7, <1>8
  <2>3. [m[L] EXCEPT !.to = f.End] \in Span
        BY <2>2, <1>2, <1>5 DEF Span
  <2>4. r = [m EXCEPT ![L] = [m[L] EXCEPT !.to = f.End]]
        BY <2>1
  <2> DEFINE e == [m[L] EXCEPT !.to = f.End]
  <2>5. e \in Span /\ e.from = m[L].from /\ e.to = f.End
        BY <2>2, <2>3, <1>2 DEF Span
  <2>6. r = [m EXCEPT ![L] = e]
        BY <2>4
  <2> HIDE DEF e, r, f
  <2>7. /\ r \in Seq(Span) /\ Len(r) = L
        /\ \A a \in 1..L : a # L => r[a] = m[a]
        /\ r[L] = e
        BY <2>2, <2>5, <2>6
  <2>8. r[L].from = m[L].from /\ r[L].to = f.End /\ m[L].to < r[L].to
        BY <2>2, <2>5, <2>7, <1>3, <1>5, <1>8
  <2>9. Disjoint(r)
    <3> SUFFICES ASSUME NEW a \in 1..L
                 PROVE  /\ r[a].from < r[a].to /\ r[a].to <= Size
                        /\ \A b \in 1..L : a < b => r[a].to <= r[b].from
        BY <2>7 DEF Disjoint
    <3>1. CASE a # L
      <4>1. r[a] = m[a] /\ m[a].from < m[a].to /\ m[a].to <= Size
            BY <3>1, <2>7 DEF Disjoint
      <4>2. ASSUME NEW b \in 1..L, a < b PROVE r[a].to <= r[b].from
        <5>1. m[a].to <= m[b].from
              BY <4>2 DEF Disjoint
        <5>2. r[b].from = m[b].from
              BY <2>7, <2>8
        <5> QED
              BY <4>1, <5>1, <5>2
      <4> QED
            BY <4>1, <4>2
    <3>2. CASE a = L
      <4>1. r[a].from < r[a].to /\ r[a].to <= Size
        <5>1. m[L].from < m[L].to
              BY <2>2 DEF Disjoint
        <5> QED
              BY <3>2, <5>1, <2>2, <2>8, <1>3, <1>5 DEF f
      <4>2. \A b \in 1..L : ~(a < b)
            BY <3>2, <1>1
      <4> QED
            BY <4>1, <4>2
    <3> QED
          BY <3>1, <3>2
  <2>10. Chains(r, s, i)
    <3>1. ASSUME NEW h \in 1..i
          PROVE  \E a \in 1..L : r[a].from <= s[h].Start /\ s[h].End <= r[a].to
      <4>1. CASE h \in 1..(i - 1)
        <5>1. PICK a \in 1..L : m[a].from <= s[h].Start /\ s[h].End <= m[a].to
              BY <4>1 DEF Chains
        <5>2. h \in 1..Len(s)
              BY <4>1, <1>1
        <5>4. r[a].to \in Nat
              BY <2>7, <2>8, <1>3, <1>5 DEF f
        <5>3. r[a].from = m[a].from /\ m[a].to <= r[a].to
          <6>1. CASE a = L
                BY <6>1, <5>4, <2>8, <1>3
          <6>2. CASE a # L
                BY <6>2, <2>7, <1>3
          <6> QED
                BY <6>1, <6>2
        <5> QED
              BY <5>1, <5>2, <5>3, <5>4, <1>1, <1>3
      <4>2. CASE h = i
        <5>1. r[L].from <= s[h].Start /\ s[h].End <= r[L].to
              BY <4>2, <2>2, <2>8, <1>5 DEF f
        <5> QED
              BY <5>1, <2>2
      <4> QED
            BY <4>1, <4>2, <1>4
    <3>2. ASSUME NEW a \in 1..L PROVE \E h \in 1..i : s[h].Start = r[a].from
      <4>1. r[a].from = m[a].from
            BY <2>7, <2>8
      <4>2. PICK h \in 1..(i - 1) : s[h].Start = m[a].from
            BY DEF Chains
      <4> QED
            BY <4>1, <4>2, <1>4
    <3>3. ASSUME NEW a \in 1..L, NEW x \in (r[a].from + 1)..(r[a].to - 1)
          PROVE  \E h \in 1..i : s[h].Start < x /\ x < s[h].End
      <4>1. CASE x \in (m[a].from + 1)..(m[a].to - 1)
        <5>1. PICK h \in 1..(i - 1) : s[h].Start < x /\ x < s[h].End
              BY <4>1 DEF Chains
        <5> QED
              BY <5>1, <1>4
      <4>2. CASE x \notin (m[a].from + 1)..(m[a].to - 1)
        <5>1. a = L
              BY <4>2, <2>7
        <5>2. x \in Int /\ m[L].to <= x /\ x < f.End
              BY SMTT(30), <4>2, <5>1, <2>2, <2>8, <1>3, <1>5 DEF f
        <5>3. s[i].Start < x /\ x < s[i].End
              BY SMTT(30), <5>2, <2>2, <1>3, <1>5, <1>8 DEF f
        <5> QED
              BY <5>3, <1>4
      <4> QED
            BY <4>1, <4>2
    <3> QED
          BY <3>1, <3>2, <3>3, <2>7 DEF Chains
  <2> QED
        BY <2>7, <2>9, <2>10 DEF r
<1>9. CASE m # <<>> /\ f.Start < m[L].to /\ ~(f.End > m[L].to)
  <2>1. r = m
        BY <1>9 DEF Mask!MergeInto
  <2>2. L \in 1..L /\ m[L].from <= f.Start /\ f.End <= m[L].to
        BY <1>3, <1>5, <1>7, <1>9
  <2>3. Chains(m, s, i)
    <3>1. ASSUME NEW h \in 1..i
          PROVE  \E a \in 1..L : m[a].from <= s[h].Start /\ s[h].End <= m[a].to
      <4>1. CASE h \in 1..(i - 1)
            BY <4>1 DEF Chains
      <4>2. CASE h = i
            BY <4>2, <2>2
      <4> QED
            BY <4>1, <4>2, <1>4
    <3>2. ASSUME NEW a \in 1..L
          PROVE  /\ \E h \in 1..i : s[h].Start = m[a].from
                 /\ \A x \in (m[a].from + 1)..(m[a].to - 1) : \E h \in 1..i : s[h].Start < x /\ x < s[h].End
          BY <1>4 DEF Chains
    <3> QED
          BY <3>1, <3>2 DEF Chains
  <2> QED
        BY <2>1, <2>3
<1> QED
      BY <1>6, <1>8, <1>9

LEMMA StepMerge ==
    ASSUME empty \in BOOLEAN, findings \in Seq(Finding), MaskTypes, Masking,
           MaskUnchanged, Mask!Merge
    PROVE  /\ MaskTypes' /\ Masking'
           /\ step' \in {"merge", "copy"}
<1>1. Size \in Nat /\ Size' = Size
      BY SizeNat DEF MaskUnchanged, Size
<1>2. Merging /\ step = "merge"
      BY DEF Masking, Mask!Merge
<1>3. /\ valid' = valid /\ sorted' = sorted /\ pos' = pos /\ findings' = findings /\ out' = out
      BY DEF Mask!Merge
<1>4. /\ Mask!Usable(findings)' = Mask!Usable(findings)
      /\ \A x : Mask!IsHidden(findings, x)' <=> Mask!IsHidden(findings, x)
      /\ \A x : Mask!StartsRange(findings, x)' <=> Mask!StartsRange(findings, x)
      /\ Mask!Walk(findings)' = Mask!Walk(findings)
      BY <1>1, <1>3 DEF Mask!Usable, Mask!IsHidden, Mask!StartsRange, Mask!Walk
<1>5. sorted \in Seq(Finding) /\ merged \in Seq(Span) /\ j \in Nat \ {0} /\ Len(sorted) \in Nat
      BY DEF MaskTypes
<1>6. Range(sorted) = {sorted[h] : h \in 1..Len(sorted)}
      BY <1>5, RangeIndexed
<1>7. \A h \in 1..Len(sorted) :
          0 <= sorted[h].Start /\ sorted[h].Start < sorted[h].End /\ sorted[h].End <= Size
      BY <1>2, <1>6 DEF Merging, Mask!Usable
<1>8. CASE j <= Len(sorted)
  <2>1. merged' = Mask!MergeInto(merged, sorted[j]) /\ j' = j + 1 /\ step' = step
        BY <1>8 DEF Mask!Merge
  <2>2. j \in 1..Len(sorted) /\ (j + 1) - 1 = j
        BY <1>5, <1>8
  <2>3. Ordered(sorted) /\ Disjoint(merged) /\ Chains(merged, sorted, j - 1)
        BY <1>2 DEF Merging
  <2>4. merged' \in Seq(Span) /\ Disjoint(Mask!MergeInto(merged, sorted[j])) /\ Chains(merged', sorted, j)
        BY <2>1, <2>2, <2>3, <1>1, <1>5, <1>7, MergeRound
  <2>5. Disjoint(merged)'
        BY <2>1, <2>4, <1>1 DEF Disjoint
  <2>6. MaskTypes'
        BY <2>1, <2>4, <1>3 DEF MaskTypes
  <2>7. Merging'
    <3>1. pos' = 0 /\ out' = <<>> /\ Range(sorted') = Mask!Usable(findings)' /\ Ordered(sorted')
          BY <1>2, <1>3, <1>4 DEF Merging
    <3>2. j' <= Len(sorted') + 1 /\ Chains(merged', sorted', j' - 1)
          BY <2>1, <2>2, <2>4, <1>3, <1>5
    <3> QED
          BY <3>1, <3>2, <2>5 DEF Merging
  <2> QED
        BY <2>1, <2>6, <2>7, <1>2 DEF Masking
<1>9. CASE ~(j <= Len(sorted))
  <2>1. j' = 1 /\ step' = "copy" /\ merged' = merged
        BY <1>9 DEF Mask!Merge
  <2>2. MaskTypes'
        BY <2>1, <1>3 DEF MaskTypes
  <2>3. j - 1 = Len(sorted) /\ pos = 0 /\ out = <<>> /\ Disjoint(merged)
        BY <1>2, <1>5, <1>9 DEF Merging
  <2>4. Chains(merged, sorted, Len(sorted))
        BY <2>3, <1>2 DEF Merging
  <2>5. Mask!Usable(findings) = {sorted[h] : h \in 1..Len(sorted)}
        BY <1>2, <1>6 DEF Merging
  <2>6. Len(merged) \in Nat /\ \A a \in 1..Len(merged) : merged[a].from \in Nat /\ merged[a].to \in Nat
    <3>1. \A a \in 1..Len(merged) : merged[a] \in Span
          BY <1>5
    <3> QED
          BY <3>1, <1>5 DEF Span
  <2>7. \A h \in 1..Len(sorted) : sorted[h].Start \in Int /\ sorted[h].End \in Int
    <3>1. \A h \in 1..Len(sorted) : sorted[h] \in Finding
          BY <1>5
    <3> QED
          BY <3>1 DEF Finding
  <2>8. ASSUME NEW x \in 0..(Size - 1)
        PROVE  Mask!IsHidden(findings, x) <=> \E a \in 1..Len(merged) : merged[a].from <= x /\ x < merged[a].to
    <3>0. x \in Int
          OBVIOUS
    <3>1. ASSUME Mask!IsHidden(findings, x)
          PROVE  \E a \in 1..Len(merged) : merged[a].from <= x /\ x < merged[a].to
      <4>1. PICK h \in 1..Len(sorted) : sorted[h].Start <= x /\ x < sorted[h].End
            BY <3>1, <2>5 DEF Mask!IsHidden
      <4>2. PICK a \in 1..Len(merged) : merged[a].from <= sorted[h].Start /\ sorted[h].End <= merged[a].to
            BY <2>4 DEF Chains
      <4> QED
            BY <3>0, <4>1, <4>2, <2>6, <2>7
    <3>2. ASSUME NEW a \in 1..Len(merged), merged[a].from <= x, x < merged[a].to
          PROVE  Mask!IsHidden(findings, x)
      <4>1. \E h \in 1..Len(sorted) : sorted[h].Start <= x /\ x < sorted[h].End
        <5>1. CASE x = merged[a].from
          <6>1. PICK h \in 1..Len(sorted) : sorted[h].Start = merged[a].from
                BY <2>4 DEF Chains
          <6> QED
                BY <5>1, <6>1, <1>7, <2>6, <2>7
        <5>2. CASE x # merged[a].from
          <6>1. x \in (merged[a].from + 1)..(merged[a].to - 1)
                BY <3>0, <3>2, <5>2, <2>6
          <6>2. PICK h \in 1..Len(sorted) : sorted[h].Start < x /\ x < sorted[h].End
                BY <6>1, <2>4 DEF Chains
          <6> QED
                BY <3>0, <6>2, <2>7
        <5> QED
              BY <5>1, <5>2
      <4> QED
            BY <4>1, <2>5 DEF Mask!IsHidden
    <3> QED
          BY <3>1, <3>2
  <2>9. ASSUME NEW x \in 0..(Size - 1)
        PROVE  Mask!StartsRange(findings, x) <=> \E a \in 1..Len(merged) : merged[a].from = x
    <3>0. x \in Int
          OBVIOUS
    <3>1. ASSUME Mask!StartsRange(findings, x)
          PROVE  \E a \in 1..Len(merged) : merged[a].from = x
      <4>1. PICK h \in 1..Len(sorted) : sorted[h].Start = x
            BY <3>1, <2>5 DEF Mask!StartsRange
      <4>2. PICK a \in 1..Len(merged) : merged[a].from <= sorted[h].Start /\ sorted[h].End <= merged[a].to
            BY <2>4 DEF Chains
      <4>3. ASSUME merged[a].from # x PROVE FALSE
        <5>1. x \in (merged[a].from + 1)..(merged[a].to - 1)
              BY SMTT(30), <3>0, <4>1, <4>2, <4>3, <1>7, <2>6, <2>7
        <5>2. PICK g \in 1..Len(sorted) : sorted[g].Start < x /\ x < sorted[g].End
              BY <5>1, <2>4 DEF Chains
        <5> QED
              BY <5>2, <3>1, <2>5 DEF Mask!StartsRange
      <4> QED
            BY <4>3
    <3>2. ASSUME NEW a \in 1..Len(merged), merged[a].from = x
          PROVE  Mask!StartsRange(findings, x)
      <4>1. \E h \in 1..Len(sorted) : sorted[h].Start = x
            BY <3>2, <2>4 DEF Chains
      <4>2. ASSUME NEW g \in 1..Len(sorted), sorted[g].Start < x, x < sorted[g].End PROVE FALSE
        <5>1. PICK b \in 1..Len(merged) : merged[b].from <= sorted[g].Start /\ sorted[g].End <= merged[b].to
              BY <2>4 DEF Chains
        <5>2. merged[b].from < merged[a].from /\ merged[a].from < merged[b].to /\ merged[a].from < merged[a].to
          <6>1. merged[a].from < merged[a].to
                BY <2>3 DEF Disjoint
          <6> QED
              BY SMTT(30), <3>0, <3>2, <4>2, <5>1, <6>1, <2>6, <2>7
        <5>3. (a < b => merged[a].to <= merged[b].from) /\ (b < a => merged[b].to <= merged[a].from)
              BY <2>3 DEF Disjoint
        <5> QED
              BY SMTT(30), <5>2, <5>3, <2>6
      <4> QED
            BY <4>1, <4>2, <2>5 DEF Mask!StartsRange
    <3> QED
          BY <3>1, <3>2
  <2>10. Copying'
    <3>1. Disjoint(merged)'
          BY <2>1, <2>3, <1>1 DEF Disjoint
    <3>2. \A x \in 0..(Size' - 1) :
            /\ Mask!IsHidden(findings, x)' <=> \E a \in 1..Len(merged') : merged'[a].from <= x /\ x < merged'[a].to
            /\ Mask!StartsRange(findings, x)' <=> \E a \in 1..Len(merged') : merged'[a].from = x
          BY <2>1, <2>8, <2>9, <1>1, <1>4
    <3>3. j' <= Len(merged') + 1 /\ pos' = 0 /\ j' = 1 /\ out' = <<>>
          BY <2>1, <2>3, <2>6, <1>3
    <3>4. Mask!Walk(findings)'[0] = <<>>
          BY <1>1, <1>4, WalkLoop
    <3> QED
          BY <3>1, <3>2, <3>3, <3>4 DEF Copying
  <2> QED
        BY <2>1, <2>2, <2>10 DEF Masking
<1> QED
      BY <1>8, <1>9

(* Where the copying loop stands among the merged ranges.                  *)
LEMMA CopyPosition ==
    ASSUME Size \in Nat, MaskTypes, Copying
    PROVE  /\ pos \in 0..Size
           /\ Len(merged) \in Nat
           /\ \A a \in 1..Len(merged) : merged[a].from \in Nat /\ merged[a].to \in Nat
           /\ \A a \in 1..Len(merged) : a < j => merged[a].to <= pos
           /\ \A a \in 1..Len(merged) : a >= j => pos <= merged[a].from
<1>1. merged \in Seq(Span) /\ Len(merged) \in Nat /\ j \in Nat \ {0}
      BY DEF MaskTypes
<1>2. \A a \in 1..Len(merged) : merged[a] \in Span
      BY <1>1
<1>3. \A a \in 1..Len(merged) : merged[a].from \in Nat /\ merged[a].to \in Nat
      BY <1>2 DEF Span
<1>4. /\ \A a \in 1..Len(merged) : merged[a].from < merged[a].to /\ merged[a].to <= Size
      /\ \A a, b \in 1..Len(merged) : a < b => merged[a].to <= merged[b].from
      BY DEF Copying, Disjoint
<1>5. CASE j = 1
  <2>1. pos = 0
        BY <1>5 DEF Copying
  <2> QED
        BY <1>1, <1>3, <1>5, <2>1
<1>6. CASE j # 1
  <2>1. j - 1 \in 1..Len(merged) /\ pos = merged[j - 1].to
        BY <1>1, <1>6 DEF Copying
  <2>2. pos \in 0..Size
        BY <2>1, <1>3, <1>4
  <2>3. ASSUME NEW a \in 1..Len(merged), a < j PROVE merged[a].to <= pos
    <3>1. CASE a = j - 1
          BY <2>1, <3>1, <1>3
    <3>2. CASE a < j - 1
      <4>1. merged[a].to <= merged[j - 1].from /\ merged[j - 1].from < merged[j - 1].to
            BY <2>1, <3>2, <1>4
      <4> QED
            BY <4>1, <2>1, <1>3
    <3> QED
          BY <2>3, <3>1, <3>2, <1>1
  <2>4. ASSUME NEW a \in 1..Len(merged), a >= j PROVE pos <= merged[a].from
    <3>1. j - 1 < a
          BY <2>4, <1>1
    <3> QED
          BY <3>1, <2>1, <1>4
  <2> QED
        BY <2>2, <2>3, <2>4, <1>1, <1>3
<1> QED
      BY <1>5, <1>6

LEMMA StepCopy ==
    ASSUME empty \in BOOLEAN, findings \in Seq(Finding), MaskTypes, Masking,
           MaskUnchanged, Mask!Copy
    PROVE  /\ MaskTypes' /\ Masking'
           /\ step' \in {"copy", "done"}
<1> DEFINE W == Mask!Walk(findings)
<1>1. Size \in Nat /\ Size' = Size
      BY SizeNat DEF MaskUnchanged, Size
<1>2. Copying /\ step = "copy"
      BY DEF Masking, Mask!Copy
<1>3. valid' = valid /\ sorted' = sorted /\ merged' = merged /\ findings' = findings
      BY DEF Mask!Copy
<1>4. /\ \A x : Mask!IsHidden(findings, x)' <=> Mask!IsHidden(findings, x)
      /\ \A x : Mask!StartsRange(findings, x)' <=> Mask!StartsRange(findings, x)
      /\ Mask!Walk(findings)' = W
      BY <1>1, <1>3 DEF Mask!Usable, Mask!IsHidden, Mask!StartsRange, Mask!Walk
<1>5. /\ pos \in 0..Size /\ Len(merged) \in Nat
      /\ \A a \in 1..Len(merged) : merged[a].from \in Nat /\ merged[a].to \in Nat
      /\ \A a \in 1..Len(merged) : a < j => merged[a].to <= pos
      /\ \A a \in 1..Len(merged) : a >= j => pos <= merged[a].from
      BY <1>1, <1>2, CopyPosition
<1>6. /\ \A a \in 1..Len(merged) : merged[a].from < merged[a].to /\ merged[a].to <= Size
      /\ \A a, b \in 1..Len(merged) : a < b => merged[a].to <= merged[b].from
      BY <1>2 DEF Copying, Disjoint
<1>7. /\ \A x \in 0..(Size - 1) :
            Mask!IsHidden(findings, x) <=> \E a \in 1..Len(merged) : merged[a].from <= x /\ x < merged[a].to
      /\ \A x \in 0..(Size - 1) :
            Mask!StartsRange(findings, x) <=> \E a \in 1..Len(merged) : merged[a].from = x
      /\ out = W[pos] /\ j <= Len(merged) + 1 /\ j \in Nat \ {0} /\ out \in Seq(Int)
      BY <1>2 DEF Copying, MaskTypes
<1>8. CASE j <= Len(merged)
  <2> DEFINE p == merged[j].from
             q == merged[j].to
  <2>1. /\ out' = (out \o Mask!Slice(pos, p)) \o <<Mask!Placeholder>>
        /\ pos' = q /\ j' = j + 1 /\ step' = step
        BY <1>8 DEF Mask!Copy
  <2>2. j \in 1..Len(merged) /\ p \in Nat /\ q \in Nat /\ p < q /\ q <= Size /\ pos <= p
        BY <1>5, <1>6, <1>7, <1>8
  <2>3. ASSUME NEW x \in pos..(p - 1)
        PROVE  ~Mask!IsHidden(findings, x) /\ ~Mask!StartsRange(findings, x)
    <3>1. x \in 0..(Size - 1) /\ x \in Int /\ pos <= x /\ x < p
          BY <2>2, <1>1, <1>5
    <3>2. ASSUME NEW a \in 1..Len(merged), merged[a].from <= x, x < merged[a].to PROVE FALSE
      <4>1. CASE a < j
            BY <3>1, <3>2, <4>1, <1>5
      <4>2. CASE a >= j
        <5>1. p <= merged[a].from
          <6>1. CASE a = j
                BY <6>1, <2>2
          <6>2. CASE a # j
            <7>1. j < a
                  BY <4>2, <6>2, <2>2
            <7>2. q <= merged[a].from
                  BY <7>1, <2>2, <1>6
            <7> QED
                  BY SMTT(30), <7>2, <2>2, <1>5
          <6> QED
                BY <6>1, <6>2
        <5> QED
              BY <5>1, <3>1, <3>2, <2>2, <1>5
      <4> QED
            BY <4>1, <4>2, <2>2
    <3>3. ~Mask!IsHidden(findings, x)
          BY <3>1, <3>2, <1>7
    <3>4. ASSUME NEW a \in 1..Len(merged), merged[a].from = x PROVE FALSE
      <4>1. merged[a].from <= x /\ x < merged[a].to
            BY <3>1, <3>4, <1>5, <1>6
      <4> QED
            BY <4>1, <3>2
    <3>5. ~Mask!StartsRange(findings, x)
          BY <3>1, <3>4, <1>7
    <3> QED
          BY <3>3, <3>5
  <2>4. W[p] = W[pos] \o Mask!Slice(pos, p)
    <3>1. pos \in 0..Size /\ p \in pos..Size
          BY <2>2, <1>1, <1>5
    <3> HIDE DEF p
    <3> QED
          BY <3>1, <2>3, <1>1, WalkPlain
  <2>5. W[q] = W[p] \o <<Mask!Placeholder>>
    <3>1. p \in 0..Size /\ q \in (p + 1)..Size
          BY <2>2, <1>1
    <3>2. Mask!StartsRange(findings, p)
      <4>1. p \in 0..(Size - 1)
            BY <2>2, <1>1
      <4>2. \E a \in 1..Len(merged) : merged[a].from = p
            BY <2>2
      <4> HIDE DEF p
      <4> QED
            BY <4>1, <4>2, <1>7
    <3>3. ASSUME NEW x \in p..(q - 1) PROVE Mask!IsHidden(findings, x)
      <4>1. x \in 0..(Size - 1) /\ p <= x /\ x < q
            BY <2>2, <1>1
      <4> QED
            BY <4>1, <2>2, <1>7
    <3>4. ASSUME NEW x \in (p + 1)..(q - 1) PROVE ~Mask!StartsRange(findings, x)
      <4>1. x \in 0..(Size - 1) /\ x \in Int /\ p < x /\ x < q
            BY <2>2, <1>1
      <4>2. ASSUME NEW a \in 1..Len(merged), merged[a].from = x PROVE FALSE
        <5>1. CASE a = j
              BY <5>1, <4>1, <4>2, <2>2
        <5>2. CASE a < j
          <6>1. merged[a].to <= p /\ x < merged[a].to
                BY <5>2, <4>2, <2>2, <1>6
          <6> QED
                BY <6>1, <4>1, <2>2, <1>5
        <5>3. CASE a > j
          <6>1. q <= x
                BY <5>3, <4>2, <2>2, <1>6
          <6> QED
                BY <6>1, <4>1, <2>2
        <5> QED
              BY <5>1, <5>2, <5>3, <2>2
      <4> QED
            BY <4>1, <4>2, <1>7
    <3> HIDE DEF p, q
    <3> QED
          BY <3>1, <3>2, <3>3, <3>4, <1>1, WalkRange
  <2>6. out' = W[q]
    <3> HIDE DEF p, q, W
    <3> QED
        BY <2>1, <2>4, <2>5, <1>7
  <2>7. W[q] \in Seq(Int)
    <3>1. q \in 0..Size
          BY <2>2, <1>1
    <3> QED
          BY <3>1, <1>1, WalkLoop
  <2>8. MaskTypes'
    <3>1. out' \in Seq(Int)
          BY <2>6, <2>7
    <3>2. pos' \in Nat /\ j' \in Nat \ {0}
          BY <2>1, <2>2
    <3> QED
          BY <3>1, <3>2, <1>3 DEF MaskTypes
  <2>9. Copying'
    <3>1. Disjoint(merged)'
          BY <1>1, <1>2, <1>3 DEF Copying, Disjoint
    <3>2. \A x \in 0..(Size' - 1) :
            /\ Mask!IsHidden(findings, x)' <=> \E a \in 1..Len(merged') : merged'[a].from <= x /\ x < merged'[a].to
            /\ Mask!StartsRange(findings, x)' <=> \E a \in 1..Len(merged') : merged'[a].from = x
          BY <1>1, <1>3, <1>4, <1>7
    <3>3. j' <= Len(merged') + 1 /\ j' # 1 /\ j' - 1 = j
          BY <2>1, <2>2, <1>3, <1>5
    <3>4. pos' = merged'[j' - 1].to
          BY <2>1, <3>3, <1>3
    <3>5. out' = Mask!Walk(findings)'[pos']
          BY <2>1, <2>6, <1>4
    <3> QED
          BY <3>1, <3>2, <3>3, <3>4, <3>5 DEF Copying
  <2> QED
        BY <2>1, <2>8, <2>9, <1>2 DEF Masking
<1>9. CASE ~(j <= Len(merged))
  <2>1. out' = out \o Mask!Slice(pos, Size) /\ step' = "done" /\ pos' = pos /\ j' = j
        BY <1>9 DEF Mask!Copy
  <2>2. ASSUME NEW x \in pos..(Size - 1)
        PROVE  ~Mask!IsHidden(findings, x) /\ ~Mask!StartsRange(findings, x)
    <3>1. x \in 0..(Size - 1) /\ x \in Int /\ pos <= x
          BY <1>1, <1>5
    <3>2. \A a \in 1..Len(merged) : merged[a].to <= pos
          BY <1>5, <1>7, <1>9
    <3>3. ASSUME NEW a \in 1..Len(merged), merged[a].from <= x, x < merged[a].to PROVE FALSE
          BY <3>1, <3>2, <3>3, <1>5
    <3>4. ASSUME NEW a \in 1..Len(merged), merged[a].from = x PROVE FALSE
      <4>1. merged[a].from <= x /\ x < merged[a].to
            BY <3>1, <3>4, <1>5, <1>6
      <4> QED
            BY <4>1, <3>3
    <3> QED
          BY <3>1, <3>3, <3>4, <1>7
  <2>3. pos \in 0..Size /\ Size \in pos..Size
        BY <1>1, <1>5
  <2>4. W[Size] = W[pos] \o Mask!Slice(pos, Size)
        BY <2>2, <2>3, <1>1, WalkPlain
  <2>5. W[Size] \in Seq(Int)
        BY <2>3, <1>1, WalkLoop
  <2>6. out' = W[Size]
        BY <2>1, <2>4, <1>7
  <2>7. Mask!Reference(findings)' = W[Size]
        BY <1>1, <1>4 DEF Mask!Reference
  <2>8. MaskTypes'
        BY <2>1, <2>5, <2>6, <1>3 DEF MaskTypes
  <2> QED
        BY <2>1, <2>6, <2>7, <2>8 DEF Masking
<1> QED
      BY <1>8, <1>9

-----------------------------------------------------------------------------
(***************************************************************************)
(* The scan: one lemma per action.                                         *)
(***************************************************************************)
ScanPhases == {"scan", "wait", "next", "merge", "process"}

LEMMA Int32Typed ==
    ASSUME NEW x \in Int
    PROVE  int32(x) \in Int
<1>1. 2 * OffsetLimit \in Nat \ {0} /\ x + OffsetLimit \in Int /\ OffsetLimit \in Int
      BY WireAssumption
<1> DEFINE a == x + OffsetLimit
           b == 2 * OffsetLimit
<1>2. a % b \in Int
  <2> HIDE DEF a, b
  <2> QED
      BY <1>1 DEF a, b
<1> QED
      BY <1>1, <1>2 DEF int32

LEMMA Int32Keeps ==
    ASSUME NEW x \in Int, FitsWire(x)
    PROVE  int32(x) = x
<1> DEFINE a == x + OffsetLimit
           b == 2 * OffsetLimit
<1>1. a \in Nat /\ b \in Nat /\ a < b /\ OffsetLimit \in Nat
      BY WireAssumption DEF FitsWire
<1>2. a % b = a
  <2> HIDE DEF a, b
  <2> QED
      BY <1>1
<1> QED
      BY <1>1, <1>2 DEF int32

LEMMA ProtoFinding ==
    ASSUME NEW f \in Finding
    PROVE  /\ FindingToProto(f) \in Finding
           /\ FitsWire(f.Start) /\ FitsWire(f.End) => FindingToProto(f) = f
<1> DEFINE a == int32(f.Start)
           b == int32(f.End)
<1>1. f.Start \in Int /\ f.End \in Int
      BY DEF Finding
<1>2. a \in Int /\ b \in Int
      BY <1>1, Int32Typed
<1>3. FindingToProto(f) = [[f EXCEPT !.Start = a] EXCEPT !.End = b]
      BY DEF FindingToProto
<1>4. FitsWire(f.Start) /\ FitsWire(f.End) => a = f.Start /\ b = f.End
      BY <1>1, Int32Keeps
<1> HIDE DEF a, b
<1> QED
      BY <1>2, <1>3, <1>4 DEF Finding

LEMMA ProtoFindings ==
    ASSUME NEW fs \in Seq(Finding)
    PROVE  /\ FindingsToProto(fs) \in Seq(Finding)
           /\ (\A f \in Range(fs) : FitsWire(f.Start) /\ FitsWire(f.End)) => FindingsToProto(fs) = fs
<1>1. Len(fs) \in Nat /\ DOMAIN fs = 1..Len(fs) /\ \A i \in 1..Len(fs) : fs[i] \in Finding
      OBVIOUS
<1>2. FindingsToProto(fs) = [i \in 1..Len(fs) |-> FindingToProto(fs[i])]
      BY <1>1 DEF FindingsToProto
<1>3. \A i \in 1..Len(fs) : FindingToProto(fs[i]) \in Finding
      BY <1>1, ProtoFinding
<1>4. FindingsToProto(fs) \in Seq(Finding)
      BY <1>1, <1>2, <1>3
<1>5. ASSUME \A f \in Range(fs) : FitsWire(f.Start) /\ FitsWire(f.End)
      PROVE  FindingsToProto(fs) = fs
  <2>1. \A i \in 1..Len(fs) : FindingToProto(fs[i]) = fs[i]
        BY <1>1, <1>5, ProtoFinding, RangeIndexed
  <2>2. fs = [i \in 1..Len(fs) |-> fs[i]]
        BY <1>1
  <2> QED
        BY <1>2, <2>1, <2>2
<1> QED
      BY <1>4, <1>5

(* What arrives of a plugin's report: an error always, its findings when   *)
(* there is none and they fit the wire.                                    *)
LEMMA WireReport ==
    ASSUME NEW r \in Report
    PROVE  /\ ClientScan(ServerScan(r)) \in Report
           /\ ClientScan(ServerScan(r)).err = r.err
           /\ (/\ ~r.err
               /\ \A f \in Range(r.findings) : FitsWire(f.Start) /\ FitsWire(f.End))
              => ClientScan(ServerScan(r)).findings = r.findings
           /\ r.err => ClientScan(ServerScan(r)).findings = <<>>
<1>1. r.findings \in Seq(Finding) /\ r.err \in BOOLEAN
      BY DEF Report
<1> DEFINE p == FindingsToProto(r.findings)
<1>2. /\ p \in Seq(Finding)
      /\ (\A f \in Range(r.findings) : FitsWire(f.Start) /\ FitsWire(f.End)) => p = r.findings
      BY <1>1, ProtoFindings
<1>3. ClientScan(ServerScan(r)) = [findings |-> IF r.err THEN <<>> ELSE p, err |-> r.err]
      BY DEF ClientScan, ServerScan, FindingsFromProto
<1> HIDE DEF p
<1> QED
      BY <1>1, <1>2, <1>3 DEF Report

LEMMA SimpleReports == NoReport \in Report /\ Lost \in Report /\ ~NoReport.err /\ Lost.err
BY DEF NoReport, Lost, Report

LEMMA HeardOnce ==
    ASSUME NEW s, NEW v, NEW r, <<s, v, r>> \in reported
    PROVE  Heard(s, v)
<1>1. r = (<<s, v, r>>)[3]
      OBVIOUS
<1> QED
      BY <1>1 DEF Heard

LEMMA HeardStays ==
    ASSUME NEW s, NEW v, Heard(s, v), reported \subseteq reported'
    PROVE  Heard(s, v)'
BY DEF Heard

(* During the scan Redact has not run.                                     *)
LEMMA ScanPhase ==
    ASSUME IInv, pc \in ScanPhases, pc' \in ScanPhases, redactVars' = redactVars
    PROVE  /\ MaskTypes' /\ Masking' /\ Returned'
           /\ step' = "idle" /\ Mask!Fresh' /\ out' = <<>> /\ redactErr' = FALSE
<1>1. /\ redactErr' = redactErr /\ step' = step /\ valid' = valid /\ sorted' = sorted
      /\ j' = j /\ merged' = merged /\ pos' = pos /\ out' = out
      BY DEF redactVars, maskVars
<1>2. step = "idle" /\ Mask!Fresh /\ out = <<>> /\ redactErr = FALSE
      BY DEF IInv, Control, ScanPhases, ScanTypes
<1>3. MaskTypes'
      BY <1>1 DEF IInv, MaskTypes
<1>4. Masking' /\ Returned'
      BY <1>1, <1>2 DEF Masking, Returned, ScanPhases
<1>5. Mask!Fresh'
      BY <1>1, <1>2 DEF Mask!Fresh
<1> QED
      BY <1>1, <1>2, <1>3, <1>4, <1>5

LEMMA FanScanners ==
    ASSUME NEW v \in 0..NumViews
    PROVE  Fan(v) \subseteq Scanner
BY PipelineAssumption DEF Fan

LEMMA StepNothingToScan ==
    ASSUME IInv, NothingToScan
    PROVE  IInv'
<1> USE DEF IInv
<1>1. /\ pc = "scan" /\ pc' = "process" /\ (empty \/ NumScanners = 0)
      /\ pass' = pass /\ running' = running /\ results' = results /\ extra' = extra /\ k' = k
      /\ findings' = findings /\ scanErr' = scanErr /\ redactVars' = redactVars /\ reported' = reported
      /\ empty' = empty /\ active' = active /\ redactor' = redactor
      BY DEF NothingToScan, body
<1>2. /\ MaskTypes' /\ Masking' /\ Returned'
      /\ step' = "idle" /\ Mask!Fresh' /\ out' = <<>> /\ redactErr' = FALSE
      BY <1>1, ScanPhase DEF ScanPhases
<1>3. ScanTypes'
      BY <1>1, <1>2 DEF ScanTypes
<1>4. Control'
      BY <1>1, <1>2 DEF Control
<1>5. History' /\ Errors'
      BY <1>1 DEF History, Errors
<1>6. Listened'
  <2>1. ASSUME ~empty, NEW v \in {0} \cup active PROVE HeardAll(v)'
    <3>1. Scanner = {} /\ v \in 0..NumViews
          BY <1>1, <2>1, PipelineAssumption DEF Scanner, ScanTypes, View
    <3>2. Fan(v) = {}
          BY <3>1, FanScanners
    <3> QED
          BY <3>2 DEF HeardAll
  <2> QED
        BY <1>1, <2>1 DEF Listened
<1> QED
      BY <1>2, <1>3, <1>4, <1>5, <1>6

LEMMA StepLaunch ==
    ASSUME IInv, Launch
    PROVE  IInv'
<1> USE DEF IInv
<1>1. /\ pc = "scan" /\ pc' = "wait" /\ ~empty
      /\ running' = Fan(pass) /\ results' = [s \in Scanner |-> NoReport]
      /\ pass' = pass /\ extra' = extra /\ k' = k
      /\ findings' = findings /\ scanErr' = scanErr /\ redactVars' = redactVars /\ reported' = reported
      /\ empty' = empty /\ active' = active /\ redactor' = redactor
      BY DEF Launch, body
<1>2. /\ MaskTypes' /\ Masking' /\ Returned'
      /\ step' = "idle" /\ Mask!Fresh' /\ out' = <<>> /\ redactErr' = FALSE
      BY <1>1, ScanPhase DEF ScanPhases
<1>3. Fan(pass) \subseteq Scanner
      BY FanScanners DEF ScanTypes
<1>4. ScanTypes'
      BY <1>1, <1>2, <1>3, SimpleReports DEF ScanTypes
<1>5. Control'
      BY <1>1, <1>2 DEF Control
<1>6. \A t \in reported : t[2] <= pass /\ t[2] # pass
      BY <1>1 DEF History
<1>7. History'
      BY <1>1, <1>6 DEF History
<1>8. Errors'
      BY <1>1 DEF Errors
<1>9. Listened'
  <2>1. ASSUME NEW v \in {0} \cup active, v < pass PROVE HeardAll(v)'
        BY <1>1, <2>1 DEF Listened, HeardAll, Heard
  <2> QED
        BY <1>1, <2>1 DEF Listened
<1> QED
      BY <1>2, <1>4, <1>5, <1>7, <1>8, <1>9

(* A goroutine of ScanWith returns with r, of which q is in results.       *)
LEMMA Answered ==
    ASSUME IInv, NEW s \in running, NEW r \in Report, NEW q \in Report, q.err = r.err,
           results' = [results EXCEPT ![s] = q],
           reported' = reported \cup {<<s, pass, r>>},
           running' = running \ {s},
           UNCHANGED <<pc, pass, body, extra, k, findings, scanErr, redactVars>>
    PROVE  IInv'
<1> USE DEF IInv
<1>1. /\ pc' = pc /\ pass' = pass /\ extra' = extra /\ k' = k
      /\ findings' = findings /\ scanErr' = scanErr /\ redactVars' = redactVars
      /\ empty' = empty /\ active' = active /\ redactor' = redactor
      BY DEF body
<1>2. pc = "wait" /\ s \in Scanner /\ pass \in 0..NumViews /\ results \in [Scanner -> Report]
      BY DEF Control, ScanTypes
<1>3. /\ MaskTypes' /\ Masking' /\ Returned'
      /\ step' = "idle" /\ Mask!Fresh' /\ out' = <<>> /\ redactErr' = FALSE
      BY <1>1, <1>2, ScanPhase DEF ScanPhases
<1>4. <<s, pass, r>> \in Scanner \X (0..NumViews) \X Report
      BY <1>2
<1>5. ScanTypes'
  <2>1. results' \in [Scanner -> Report] /\ running' \subseteq Scanner
        BY <1>2 DEF ScanTypes
  <2>2. reported' \subseteq Scanner \X (0..NumViews) \X Report
        BY <1>4 DEF ScanTypes
  <2> QED
        BY <1>1, <1>3, <2>1, <2>2 DEF ScanTypes
<1>6. Control'
      BY <1>1, <1>2, <1>3 DEF Control
<1> DEFINE t0 == <<s, pass, r>>
<1>7. t0[1] = s /\ t0[2] = pass /\ t0[3] = r
      OBVIOUS
<1>8. \A t \in reported' : t \in reported \/ t = t0
      OBVIOUS
<1> HIDE DEF t0
<1>9. History'
  <2> SUFFICES ASSUME NEW t \in reported'
               PROVE  t[2] <= pass /\ (t[2] = pass => pc # "scan" /\ t[1] \notin running')
      BY <1>1 DEF History
  <2>1. CASE t \in reported
        BY <2>1 DEF History
  <2>2. CASE t = t0
        BY <2>2, <1>2, <1>7
  <2> QED
        BY <1>8, <2>1, <2>2
<1>10. Errors'
  <2>1. ASSUME NEW t \in reported', t[3].err
        PROVE  scanErr \/ (t[2] = pass /\ results'[t[1]].err)
    <3>1. CASE t = t0
          BY <3>1, <2>1, <1>2, <1>7
    <3>2. CASE t \in reported
      <4>1. scanErr \/ (t[2] = pass /\ results[t[1]].err)
            BY <2>1, <3>2 DEF Errors
      <4>2. t[2] = pass => t[1] # s
            BY <3>2 DEF History
      <4>3. t[1] # s => results'[t[1]] = results[t[1]]
        <5>1. t[1] \in Scanner
              BY <3>2 DEF ScanTypes
        <5> QED
              BY <5>1, <1>2
      <4> QED
            BY <4>1, <4>2, <4>3
    <3> QED
          BY <2>1, <1>8, <3>1, <3>2
  <2> QED
        BY <1>1, <1>2, <2>1 DEF Errors
<1>11. Listened'
  <2>1. reported \subseteq reported'
        OBVIOUS
  <2>2. ASSUME NEW u \in Fan(pass) \ running' PROVE Heard(u, pass)'
    <3>1. CASE u = s
      <4>1. <<u, pass', r>> \in reported'
            BY <3>1, <1>1
      <4>2. r = (<<u, pass', r>>)[3]
            OBVIOUS
      <4> QED
            BY <4>1, <4>2 DEF Heard
    <3>2. CASE u # s
      <4>1. Heard(u, pass)
            BY <3>2, <1>2 DEF Listened
      <4> QED
            BY <4>1, <2>1, <1>1 DEF Heard
    <3> QED
          BY <3>1, <3>2
  <2>3. ASSUME NEW v \in {0} \cup active, v < pass PROVE HeardAll(v)'
    <3>1. HeardAll(v)
          BY <1>2, <2>3 DEF Listened
    <3> QED
          BY <3>1, <2>1 DEF HeardAll, Heard
  <2> QED
        BY <1>1, <1>2, <2>2, <2>3 DEF Listened
<1> QED
      BY <1>3, <1>5, <1>6, <1>9, <1>10, <1>11

LEMMA StepReturn ==
    ASSUME IInv, NEW s \in Scanner, Return(s)
    PROVE  IInv'
<1>1. PICK r \in Reports(s, pass) :
          /\ results' = [results EXCEPT ![s] = IF s \in Plugins THEN ClientScan(ServerScan(r)) ELSE r]
          /\ reported' = reported \cup {<<s, pass, r>>}
      BY DEF Return
<1>2. r \in Report
      BY ReportsAssumption DEF IInv, ScanTypes
<1> DEFINE q == IF s \in Plugins THEN ClientScan(ServerScan(r)) ELSE r
<1>3. q \in Report /\ q.err = r.err
      BY <1>2, WireReport
<1>4. /\ s \in running /\ running' = running \ {s}
      /\ UNCHANGED <<pc, pass, body, extra, k, findings, scanErr, redactVars>>
      BY DEF Return
<1>5. results' = [results EXCEPT ![s] = q]
      BY <1>1
<1> HIDE DEF q
<1> QED
      BY <1>1, <1>2, <1>3, <1>4, <1>5, Answered

LEMMA StepCallFails ==
    ASSUME IInv, NEW s \in Scanner, CallFails(s)
    PROVE  IInv'
<1>1. /\ s \in running /\ running' = running \ {s}
      /\ results' = [results EXCEPT ![s] = Lost]
      /\ reported' = reported \cup {<<s, pass, Lost>>}
      /\ UNCHANGED <<pc, pass, body, extra, k, findings, scanErr, redactVars>>
      BY DEF CallFails
<1> DEFINE q == Lost
<1>2. q \in Report
      BY SimpleReports
<1>3. /\ results' = [results EXCEPT ![s] = q]
      /\ reported' = reported \cup {<<s, pass, q>>}
      BY <1>1
<1> HIDE DEF q
<1> QED
      BY <1>1, <1>2, <1>3, Answered

LEMMA JoinedTyped ==
    ASSUME ScanTypes
    PROVE  /\ Joined(results) \in Seq(Finding)
           /\ \A f : f \in Range(Joined(results)) <=> \E s \in Scanner : f \in Range(results[s].findings)
<1>1. \A s \in Scanner : results[s] \in Report
      BY DEF ScanTypes
<1>2. \A s \in Scanner : results[s].findings \in Seq(Finding)
      BY <1>1 DEF Report
<1> QED
      BY <1>2, JoinedAll

(* Past wg.Wait every error of the pass is in the joined one.              *)
LEMMA JoinedErrors ==
    ASSUME IInv, pc = "wait", NEW t \in reported, t[3].err
    PROVE  scanErr \/ AnyErr(results)
<1>1. t[1] \in Scanner
      BY DEF IInv, ScanTypes
<1> QED
      BY <1>1 DEF IInv, Errors, AnyErr

LEMMA HeardWaited ==
    ASSUME IInv, pc = "wait", Waited, reported' = reported, active' = active
    PROVE  /\ \A s \in Fan(pass) : Heard(s, pass)
           /\ \A v \in {0} \cup active : v < pass => HeardAll(v)
BY DEF IInv, Listened, Waited

LEMMA StepJoinRaw ==
    ASSUME IInv, JoinRaw
    PROVE  IInv'
<1>1. /\ pc = "wait" /\ pc' = "next" /\ pass = 0 /\ running = {}
      /\ findings' = Joined(results) /\ scanErr' = AnyErr(results)
      /\ pass' = pass /\ running' = running /\ results' = results /\ extra' = extra /\ k' = k
      /\ redactVars' = redactVars /\ reported' = reported
      /\ empty' = empty /\ active' = active /\ redactor' = redactor
      BY DEF JoinRaw, body, Waited
<1>2. /\ MaskTypes' /\ Masking' /\ Returned'
      /\ step' = "idle" /\ Mask!Fresh' /\ out' = <<>> /\ redactErr' = FALSE
      BY <1>1, ScanPhase DEF ScanPhases
<1>3. ScanTypes'
  <2>1. scanErr' \in BOOLEAN
        BY <1>1 DEF AnyErr
  <2>2. findings' \in Seq(Finding)
        BY <1>1, JoinedTyped DEF IInv
  <2> QED
        BY <1>1, <1>2, <2>1, <2>2 DEF IInv, ScanTypes
<1>4. Control'
      BY <1>1, <1>2 DEF IInv, Control
<1>5. History'
      BY <1>1 DEF IInv, History
<1>6. Errors'
  <2>1. ~scanErr
        BY <1>1 DEF IInv, Errors
  <2>2. \A t \in reported : t[3].err => scanErr'
        BY <1>1, <2>1, JoinedErrors
  <2> QED
        BY <1>1, <2>2 DEF Errors
<1>7. Listened'
  <2>1. \A v \in {0} \cup active : v < pass => HeardAll(v)
        BY <1>1, HeardWaited DEF Waited
  <2>2. \A s \in Fan(pass) : Heard(s, pass)
        BY <1>1, HeardWaited DEF Waited
  <2> QED
        BY <1>1, <2>1, <2>2 DEF Listened, HeardAll, Heard
<1> QED
      BY <1>2, <1>3, <1>4, <1>5, <1>6, <1>7 DEF IInv

LEMMA StepJoinView ==
    ASSUME IInv, JoinView
    PROVE  IInv'
<1>1. /\ pc = "wait" /\ pc' = "merge" /\ pass > 0 /\ running = {}
      /\ extra' = Mapped(pass, Joined(results)) /\ scanErr' = (scanErr \/ AnyErr(results)) /\ k' = 1
      /\ pass' = pass /\ running' = running /\ results' = results /\ findings' = findings
      /\ redactVars' = redactVars /\ reported' = reported
      /\ empty' = empty /\ active' = active /\ redactor' = redactor
      BY DEF JoinView, body, Waited, JoinErr
<1>2. /\ MaskTypes' /\ Masking' /\ Returned'
      /\ step' = "idle" /\ Mask!Fresh' /\ out' = <<>> /\ redactErr' = FALSE
      BY <1>1, ScanPhase DEF ScanPhases
<1>3. ScanTypes'
  <2>1. scanErr' \in BOOLEAN
        BY <1>1 DEF AnyErr
  <2>2. Joined(results) \in Seq(Finding) /\ pass \in View
        BY <1>1, JoinedTyped, PipelineAssumption DEF IInv, ScanTypes, View
  <2>3. extra' \in Seq(Finding)
        BY <1>1, <2>2, MappedAll
  <2>4. k' \in Nat \ {0}
        BY <1>1
  <2>5. results' \in [Scanner -> Report] /\ findings' \in Seq(Finding)
        BY <1>1 DEF IInv, ScanTypes
  <2>6. pc' \in {"scan", "wait", "next", "merge", "process", "redact", "done"} /\ redactErr' \in BOOLEAN
        BY <1>1, <1>2
  <2>7. /\ pass' \in 0..NumViews /\ empty' \in BOOLEAN /\ active' \subseteq View
        /\ running' \subseteq Scanner /\ reported' \subseteq Scanner \X (0..NumViews) \X Report
        BY <1>1 DEF IInv, ScanTypes
  <2> QED
        BY <2>1, <2>3, <2>4, <2>5, <2>6, <2>7, Zenon DEF ScanTypes
<1>4. Control'
      BY <1>1, <1>2 DEF IInv, Control
<1>5. History'
      BY <1>1 DEF IInv, History
<1>6. Errors'
  <2>1. \A t \in reported : t[3].err => scanErr'
        BY <1>1, JoinedErrors
  <2> QED
        BY <1>1, <2>1 DEF Errors
<1>7. Listened'
  <2>1. \A v \in {0} \cup active : v < pass => HeardAll(v)
        BY <1>1, HeardWaited DEF Waited
  <2>2. \A s \in Fan(pass) : Heard(s, pass)
        BY <1>1, HeardWaited DEF Waited
  <2> QED
        BY <1>1, <2>1, <2>2 DEF Listened, HeardAll, Heard
<1> QED
      BY <1>2, <1>3, <1>4, <1>5, <1>6, <1>7 DEF IInv

LEMMA StepMergeNew ==
    ASSUME IInv, MergeNew
    PROVE  IInv'
<1>1. /\ pc = "merge" /\ pc' = pc /\ k <= Len(extra) /\ k' = k + 1
      /\ findings' = IF overlapsExisting(extra[k]) THEN findings ELSE Append(findings, extra[k])
      /\ pass' = pass /\ running' = running /\ results' = results /\ extra' = extra
      /\ scanErr' = scanErr /\ redactVars' = redactVars /\ reported' = reported
      /\ empty' = empty /\ active' = active /\ redactor' = redactor
      BY DEF MergeNew, body
<1>2. /\ MaskTypes' /\ Masking' /\ Returned'
      /\ step' = "idle" /\ Mask!Fresh' /\ out' = <<>> /\ redactErr' = FALSE
      BY <1>1, ScanPhase DEF ScanPhases
<1>3. extra \in Seq(Finding) /\ findings \in Seq(Finding) /\ k \in Nat \ {0}
      BY DEF IInv, ScanTypes
<1>4. k \in 1..Len(extra) /\ extra[k] \in Finding
      BY <1>1, <1>3
<1>5. findings' \in Seq(Finding) /\ k' \in Nat \ {0}
      BY <1>1, <1>3, <1>4
<1>6. ScanTypes'
      BY <1>1, <1>2, <1>5 DEF IInv, ScanTypes
<1>7. Control'
      BY <1>1, <1>2 DEF IInv, Control
<1>8. History' /\ Errors'
      BY <1>1 DEF IInv, History, Errors
<1>9. Listened'
      BY <1>1 DEF IInv, Listened, HeardAll, Heard
<1> QED
      BY <1>2, <1>6, <1>7, <1>8, <1>9 DEF IInv

LEMMA StepMergeDone ==
    ASSUME IInv, MergeDone
    PROVE  IInv'
<1>1. /\ pc = "merge" /\ pc' = "next" /\ k' = 1 /\ extra' = <<>>
      /\ pass' = pass /\ running' = running /\ results' = results /\ findings' = findings
      /\ scanErr' = scanErr /\ redactVars' = redactVars /\ reported' = reported
      /\ empty' = empty /\ active' = active /\ redactor' = redactor
      BY DEF MergeDone, body
<1>2. /\ MaskTypes' /\ Masking' /\ Returned'
      /\ step' = "idle" /\ Mask!Fresh' /\ out' = <<>> /\ redactErr' = FALSE
      BY <1>1, ScanPhase DEF ScanPhases
<1>3. ScanTypes'
  <2>1. k' \in Nat \ {0} /\ extra' \in Seq(Finding)
        BY <1>1
  <2>2. results' \in [Scanner -> Report] /\ findings' \in Seq(Finding)
        BY <1>1 DEF IInv, ScanTypes
  <2>3. /\ pc' \in {"scan", "wait", "next", "merge", "process", "redact", "done"}
        /\ redactErr' \in BOOLEAN /\ scanErr' \in BOOLEAN
        BY <1>1, <1>2 DEF IInv, ScanTypes
  <2>4. /\ pass' \in 0..NumViews /\ empty' \in BOOLEAN /\ active' \subseteq View
        /\ running' \subseteq Scanner /\ reported' \subseteq Scanner \X (0..NumViews) \X Report
        BY <1>1 DEF IInv, ScanTypes
  <2> QED
        BY <2>1, <2>2, <2>3, <2>4, Zenon DEF ScanTypes
<1>4. Control'
      BY <1>1, <1>2 DEF IInv, Control
<1>5. History' /\ Errors'
      BY <1>1 DEF IInv, History, Errors
<1>6. Listened'
      BY <1>1 DEF IInv, Listened, HeardAll, Heard
<1> QED
      BY <1>2, <1>3, <1>4, <1>5, <1>6 DEF IInv

LEMMA StepNextPass ==
    ASSUME IInv, NextPass
    PROVE  IInv'
<1>1. /\ pc = "next" /\ pc' = "scan" /\ pass' \in Pending /\ \A v \in Pending : pass' <= v
      /\ running' = running /\ results' = results /\ extra' = extra /\ k' = k
      /\ findings' = findings /\ scanErr' = scanErr /\ redactVars' = redactVars /\ reported' = reported
      /\ empty' = empty /\ active' = active /\ redactor' = redactor
      BY DEF NextPass, body
<1>2. /\ MaskTypes' /\ Masking' /\ Returned'
      /\ step' = "idle" /\ Mask!Fresh' /\ out' = <<>> /\ redactErr' = FALSE
      BY <1>1, ScanPhase DEF ScanPhases
<1>3. /\ pass \in 0..NumViews /\ NumViews \in Nat /\ active \subseteq 1..NumViews
      /\ pass' \in 1..NumViews /\ pass' > pass /\ TransformAware # {}
      BY <1>1, PipelineAssumption DEF IInv, ScanTypes, View, Pending
<1>4. ScanTypes'
  <2>1. pass' \in 0..NumViews
        BY <1>3
  <2>2. /\ k' \in Nat \ {0} /\ extra' \in Seq(Finding)
        /\ results' \in [Scanner -> Report] /\ findings' \in Seq(Finding)
        BY <1>1 DEF IInv, ScanTypes
  <2>3. /\ pc' \in {"scan", "wait", "next", "merge", "process", "redact", "done"}
        /\ redactErr' \in BOOLEAN /\ scanErr' \in BOOLEAN
        BY <1>1, <1>2 DEF IInv, ScanTypes
  <2>4. /\ empty' \in BOOLEAN /\ active' \subseteq View
        /\ running' \subseteq Scanner /\ reported' \subseteq Scanner \X (0..NumViews) \X Report
        BY <1>1 DEF IInv, ScanTypes
  <2> QED
        BY <2>1, <2>2, <2>3, <2>4, Zenon DEF ScanTypes
<1>5. Control'
      BY <1>1, <1>2 DEF IInv, Control
<1>6. \A t \in reported : t[2] \in Int
      BY PipelineAssumption DEF IInv, ScanTypes
<1>7. History'
      BY <1>1, <1>3, <1>6 DEF IInv, History
<1>8. Errors'
      BY <1>1, <1>3 DEF IInv, Errors
<1>9. Listened'
  <2>1. ASSUME NEW v \in {0} \cup active, v < pass' PROVE HeardAll(v)
    <3>1. v \in Int /\ ~(v > pass)
          BY <1>1, <1>3, <2>1 DEF Pending
    <3>2. CASE v = pass
          BY <1>1, <3>2 DEF IInv, Listened
    <3>3. CASE v # pass
          BY <1>1, <1>3, <3>1, <3>3 DEF IInv, Listened
    <3> QED
          BY <3>2, <3>3
  <2> QED
        BY <1>1, <2>1 DEF Listened, HeardAll, Heard
<1> QED
      BY <1>2, <1>4, <1>5, <1>7, <1>8, <1>9 DEF IInv

LEMMA StepScanReturns ==
    ASSUME IInv, ScanReturns
    PROVE  IInv'
<1>1. /\ pc = "next" /\ pc' = "process" /\ Pending = {}
      /\ pass' = pass /\ running' = running /\ results' = results /\ extra' = extra /\ k' = k
      /\ findings' = findings /\ scanErr' = scanErr /\ redactVars' = redactVars /\ reported' = reported
      /\ empty' = empty /\ active' = active /\ redactor' = redactor
      BY DEF ScanReturns, body
<1>2. /\ MaskTypes' /\ Masking' /\ Returned'
      /\ step' = "idle" /\ Mask!Fresh' /\ out' = <<>> /\ redactErr' = FALSE
      BY <1>1, ScanPhase DEF ScanPhases
<1>3. ScanTypes'
      BY <1>1, <1>2 DEF IInv, ScanTypes
<1>4. Control'
      BY <1>1, <1>2 DEF IInv, Control
<1>5. History' /\ Errors'
      BY <1>1 DEF IInv, History, Errors
<1>6. Listened'
  <2>1. ASSUME NEW v \in {0} \cup active PROVE HeardAll(v)
    <3>1. v \in 0..NumViews /\ pass \in 0..NumViews /\ NumViews \in Nat
          BY PipelineAssumption DEF IInv, ScanTypes, View
    <3>2. CASE v = pass
          BY <1>1, <3>2 DEF IInv, Listened
    <3>3. CASE v < pass
          BY <1>1, <3>3 DEF IInv, Listened
    <3>4. CASE v > pass
      <4>1. TransformAware = {} /\ v # 0
            BY <1>1, <3>1, <3>4, <2>1 DEF Pending
      <4>2. Fan(v) = {}
            BY <4>1 DEF Fan
      <4> QED
            BY <4>2 DEF HeardAll
    <3> QED
          BY <3>1, <3>2, <3>3, <3>4
  <2> QED
        BY <1>1, <2>1 DEF Listened, HeardAll, Heard
<1> QED
      BY <1>2, <1>3, <1>4, <1>5, <1>6 DEF IInv

-----------------------------------------------------------------------------
(***************************************************************************)
(* Process after the scan: one lemma per action, and one for what none of  *)
(* them changes.                                                           *)
(***************************************************************************)
LEMMA RedactPhase ==
    ASSUME IInv, scanVars' = scanVars, pc \in {"process", "redact"}, pc' \in {"redact", "done"},
           scanErr => scanErr', scanErr' \in BOOLEAN, redactErr' \in BOOLEAN
    PROVE  /\ ScanTypes' /\ History' /\ Listened' /\ Errors'
           /\ running' = {} /\ findings' = findings /\ empty' = empty /\ redactor' = redactor
           /\ MaskUnchanged /\ Size' = Size /\ Size \in Nat /\ (Skips' <=> Skips)
<1>1. /\ pass' = pass /\ running' = running /\ results' = results /\ extra' = extra /\ k' = k
      /\ findings' = findings /\ reported' = reported
      /\ empty' = empty /\ active' = active /\ redactor' = redactor
      BY DEF scanVars, body
<1>2. running = {}
      BY DEF IInv, Control
<1>3. ScanTypes'
  <2>1. /\ k' \in Nat \ {0} /\ extra' \in Seq(Finding)
        /\ results' \in [Scanner -> Report] /\ findings' \in Seq(Finding)
        BY <1>1 DEF IInv, ScanTypes
  <2>2. pc' \in {"scan", "wait", "next", "merge", "process", "redact", "done"}
        OBVIOUS
  <2>3. /\ pass' \in 0..NumViews /\ empty' \in BOOLEAN /\ active' \subseteq View
        /\ running' \subseteq Scanner /\ reported' \subseteq Scanner \X (0..NumViews) \X Report
        BY <1>1 DEF IInv, ScanTypes
  <2> QED
        BY <2>1, <2>2, <2>3, Zenon DEF ScanTypes
<1>4. History'
      BY <1>1 DEF IInv, History
<1>5. \A t \in reported : t[3].err => scanErr
      BY DEF IInv, Errors
<1>6. Errors'
      BY <1>1, <1>5 DEF Errors
<1>7. ~empty => \A v \in {0} \cup active : HeardAll(v)
      BY DEF IInv, Listened
<1>8. Listened'
      BY <1>1, <1>7 DEF Listened, HeardAll, Heard
<1>9. Size' = Size /\ Size \in Nat
      BY <1>1, SizeNat DEF IInv, ScanTypes, Size
<1> QED
      BY <1>1, <1>2, <1>3, <1>4, <1>6, <1>8, <1>9 DEF MaskUnchanged, Skips

(* The whole body, and what a redactor makes of it, are sequences.         *)
LEMMA OutputTyped ==
    ASSUME Size \in Nat, NEW fs
    PROVE  WholeBody \in Seq(Int) /\ Mask!Reference(fs) \in Seq(Int)
<1>1. 0 \in Nat /\ 0 <= Size
      OBVIOUS
<1>2. Mask!Slice(0, Size) \in Seq(Int)
      BY <1>1, SliceProperties, Zenon
<1>3. Size \in 0..Size
      OBVIOUS
<1>4. Mask!Walk(fs)[Size] \in Seq(Int)
      BY <1>3, WalkLoop
<1> QED
      BY <1>2, <1>4 DEF WholeBody, Mask!Reference

LEMMA StepSkipRedact ==
    ASSUME IInv, SkipRedact
    PROVE  IInv'
<1>1. /\ pc = "process" /\ pc' = "done" /\ Skips /\ out' = WholeBody /\ scanVars' = scanVars
      /\ scanErr' = scanErr /\ redactErr' = redactErr /\ step' = step /\ valid' = valid
      /\ sorted' = sorted /\ j' = j /\ merged' = merged /\ pos' = pos
      BY DEF SkipRedact
<1>2. scanErr' \in BOOLEAN /\ redactErr' \in BOOLEAN
      BY <1>1 DEF IInv, ScanTypes
<1>3. /\ ScanTypes' /\ History' /\ Listened' /\ Errors' /\ running' = {}
      /\ Size' = Size /\ Size \in Nat /\ (Skips' <=> Skips)
      BY <1>1, <1>2, RedactPhase
<1>4. step' = "idle" /\ ~redactErr'
      BY <1>1 DEF IInv, Control
<1>5. Control'
      BY <1>1, <1>3, <1>4 DEF Control
<1>6. out' \in Seq(Int)
      BY <1>1, <1>3, OutputTyped
<1>7. MaskTypes'
      BY <1>1, <1>6 DEF IInv, MaskTypes
<1>8. Masking'
      BY <1>4 DEF Masking
<1>9. WholeBody' = WholeBody
      BY <1>3 DEF WholeBody, Mask!Slice
<1>10. Returned'
      BY <1>1, <1>3, <1>9 DEF Returned
<1> QED
      BY <1>3, <1>5, <1>7, <1>8, <1>10 DEF IInv

LEMMA StepMaskCalled ==
    ASSUME IInv, MaskCalled
    PROVE  IInv'
<1>1. /\ pc = "process" /\ pc' = "redact" /\ ~Skips /\ redactor = "mask" /\ scanVars' = scanVars
      /\ step' = "filter" /\ scanErr' = scanErr /\ redactErr' = redactErr /\ valid' = valid
      /\ sorted' = sorted /\ j' = j /\ merged' = merged /\ pos' = pos /\ out' = out
      BY DEF MaskCalled
<1>2. scanErr' \in BOOLEAN /\ redactErr' \in BOOLEAN
      BY <1>1 DEF IInv, ScanTypes
<1>3. /\ ScanTypes' /\ History' /\ Listened' /\ Errors' /\ running' = {}
      /\ findings' = findings /\ redactor' = redactor
      /\ Size' = Size /\ (Skips' <=> Skips)
      BY <1>1, <1>2, RedactPhase
<1>4. ~redactErr' /\ Mask!Fresh /\ out = <<>>
      BY <1>1 DEF IInv, Control
<1>5. Control'
      BY <1>1, <1>3, <1>4 DEF Control
<1>6. MaskTypes'
      BY <1>1 DEF IInv, MaskTypes
<1>7. Masking'
  <2>1. /\ valid' = <<>> /\ sorted' = <<>> /\ j' = 1 /\ merged' = <<>> /\ pos' = 0 /\ out' = <<>>
        BY <1>1, <1>4 DEF Mask!Fresh
  <2>2. Len(findings) \in Nat
        BY DEF IInv, ScanTypes
  <2>3. j' <= Len(findings') + 1 /\ 1..(j' - 1) = {}
        BY <2>1, <2>2, <1>3
  <2>4. Range(valid') = {}
        BY <2>1 DEF Range
  <2>5. {findings'[i] : i \in {h \in 1..(j' - 1) : Mask!Keep(findings[h])'}} = {}
        BY <2>3
  <2>6. Filtering'
        BY <2>1, <2>3, <2>4, <2>5 DEF Filtering
  <2> QED
        BY <1>1, <2>6 DEF Masking
<1>8. Returned'
      BY <1>1 DEF Returned
<1> QED
      BY <1>3, <1>5, <1>6, <1>7, <1>8 DEF IInv

LEMMA StepMaskStep ==
    ASSUME IInv, MaskStep
    PROVE  IInv'
<1>1. /\ pc = "redact" /\ pc' = "redact" /\ scanVars' = scanVars
      /\ scanErr' = scanErr /\ redactErr' = redactErr
      /\ Mask!Filter \/ Mask!Sort \/ Mask!Merge \/ Mask!Copy
      BY DEF MaskStep
<1>2. scanErr' \in BOOLEAN /\ redactErr' \in BOOLEAN
      BY <1>1 DEF IInv, ScanTypes
<1>3. /\ ScanTypes' /\ History' /\ Listened' /\ Errors' /\ running' = {}
      /\ redactor' = redactor /\ MaskUnchanged /\ (Skips' <=> Skips)
      BY <1>1, <1>2, RedactPhase
<1>4. empty \in BOOLEAN /\ findings \in Seq(Finding) /\ MaskTypes /\ Masking
      BY DEF IInv, ScanTypes
<1>5. /\ MaskTypes' /\ Masking' /\ step' \in {"filter", "sort", "merge", "copy", "done"}
  <2>1. CASE Mask!Filter
        BY <2>1, <1>3, <1>4, StepFilter
  <2>2. CASE Mask!Sort
        BY <2>2, <1>3, <1>4, StepSort
  <2>3. CASE Mask!Merge
        BY <2>3, <1>3, <1>4, StepMerge
  <2>4. CASE Mask!Copy
        BY <2>4, <1>3, <1>4, StepCopy
  <2> QED
        BY <1>1, <2>1, <2>2, <2>3, <2>4
<1>6. ~redactErr /\ ~Skips /\ redactor = "mask"
      BY <1>1 DEF IInv, Control
<1>7. Control'
      BY <1>1, <1>3, <1>5, <1>6 DEF Control
<1>8. Returned'
      BY <1>1 DEF Returned
<1> QED
      BY <1>3, <1>5, <1>7, <1>8 DEF IInv

LEMMA StepMaskReturns ==
    ASSUME IInv, MaskReturns
    PROVE  IInv'
<1>1. /\ pc = "redact" /\ pc' = "done" /\ step = "done" /\ scanVars' = scanVars
      /\ scanErr' = scanErr /\ redactErr' = redactErr /\ step' = step /\ valid' = valid
      /\ sorted' = sorted /\ j' = j /\ merged' = merged /\ pos' = pos /\ out' = out
      BY DEF MaskReturns, redactVars, maskVars
<1>2. scanErr' \in BOOLEAN /\ redactErr' \in BOOLEAN
      BY <1>1 DEF IInv, ScanTypes
<1>3. /\ ScanTypes' /\ History' /\ Listened' /\ Errors' /\ running' = {}
      /\ findings' = findings /\ Size' = Size /\ (Skips' <=> Skips)
      BY <1>1, <1>2, RedactPhase
<1>4. ~redactErr' /\ ~Skips
      BY <1>1 DEF IInv, Control
<1>5. Control'
      BY <1>1, <1>3, <1>4 DEF Control
<1>6. MaskTypes'
      BY <1>1 DEF IInv, MaskTypes
<1>7. Masking'
  <2>1. out = Mask!Reference(findings)
        BY <1>1 DEF IInv, Masking
  <2>2. Mask!Reference(findings)' = Mask!Reference(findings)
        BY <1>3 DEF Mask!Reference, Mask!Walk, Mask!Usable, Mask!IsHidden, Mask!StartsRange
  <2> QED
        BY <1>1, <2>1, <2>2 DEF Masking
<1>8. Returned'
      BY <1>1 DEF Returned
<1> QED
      BY <1>3, <1>5, <1>6, <1>7, <1>8 DEF IInv

LEMMA StepPluginRedacts ==
    ASSUME IInv, PluginRedacts
    PROVE  IInv'
<1>1. /\ pc = "process" /\ pc' = "done" /\ ~Skips /\ redactor = "plugin" /\ scanVars' = scanVars
      /\ step' = step /\ valid' = valid /\ sorted' = sorted /\ j' = j /\ merged' = merged /\ pos' = pos
      BY DEF PluginRedacts
<1>2. \/ out' = Mask!Reference(ServerRedact(findings)) /\ scanErr' = scanErr /\ redactErr' = redactErr
      \/ out' = WholeBody /\ redactErr' = TRUE /\ scanErr' = TRUE
      BY DEF PluginRedacts
<1>3. /\ scanErr' \in BOOLEAN /\ redactErr' \in BOOLEAN /\ (scanErr => scanErr') /\ (redactErr' => scanErr')
  <2>1. scanErr \in BOOLEAN /\ redactErr \in BOOLEAN
        BY DEF IInv, ScanTypes
  <2>2. ~redactErr
        BY <1>1 DEF IInv, Control
  <2>3. CASE scanErr' = scanErr /\ redactErr' = redactErr
        BY <2>1, <2>2, <2>3
  <2>4. CASE redactErr' = TRUE /\ scanErr' = TRUE
        BY <2>4
  <2> QED
        BY <1>2, <2>3, <2>4
<1>4. /\ ScanTypes' /\ History' /\ Listened' /\ Errors' /\ running' = {}
      /\ findings' = findings /\ Size' = Size /\ Size \in Nat /\ (Skips' <=> Skips)
      BY <1>1, <1>3, RedactPhase
<1>5. step' = "idle" /\ ~redactErr
      BY <1>1 DEF IInv, Control
<1>6. Control'
      BY <1>1, <1>3, <1>4, <1>5 DEF Control
<1>7. out' \in Seq(Int)
      BY <1>2, <1>4, OutputTyped
<1>8. MaskTypes'
      BY <1>1, <1>7 DEF IInv, MaskTypes
<1>9. Masking'
      BY <1>5 DEF Masking
<1>10. WholeBody' = WholeBody
      BY <1>4 DEF WholeBody, Mask!Slice
<1>11. ServerRedact(findings)' = ServerRedact(findings)
      BY <1>4 DEF ServerRedact
<1>12. Mask!Reference(ServerRedact(findings))' = Mask!Reference(ServerRedact(findings))
      BY <1>4, <1>11 DEF Mask!Reference, Mask!Walk, Mask!Usable, Mask!IsHidden, Mask!StartsRange
<1>13. Returned'
      BY <1>1, <1>2, <1>4, <1>5, <1>10, <1>12 DEF Returned
<1> QED
      BY <1>4, <1>6, <1>8, <1>9, <1>13 DEF IInv

-----------------------------------------------------------------------------
(***************************************************************************)
(* The invariant holds.                                                    *)
(***************************************************************************)
LEMMA InitEstablishes ==
    ASSUME Init
    PROVE  IInv
<1>1. /\ pc = "scan" /\ pass = 0 /\ empty \in BOOLEAN /\ running = {}
      /\ results = [s \in Scanner |-> NoReport] /\ extra = <<>> /\ k = 1 /\ findings = <<>>
      /\ scanErr = FALSE /\ redactErr = FALSE /\ step = "idle" /\ Mask!Fresh /\ out = <<>> /\ reported = {}
      BY DEF Init
<1>2. active \subseteq View
  <2>1. active \in SUBSET (IF empty THEN {} ELSE View)
        BY DEF Init
  <2> QED
        BY <2>1
<1>3. ScanTypes
  <2>1. results \in [Scanner -> Report]
        BY <1>1, SimpleReports
  <2>2. k \in Nat \ {0} /\ extra \in Seq(Finding) /\ findings \in Seq(Finding)
        BY <1>1
  <2>3. pass \in 0..NumViews
        BY <1>1, PipelineAssumption
  <2>4. pc \in {"scan", "wait", "next", "merge", "process", "redact", "done"}
        /\ scanErr \in BOOLEAN /\ redactErr \in BOOLEAN
        BY <1>1
  <2>5. running \subseteq Scanner /\ reported \subseteq Scanner \X (0..NumViews) \X Report
        BY <1>1
  <2> QED
        BY <1>1, <1>2, <2>1, <2>2, <2>3, <2>4, <2>5, Zenon DEF ScanTypes
<1>4. MaskTypes
      BY <1>1 DEF Mask!Fresh, MaskTypes
<1>5. Control
      BY <1>1 DEF Control
<1>6. History /\ Errors
      BY <1>1 DEF History, Errors
<1>7. Listened
  <2>1. \A v \in {0} \cup active : ~(v < pass)
        BY <1>1, <1>2, PipelineAssumption DEF View
  <2> QED
        BY <1>1, <2>1 DEF Listened
<1>8. Masking /\ Returned
      BY <1>1 DEF Masking, Returned
<1> QED
      BY <1>3, <1>4, <1>5, <1>6, <1>7, <1>8 DEF IInv

LEMMA StutterPreserves ==
    ASSUME IInv, UNCHANGED vars
    PROVE  IInv'
<1>1. /\ pc' = pc /\ pass' = pass /\ running' = running /\ results' = results /\ extra' = extra /\ k' = k
      /\ findings' = findings /\ scanErr' = scanErr /\ reported' = reported
      /\ empty' = empty /\ active' = active /\ redactor' = redactor
      BY DEF vars, body
<1>2. /\ redactErr' = redactErr /\ step' = step /\ valid' = valid /\ sorted' = sorted
      /\ j' = j /\ merged' = merged /\ pos' = pos /\ out' = out
      BY DEF vars, redactVars, maskVars
<1>3. Size' = Size
      BY <1>1 DEF Size
<1>4. ScanTypes' /\ MaskTypes'
      BY <1>1, <1>2 DEF IInv, ScanTypes, MaskTypes
<1>5. Control' /\ History' /\ Errors'
      BY <1>1, <1>2 DEF IInv, Control, History, Errors, Mask!Fresh, Skips
<1>6. Listened'
      BY <1>1 DEF IInv, Listened, HeardAll, Heard
<1>7. Mask!Reference(findings)' = Mask!Reference(findings)
      BY <1>1, <1>3 DEF Mask!Reference, Mask!Walk, Mask!Usable, Mask!IsHidden, Mask!StartsRange
<1>8. Masking'
  <2>1. step = "filter" => Filtering'
        BY <1>1, <1>2, <1>3 DEF IInv, Masking, Filtering, Mask!Keep
  <2>2. step = "sort" => Sorting'
        BY <1>1, <1>2, <1>3 DEF IInv, Masking, Sorting, Mask!Usable, Ordered
  <2>3. step = "merge" => Merging'
        BY <1>1, <1>2, <1>3 DEF IInv, Masking, Merging, Mask!Usable, Ordered, Disjoint, Chains
  <2>4. step = "copy" => Copying'
    <3>1. Disjoint(merged)' <=> Disjoint(merged)
          BY <1>2, <1>3 DEF Disjoint
    <3>2. /\ \A x : Mask!IsHidden(findings, x)' <=> Mask!IsHidden(findings, x)
          /\ \A x : Mask!StartsRange(findings, x)' <=> Mask!StartsRange(findings, x)
          /\ Mask!Walk(findings)' = Mask!Walk(findings)
          BY <1>1, <1>3 DEF Mask!Usable, Mask!IsHidden, Mask!StartsRange, Mask!Walk
    <3> QED
          BY <1>2, <1>3, <3>1, <3>2 DEF IInv, Masking, Copying
  <2>5. step = "done" => out' = Mask!Reference(findings)'
        BY <1>2, <1>7 DEF IInv, Masking
  <2> QED
        BY <1>2, <2>1, <2>2, <2>3, <2>4, <2>5 DEF Masking
<1>9. Returned'
  <2>1. Mask!Reference(ServerRedact(findings))' = Mask!Reference(ServerRedact(findings))
        BY <1>1, <1>3 DEF Mask!Reference, Mask!Walk, Mask!Usable, Mask!IsHidden, Mask!StartsRange, ServerRedact
  <2>2. WholeBody' = WholeBody /\ (Skips' <=> Skips)
        BY <1>1, <1>3 DEF WholeBody, Mask!Slice, Skips
  <2> QED
        BY <1>1, <1>2, <2>1, <2>2 DEF IInv, Returned
<1> QED
      BY <1>4, <1>5, <1>6, <1>8, <1>9 DEF IInv

LEMMA StepPreserves ==
    ASSUME IInv, [Next]_vars
    PROVE  IInv'
<1>1. CASE NothingToScan
      BY <1>1, StepNothingToScan
<1>2. CASE Launch
      BY <1>2, StepLaunch
<1>3. CASE JoinRaw
      BY <1>3, StepJoinRaw
<1>4. CASE JoinView
      BY <1>4, StepJoinView
<1>5. CASE MergeNew
      BY <1>5, StepMergeNew
<1>6. CASE MergeDone
      BY <1>6, StepMergeDone
<1>7. CASE NextPass
      BY <1>7, StepNextPass
<1>8. CASE ScanReturns
      BY <1>8, StepScanReturns
<1>9. CASE SkipRedact
      BY <1>9, StepSkipRedact
<1>10. CASE MaskCalled
      BY <1>10, StepMaskCalled
<1>11. CASE MaskStep
      BY <1>11, StepMaskStep
<1>12. CASE MaskReturns
      BY <1>12, StepMaskReturns
<1>13. CASE PluginRedacts
      BY <1>13, StepPluginRedacts
<1>14. ASSUME NEW s \in Scanner, Return(s) PROVE IInv'
      BY <1>14, StepReturn
<1>15. ASSUME NEW s \in Scanner, CallFails(s) PROVE IInv'
      BY <1>15, StepCallFails
<1>16. CASE Done
      BY <1>16, StutterPreserves DEF Done
<1>17. CASE UNCHANGED vars
      BY <1>17, StutterPreserves
<1> QED
      BY <1>1, <1>2, <1>3, <1>4, <1>5, <1>6, <1>7, <1>8, <1>9, <1>10, <1>11, <1>12, <1>13,
         <1>14, <1>15, <1>16, <1>17 DEF Next, Step

(* The inductive invariant: types, control, what was heard, where errors   *)
(* are, and what every loop of Redact has done so far.                     *)
THEOREM Invariance == Spec => []IInv
<1>1. Init => IInv
      BY InitEstablishes
<1>2. IInv /\ [Next]_vars => IInv'
      BY StepPreserves
<1> QED
      BY <1>1, <1>2, PTL DEF Spec

-----------------------------------------------------------------------------
(***************************************************************************)
(* What follows from it.                                                   *)
(***************************************************************************)

(* Process returns only after every scanner has answered every pass it     *)
(* takes part in, in any order of the goroutines' returns and with any     *)
(* plugin calls failing.                                                   *)
THEOREM AllHeard == Spec => []EveryScannerHeard
<1>1. IInv => EveryScannerHeard
  <2> SUFFICES ASSUME IInv, pc = "done", ~empty, NEW v \in {0} \cup active,
                      NEW s \in (IF v = 0 THEN Scanner ELSE Fan(v))
               PROVE  Heard(s, v)
      BY DEF EveryScannerHeard
  <2>1. HeardAll(v)
        BY DEF IInv, Listened
  <2>2. s \in Fan(v)
        BY DEF Fan
  <2> QED
        BY <2>1, <2>2 DEF HeardAll
<1> QED
      BY <1>1, Invariance, PTL

(* An error of any scanner in any pass, or of the redactor, is in the      *)
(* error Process returns: no later pass replaces it.                       *)
THEOREM ErrorsReach == Spec => []ErrorsSurface
<1>1. IInv => ErrorsSurface
      BY DEF IInv, Control, Errors, ErrorsSurface
<1> QED
      BY <1>1, Invariance, PTL

(* No slice expression of mask.Redact panics: at every round of the        *)
(* copying loop pos and the next merged range are ordered and inside the   *)
(* data, whatever list of findings it was called with.                     *)
THEOREM SlicesSafe == Spec => []SlicesInBounds
<1>1. IInv => SlicesInBounds
  <2> SUFFICES ASSUME IInv, step = "copy"
               PROVE  /\ 0 <= pos /\ pos <= Size
                      /\ j <= Len(merged) => pos <= merged[j].from /\ merged[j].from < merged[j].to
      BY DEF SlicesInBounds, Mask!SlicesOrdered
  <2>1. Size \in Nat /\ MaskTypes /\ Copying
        BY SizeNat DEF IInv, ScanTypes, Masking
  <2>2. /\ pos \in 0..Size /\ Len(merged) \in Nat
        /\ \A a \in 1..Len(merged) : a >= j => pos <= merged[a].from
        BY <2>1, CopyPosition
  <2>3. ASSUME j <= Len(merged)
        PROVE  pos <= merged[j].from /\ merged[j].from < merged[j].to
    <3>1. j \in 1..Len(merged) /\ j >= j
          BY <2>1, <2>2, <2>3 DEF MaskTypes
    <3> QED
          BY <3>1, <2>1, <2>2 DEF Copying, Disjoint
  <2> QED
        BY <2>1, <2>2, <2>3
<1> QED
      BY <1>1, Invariance, PTL

-----------------------------------------------------------------------------
(***************************************************************************)
(* Where a finding is, from the scanner's return to the list Process       *)
(* returns.  A plugin's offsets survive the wire when they fit it, which   *)
(* is a hypothesis of the theorems that need it.                           *)
(***************************************************************************)
Fits(f) == FitsWire(f.Start) /\ FitsWire(f.End)

AllFit(fs) == \A f \in Range(fs) : Fits(f)

Fitting ==
    /\ AllFit(findings) /\ AllFit(extra)
    /\ pc = "wait" /\ pass = 0 => \A s \in Scanner : AllFit(results[s].findings)

\* The findings of report t reach the host.
Arrives(t) == t[3].err => t[1] \notin Plugins

KeptIn(fs, g) == g \in Range(fs) \/ \E e \in Range(fs) : Overlaps(e, g)

\* mergeNew has yet to look at g.
Coming(g) == pc = "merge" /\ \E i \in k..Len(extra) : extra[i] = g

Kept ==
    \A t \in reported : Arrives(t) =>
        /\ pc = "wait" /\ t[2] = pass => results[t[1]].findings = t[3].findings
        /\ t[2] = 0 /\ ~(pc = "wait" /\ pass = 0) => Range(t[3].findings) \subseteq Range(findings)
        /\ t[2] > 0 /\ ~(pc = "wait" /\ t[2] = pass) =>
              \A f \in Range(t[3].findings) : Mappable(t[2], f) =>
                  KeptIn(findings, ToBody(t[2], f)) \/ Coming(ToBody(t[2], f))

KInv == Kept /\ Fitting

\* The part of Kept about a report whose pass is over.
Settled(t) ==
    /\ t[2] = 0 => Range(t[3].findings) \subseteq Range(findings)
    /\ t[2] > 0 => \A f \in Range(t[3].findings) : Mappable(t[2], f) =>
                      KeptIn(findings, ToBody(t[2], f)) \/ Coming(ToBody(t[2], f))

LEMMA SettledByKept ==
    ASSUME Kept, NEW t \in reported, Arrives(t), t[2] \in Int, ~(pc = "wait" /\ t[2] = pass)
    PROVE  Settled(t)
BY DEF Kept, Settled

LEMMA ReportTyped ==
    ASSUME ScanTypes, NEW t \in reported
    PROVE  t[1] \in Scanner /\ t[2] \in 0..NumViews /\ t[2] \in Int /\ t[3] \in Report
BY PipelineAssumption DEF ScanTypes

(* Steps that touch neither the reports nor the findings.                  *)
LEMMA KeptQuiet ==
    ASSUME IInv, KInv, IInv', reported' = reported, findings' = findings, extra' = extra,
           pc # "wait", pc # "merge", pc' # "wait"
    PROVE  KInv'
<1>1. ASSUME NEW t \in reported, Arrives(t) PROVE Settled(t)'
  <2>1. Settled(t)
        BY <1>1, SettledByKept, ReportTyped DEF IInv, KInv
  <2> QED
        BY <2>1 DEF Settled, Coming, KeptIn
<1>2. Kept'
      BY <1>1 DEF Kept, Settled, Arrives
<1>3. Fitting'
      BY DEF KInv, Fitting, AllFit
<1> QED
      BY <1>2, <1>3 DEF KInv

LEMMA KeptLaunch ==
    ASSUME IInv, KInv, Launch
    PROVE  KInv'
<1>1. /\ pc = "scan" /\ pc' = "wait" /\ results' = [s \in Scanner |-> NoReport]
      /\ pass' = pass /\ extra' = extra /\ findings' = findings /\ reported' = reported
      BY DEF Launch
<1>2. \A t \in reported : t[2] # pass
      BY <1>1 DEF IInv, History
<1>3. ASSUME NEW t \in reported, Arrives(t) PROVE Settled(t)'
  <2>1. Settled(t)
        BY <1>1, <1>3, SettledByKept, ReportTyped DEF IInv, KInv
  <2> QED
        BY <1>1, <2>1 DEF Settled, Coming, KeptIn
<1>4. Kept'
      BY <1>1, <1>2, <1>3 DEF Kept, Settled, Arrives
<1>5. \A s \in Scanner : results'[s].findings = <<>>
      BY <1>1 DEF NoReport
<1>6. Range(<<>>) = {}
      BY DEF Range
<1>7. Fitting'
      BY <1>1, <1>5, <1>6 DEF KInv, Fitting, AllFit
<1> QED
      BY <1>4, <1>7 DEF KInv

LEMMA KeptAnswered ==
    ASSUME IInv, KInv, NEW s \in running, NEW r \in Report, NEW q \in Report,
           Arrives(<<s, pass, r>>) => q.findings = r.findings,
           pass = 0 => AllFit(q.findings),
           results' = [results EXCEPT ![s] = q],
           reported' = reported \cup {<<s, pass, r>>},
           UNCHANGED <<pc, pass, extra, findings>>
    PROVE  KInv'
<1>1. pc = "wait" /\ s \in Scanner /\ results \in [Scanner -> Report]
      BY DEF IInv, Control, ScanTypes
<1> DEFINE t0 == <<s, pass, r>>
<1>2. t0[1] = s /\ t0[2] = pass /\ t0[3] = r /\ (Arrives(t0) => q.findings = r.findings)
      BY DEF Arrives
<1>3. \A t \in reported' : t \in reported \/ t = t0
      OBVIOUS
<1>4. results'[s] = q /\ \A u \in Scanner : u # s => results'[u] = results[u]
      BY <1>1
<1> HIDE DEF t0
<1>5. ASSUME NEW t \in reported', Arrives(t), t[2] = pass
      PROVE  results'[t[1]].findings = t[3].findings
  <2>1. CASE t = t0
        BY <1>2, <1>4, <1>5, <2>1
  <2>2. CASE t \in reported
    <3>1. t[1] \in Scanner /\ t[1] # s
          BY <1>5, <2>2, ReportTyped DEF IInv, History
    <3> QED
          BY <1>1, <1>4, <1>5, <2>2, <3>1 DEF KInv, Kept
  <2> QED
        BY <1>3, <2>1, <2>2
<1>6. ASSUME NEW t \in reported', Arrives(t), t[2] # pass
      PROVE  t \in reported /\ Settled(t)'
  <2>1. t \in reported
        BY <1>2, <1>3, <1>6
  <2>2. Settled(t)
        BY <1>6, <2>1, SettledByKept, ReportTyped DEF IInv, KInv
  <2> QED
        BY <1>1, <2>1, <2>2 DEF Settled, Coming, KeptIn
<1>7. Kept'
  <2> SUFFICES ASSUME NEW t \in reported', Arrives(t)
               PROVE  /\ t[2] = pass => results'[t[1]].findings = t[3].findings
                      /\ t[2] # pass => Settled(t)'
      BY <1>1 DEF Kept, Settled, Arrives
  <2> QED
      BY <1>5, <1>6
<1>8. Fitting'
  <2>1. ASSUME pass = 0, NEW u \in Scanner PROVE AllFit(results'[u].findings)
        BY <1>1, <1>4, <2>1 DEF KInv, Fitting
  <2> QED
        BY <2>1 DEF KInv, Fitting, AllFit
<1> QED
      BY <1>7, <1>8 DEF KInv

LEMMA KeptReturn ==
    ASSUME OffsetsFit, IInv, KInv, NEW s \in Scanner, Return(s)
    PROVE  KInv'
<1>1. PICK r \in Reports(s, pass) :
          /\ results' = [results EXCEPT ![s] = IF s \in Plugins THEN ClientScan(ServerScan(r)) ELSE r]
          /\ reported' = reported \cup {<<s, pass, r>>}
      BY DEF Return
<1>2. r \in Report
      BY ReportsAssumption DEF IInv, ScanTypes
<1>3. s \in running /\ UNCHANGED <<pc, pass, extra, findings>>
      BY DEF Return
<1>4. s \in Plugins => pass = 0
  <2>1. pc = "wait" /\ s \in Fan(pass) /\ pass \in 0..NumViews
        BY <1>3 DEF IInv, Control, ScanTypes
  <2> QED
        BY <2>1, PipelineAssumption DEF Fan
<1>5. pass = 0 => AllFit(r.findings)
      BY DEF OffsetsFit, AllFit, Fits
<1> DEFINE q == IF s \in Plugins THEN ClientScan(ServerScan(r)) ELSE r
<1>6. q \in Report
      BY <1>2, WireReport
<1>7. (r.err => s \notin Plugins) => q.findings = r.findings
  <2>1. CASE s \in Plugins
    <3>1. \A f \in Range(r.findings) : FitsWire(f.Start) /\ FitsWire(f.End)
          BY <1>4, <1>5, <2>1 DEF AllFit, Fits
    <3> QED
          BY <1>2, <2>1, <3>1, WireReport
  <2>2. CASE s \notin Plugins
        BY <2>2
  <2> QED
        BY <2>1, <2>2
<1>8. pass = 0 => AllFit(q.findings)
  <2>1. CASE s \in Plugins /\ r.err
    <3>1. q.findings = <<>>
          BY <1>2, <2>1, WireReport
    <3>2. Range(<<>>) = {}
          BY DEF Range
    <3> QED
          BY <3>1, <3>2 DEF AllFit
  <2>2. CASE ~(s \in Plugins /\ r.err)
        BY <1>5, <1>7, <2>2
  <2> QED
        BY <2>1, <2>2
<1>9. results' = [results EXCEPT ![s] = q]
      BY <1>1
<1> HIDE DEF q
<1>10. Arrives(<<s, pass, r>>) => q.findings = r.findings
      BY <1>7 DEF Arrives
<1> QED
      BY <1>1, <1>2, <1>3, <1>6, <1>8, <1>9, <1>10, KeptAnswered

LEMMA KeptCallFails ==
    ASSUME IInv, KInv, NEW s \in Scanner, CallFails(s)
    PROVE  KInv'
<1>1. /\ s \in running /\ UNCHANGED <<pc, pass, extra, findings>>
      /\ results' = [results EXCEPT ![s] = Lost]
      /\ reported' = reported \cup {<<s, pass, Lost>>}
      BY DEF CallFails
<1> DEFINE q == Lost
<1>2. q \in Report /\ q.findings = <<>>
      BY SimpleReports DEF Lost
<1>3. Range(<<>>) = {}
      BY DEF Range
<1>4. AllFit(q.findings)
      BY <1>2, <1>3 DEF AllFit
<1>5. results' = [results EXCEPT ![s] = q] /\ reported' = reported \cup {<<s, pass, q>>}
      BY <1>1
<1> HIDE DEF q
<1> QED
      BY <1>1, <1>2, <1>4, <1>5, KeptAnswered

(* Joining the raw pass keeps every finding of every scanner.              *)
LEMMA KeptJoinRaw ==
    ASSUME IInv, KInv, JoinRaw
    PROVE  KInv'
<1>1. /\ pc = "wait" /\ pc' = "next" /\ pass = 0 /\ findings' = Joined(results)
      /\ pass' = pass /\ extra' = extra /\ reported' = reported
      BY DEF JoinRaw
<1>2. \A f : f \in Range(Joined(results)) <=> \E s \in Scanner : f \in Range(results[s].findings)
      BY JoinedTyped DEF IInv
<1>3. ASSUME NEW t \in reported, Arrives(t)
      PROVE  t[2] = 0 /\ Range(t[3].findings) \subseteq Range(findings')
  <2>1. t[1] \in Scanner /\ t[2] \in 0..NumViews /\ t[2] <= pass
        BY ReportTyped DEF IInv, History
  <2>2. t[2] = 0
        BY <1>1, <2>1, PipelineAssumption
  <2>3. results[t[1]].findings = t[3].findings
        BY <1>1, <1>3, <2>2 DEF KInv, Kept
  <2> QED
        BY <1>1, <1>2, <2>1, <2>2, <2>3
<1>4. Kept'
      BY <1>1, <1>3 DEF Kept, Arrives
<1>5. Fitting'
  <2>1. \A f \in Range(findings') : Fits(f)
        BY <1>1, <1>2 DEF KInv, Fitting, AllFit
  <2> QED
        BY <1>1, <2>1 DEF KInv, Fitting, AllFit
<1> QED
      BY <1>4, <1>5 DEF KInv

(* transformedPass leaves every finding of the view that can be mapped to  *)
(* mergeNew.                                                               *)
LEMMA KeptJoinView ==
    ASSUME OffsetsFit, IInv, KInv, JoinView
    PROVE  KInv'
<1>1. /\ pc = "wait" /\ pc' = "merge" /\ pass > 0 /\ extra' = Mapped(pass, Joined(results)) /\ k' = 1
      /\ pass' = pass /\ findings' = findings /\ reported' = reported
      BY DEF JoinView
<1> DEFINE fs == Joined(results)
           ms == Mapped(pass, fs)
<1>2. pass \in View
      BY <1>1, PipelineAssumption DEF IInv, ScanTypes, View
<1>3. fs \in Seq(Finding) /\ \A f : f \in Range(fs) <=> \E s \in Scanner : f \in Range(results[s].findings)
      BY JoinedTyped DEF IInv
<1>4. /\ ms \in Seq(Finding)
      /\ \A f : f \in Range(ms) <=> \E i \in 1..Len(fs) : Mappable(pass, fs[i]) /\ f = ToBody(pass, fs[i])
      BY <1>2, <1>3, MappedAll
<1>5. extra' = ms
      BY <1>1
<1> HIDE DEF fs, ms
<1>6. Range(fs) = {fs[i] : i \in 1..Len(fs)} /\ Range(ms) = {ms[i] : i \in 1..Len(ms)}
      BY <1>3, <1>4, RangeIndexed
<1>7. ASSUME NEW f \in Range(fs), Mappable(pass, f) PROVE Coming(ToBody(pass, f))'
  <2>1. ToBody(pass, f) \in Range(ms)
        BY <1>4, <1>6, <1>7
  <2>2. PICK i \in 1..Len(ms) : ms[i] = ToBody(pass, f)
        BY <1>6, <2>1
  <2> QED
        BY <1>1, <1>5, <2>2 DEF Coming
<1>8. ASSUME NEW t \in reported, Arrives(t) PROVE Settled(t)'
  <2>1. t[1] \in Scanner /\ t[2] \in Int
        BY ReportTyped DEF IInv
  <2>2. CASE t[2] = pass
    <3>1. results[t[1]].findings = t[3].findings
          BY <1>1, <1>8, <2>2 DEF KInv, Kept
    <3>2. Range(t[3].findings) \subseteq Range(fs)
          BY <1>3, <2>1, <3>1
    <3> QED
          BY <1>1, <1>7, <2>2, <3>2 DEF Settled
  <2>3. CASE t[2] # pass
    <3>1. Settled(t)
          BY <1>1, <1>8, <2>1, <2>3, SettledByKept DEF KInv
    <3>2. \A g : ~Coming(g)
          BY <1>1 DEF Coming
    <3> QED
          BY <1>1, <3>1, <3>2 DEF Settled, KeptIn
  <2> QED
        BY <2>2, <2>3
<1>9. Kept'
      BY <1>1, <1>8 DEF Kept, Settled, Arrives
<1>10. ASSUME NEW g \in Range(ms) PROVE Fits(g)
  <2>1. PICK i \in 1..Len(fs) : Mappable(pass, fs[i]) /\ g = ToBody(pass, fs[i])
        BY <1>4
  <2>2. fs[i] \in Finding
        BY <1>3
  <2>3. g.Start \in Range(OrigIdx(pass)) /\ g.End \in Range(OrigIdx(pass))
        BY <1>2, <2>1, <2>2, ToBodyIsFinding
  <2> QED
        BY <1>2, <2>3 DEF OffsetsFit, Fits
<1>11. Fitting'
      BY <1>1, <1>5, <1>10 DEF KInv, Fitting, AllFit
<1> QED
      BY <1>9, <1>11 DEF KInv

(* mergeNew drops a finding only for one of its type that overlaps it.     *)
LEMMA KeptMergeNew ==
    ASSUME IInv, KInv, MergeNew
    PROVE  KInv'
<1>1. /\ pc = "merge" /\ pc' = pc /\ k <= Len(extra) /\ k' = k + 1
      /\ findings' = IF overlapsExisting(extra[k]) THEN findings ELSE Append(findings, extra[k])
      /\ pass' = pass /\ extra' = extra /\ reported' = reported
      BY DEF MergeNew
<1>2. extra \in Seq(Finding) /\ findings \in Seq(Finding) /\ k \in Nat \ {0}
      BY DEF IInv, ScanTypes
<1>3. k \in 1..Len(extra) /\ extra[k] \in Finding
      BY <1>1, <1>2
<1> DEFINE e0 == extra[k]
<1>4. /\ Range(findings) \subseteq Range(findings')
      /\ KeptIn(findings', e0)
      /\ \A f \in Range(findings') : f \in Range(findings) \/ f = e0
  <2>1. CASE overlapsExisting(e0)
        BY <1>1, <2>1 DEF overlapsExisting, KeptIn
  <2>2. CASE ~overlapsExisting(e0)
    <3>1. findings' = Append(findings, e0)
          BY <1>1, <2>2
    <3>2. \A f : f \in Range(Append(findings, e0)) <=> f \in Range(findings) \/ f = e0
          BY <1>2, <1>3, RangeAppend
    <3> QED
          BY <3>1, <3>2 DEF KeptIn
  <2> QED
        BY <2>1, <2>2
<1>5. ASSUME NEW g, KeptIn(findings, g) \/ Coming(g)
      PROVE  KeptIn(findings', g) \/ Coming(g)'
  <2>1. CASE KeptIn(findings, g)
        BY <1>4, <2>1 DEF KeptIn
  <2>2. CASE Coming(g)
    <3>1. PICK i \in k..Len(extra) : extra[i] = g
          BY <2>2 DEF Coming
    <3>2. CASE i = k
          BY <1>4, <3>1, <3>2
    <3>3. CASE i # k
      <4>1. i \in (k + 1)..Len(extra)
            BY <1>2, <3>1, <3>3
      <4> QED
            BY <1>1, <3>1, <4>1 DEF Coming
    <3> QED
          BY <3>2, <3>3
  <2> QED
        BY <1>5, <2>1, <2>2
<1> HIDE DEF e0
<1>6. ASSUME NEW t \in reported, Arrives(t) PROVE Settled(t)'
  <2>1. Settled(t)
        BY <1>1, <1>6, SettledByKept, ReportTyped DEF IInv, KInv
  <2> QED
        BY <1>1, <1>4, <1>5, <2>1 DEF Settled
<1>7. Kept'
      BY <1>1, <1>6 DEF Kept, Settled, Arrives
<1>8. Fits(e0)
  <2>1. e0 \in Range(extra)
        BY <1>2, <1>3, RangeIndexed DEF e0
  <2> QED
        BY <2>1 DEF KInv, Fitting, AllFit
<1>9. Fitting'
      BY <1>1, <1>4, <1>8 DEF KInv, Fitting, AllFit
<1> QED
      BY <1>7, <1>9 DEF KInv

LEMMA KeptMergeDone ==
    ASSUME IInv, KInv, MergeDone
    PROVE  KInv'
<1>1. /\ pc = "merge" /\ pc' = "next" /\ k > Len(extra) /\ extra' = <<>>
      /\ pass' = pass /\ findings' = findings /\ reported' = reported
      BY DEF MergeDone
<1>2. extra \in Seq(Finding) /\ k \in Nat \ {0}
      BY DEF IInv, ScanTypes
<1>3. k..Len(extra) = {}
      BY <1>1, <1>2
<1>4. \A g : ~Coming(g)
      BY <1>3 DEF Coming
<1>5. ASSUME NEW t \in reported, Arrives(t) PROVE Settled(t)'
  <2>1. Settled(t)
        BY <1>1, <1>5, SettledByKept, ReportTyped DEF IInv, KInv
  <2> QED
        BY <1>1, <1>4, <2>1 DEF Settled, KeptIn
<1>6. Kept'
      BY <1>1, <1>5 DEF Kept, Settled, Arrives
<1>7. Range(<<>>) = {}
      BY DEF Range
<1>8. Fitting'
      BY <1>1, <1>7 DEF KInv, Fitting, AllFit
<1> QED
      BY <1>6, <1>8 DEF KInv

LEMMA KeptStutter ==
    ASSUME KInv, UNCHANGED vars
    PROVE  KInv'
<1>1. /\ pc' = pc /\ pass' = pass /\ results' = results /\ extra' = extra /\ k' = k
      /\ findings' = findings /\ reported' = reported
      BY DEF vars
<1>2. Kept'
      BY <1>1 DEF KInv, Kept, Arrives, KeptIn, Coming
<1>3. Fitting'
      BY <1>1 DEF KInv, Fitting, AllFit
<1> QED
      BY <1>2, <1>3 DEF KInv

LEMMA KeptPreserved ==
    ASSUME OffsetsFit, IInv, KInv, [Next]_vars, IInv'
    PROVE  KInv'
<1>1. CASE Launch
      BY <1>1, KeptLaunch
<1>2. CASE JoinRaw
      BY <1>2, KeptJoinRaw
<1>3. CASE JoinView
      BY <1>3, KeptJoinView
<1>4. CASE MergeNew
      BY <1>4, KeptMergeNew
<1>5. CASE MergeDone
      BY <1>5, KeptMergeDone
<1>6. CASE NothingToScan \/ NextPass \/ ScanReturns
  <2>1. /\ reported' = reported /\ findings' = findings /\ extra' = extra
        /\ pc # "wait" /\ pc # "merge" /\ pc' # "wait"
        BY <1>6 DEF NothingToScan, NextPass, ScanReturns
  <2> QED
        BY <2>1, KeptQuiet
<1>7. CASE SkipRedact \/ MaskCalled \/ MaskStep \/ MaskReturns \/ PluginRedacts
  <2>1. scanVars' = scanVars /\ pc # "wait" /\ pc # "merge" /\ pc' # "wait"
        BY <1>7 DEF SkipRedact, MaskCalled, MaskStep, MaskReturns, PluginRedacts
  <2>2. reported' = reported /\ findings' = findings /\ extra' = extra
        BY <2>1 DEF scanVars
  <2> QED
        BY <2>1, <2>2, KeptQuiet
<1>8. ASSUME NEW s \in Scanner, Return(s) PROVE KInv'
      BY <1>8, KeptReturn
<1>9. ASSUME NEW s \in Scanner, CallFails(s) PROVE KInv'
      BY <1>9, KeptCallFails
<1>10. CASE Done
      BY <1>10, KeptStutter DEF Done
<1>11. CASE UNCHANGED vars
      BY <1>11, KeptStutter
<1> QED
      BY <1>1, <1>2, <1>3, <1>4, <1>5, <1>6, <1>7, <1>8, <1>9, <1>10, <1>11 DEF Next, Step

(* No finding that reaches the host is lost on its way, and every offset   *)
(* on the way fits the wire.                                               *)
THEOREM KeptInvariance ==
    ASSUME OffsetsFit
    PROVE  Spec => [](IInv /\ KInv)
<1>1. Init => IInv /\ KInv
  <2> SUFFICES ASSUME Init PROVE IInv /\ KInv
      OBVIOUS
  <2>1. reported = {} /\ findings = <<>> /\ extra = <<>> /\ pc = "scan"
        BY DEF Init
  <2>2. Range(<<>>) = {}
        BY DEF Range
  <2>3. Kept
        BY <2>1 DEF Kept
  <2>4. Fitting
        BY <2>1, <2>2 DEF Fitting, AllFit
  <2> QED
        BY <2>3, <2>4, InitEstablishes DEF KInv
<1>2. (IInv /\ KInv) /\ [Next]_vars => (IInv /\ KInv)'
      BY StepPreserves, KeptPreserved
<1> QED
      BY <1>1, <1>2, PTL DEF Spec

LEMMA DoneNothingLost ==
    ASSUME IInv, KInv
    PROVE  NothingLost
<1> SUFFICES ASSUME pc = "done", NEW s \in Scanner
             PROVE  /\ Said(s, 0) \subseteq Range(findings)
                    /\ \A v \in View : \A f \in Said(s, v) : Mappable(v, f) =>
                          \/ ToBody(v, f) \in Range(findings)
                          \/ \E e \in Range(findings) : Overlaps(e, ToBody(v, f))
    BY DEF NothingLost
<1>1. ASSUME NEW v \in 0..NumViews, NEW f \in Said(s, v)
      PROVE  \E t \in reported : t[2] = v /\ Settled(t) /\ f \in Range(t[3].findings)
  <2>1. PICK t \in reported : /\ t[1] = s /\ t[2] = v /\ (t[3].err => s \notin Plugins)
                              /\ f \in Range(t[3].findings)
        BY <1>1 DEF Said
  <2>2. Arrives(t) /\ t[2] \in Int
        BY <2>1, ReportTyped DEF Arrives, IInv
  <2>3. Settled(t)
        BY <2>2, SettledByKept DEF KInv
  <2> QED
        BY <2>1, <2>3
<1>2. 0 \in 0..NumViews /\ \A v \in View : v \in 0..NumViews /\ v > 0
      BY PipelineAssumption DEF View
<1>3. ASSUME NEW f \in Said(s, 0) PROVE f \in Range(findings)
      BY <1>1, <1>2, <1>3 DEF Settled
<1>4. ASSUME NEW v \in View, NEW f \in Said(s, v), Mappable(v, f)
      PROVE  KeptIn(findings, ToBody(v, f))
  <2>1. PICK t \in reported : t[2] = v /\ Settled(t) /\ f \in Range(t[3].findings)
        BY <1>1, <1>2, <1>4
  <2> QED
        BY <1>2, <1>4, <2>1 DEF Settled, Coming
<1> QED
      BY <1>3, <1>4 DEF KeptIn

(* What any scanner found in the raw body is in the list Process returns,  *)
(* and what was found in a transformed view is too, unless a finding of    *)
(* its type overlaps it; one failing scanner never costs another's.        *)
THEOREM FindingsKept ==
    ASSUME OffsetsFit
    PROVE  Spec => []NothingLost
<1>1. IInv /\ KInv => NothingLost
      BY DoneNothingLost
<1> QED
      BY <1>1, KeptInvariance, PTL

LEMMA DoneByReference ==
    ASSUME IInv, KInv
    PROVE  RedactsByReference
<1> SUFFICES ASSUME pc = "done"
             PROVE  out = IF Skips \/ redactErr THEN WholeBody ELSE Mask!Reference(findings)
    BY DEF RedactsByReference
<1>1. step \in {"idle", "done"}
      BY DEF IInv, Control
<1>2. CASE step = "done"
      BY <1>2 DEF IInv, Masking, Control
<1>3. CASE step = "idle"
  <2>1. findings \in Seq(Finding) /\ \A f \in Range(findings) : FitsWire(f.Start) /\ FitsWire(f.End)
        BY DEF IInv, ScanTypes, KInv, Fitting, AllFit, Fits
  <2>2. ServerRedact(findings) = findings
        BY <2>1, ProtoFindings DEF ServerRedact, FindingsFromProto
  <2> QED
        BY <1>3, <2>2 DEF IInv, Returned
<1> QED
      BY <1>1, <1>2, <1>3

(* Whatever the order, overlap, duplication or invalidity of the findings, *)
(* the body returned is the reference redaction of the original one.       *)
THEOREM RedactionExact ==
    ASSUME OffsetsFit
    PROVE  Spec => []RedactsByReference
<1>1. IInv /\ KInv => RedactsByReference
      BY DoneByReference
<1> QED
      BY <1>1, KeptInvariance, PTL

(* What a scanner found in the raw body is not in the body that leaves.    *)
THEOREM FoundHidden ==
    ASSUME OffsetsFit
    PROVE  Spec => []FoundIsHidden
<1>1. IInv /\ KInv => FoundIsHidden
  <2> SUFFICES ASSUME IInv, KInv, pc = "done", redactor # "nil", ~redactErr,
                      NEW s \in Scanner, NEW f \in Said(s, 0), Mask!Keep(f),
                      NEW x \in f.Start..(f.End - 1), x \in Range(out)
               PROVE  FALSE
      BY DEF FoundIsHidden
  <2>1. f \in Range(findings)
        BY DoneNothingLost DEF NothingLost
  <2>2. findings \in Seq(Finding) /\ Size \in Nat
        BY SizeNat DEF IInv, ScanTypes
  <2>3. f \in Mask!Usable(findings)
        BY <2>1, <2>2, UsableKeep
  <2>4. f.Start \in Int /\ f.End \in Int /\ f.Start >= 0
    <3>1. f \in Finding
          BY <2>1, <2>2, RangeOfSeq
    <3> QED
          BY <3>1 DEF Finding, Mask!Keep
  <2>5. Mask!IsHidden(findings, x)
        BY <2>3, <2>4 DEF Mask!IsHidden
  <2>6. findings # <<>>
    <3>1. Range(<<>>) = {}
          BY DEF Range
    <3> QED
          BY <2>1, <3>1
  <2>7. out = Mask!Walk(findings)[Size]
        BY <2>6, DoneByReference DEF RedactsByReference, Skips, Mask!Reference
  <2>8. Size \in 0..Size
        BY <2>2
  <2>9. x = Mask!Placeholder
        BY <2>2, <2>5, <2>7, <2>8, WalkShows
  <2> QED
        BY <2>4, <2>9 DEF Mask!Placeholder
<1> QED
      BY <1>1, KeptInvariance, PTL

-----------------------------------------------------------------------------
(***************************************************************************)
(* The sequential reference.  It is a function of the history of reports,  *)
(* and a pass without reports adds nothing to it.                          *)
(***************************************************************************)
IsHistory(h) == h \subseteq Scanner \X (0..NumViews) \X Report

(* ScanWith joins in scanner order, whoever returned first.                *)
LEMMA InTurnJoins ==
    ASSUME NEW h, NEW v, NEW rs, \A s \in Scanner : rs[s].findings = Answer(h, s, v)
    PROVE  InTurn(h, v) = Joined(rs)
<1> DEFINE N == NumScanners
           A(f, x) == IF x = 0 THEN <<>> ELSE f[x - 1] \o Answer(h, x, v)
           B(f, x) == IF x = 0 THEN <<>> ELSE f[x - 1] \o rs[x].findings
<1>1. ASSUME NEW f, NEW x \in 0..N PROVE A(f, x) = B(f, x)
  <2>1. CASE x = 0
        BY <2>1
  <2>2. CASE x # 0
    <3>1. x \in Scanner
          BY <2>2, PipelineAssumption DEF Scanner
    <3> QED
          BY <2>2, <3>1
  <2> QED
        BY <2>1, <2>2
<1>2. InTurn(h, v) = (CHOOSE f : f = [x \in 0..N |-> A(f, x)])[N]
      BY DEF InTurn
<1>3. Joined(rs) = (CHOOSE f : f = [x \in 0..N |-> B(f, x)])[N]
      BY DEF Joined
<1> HIDE DEF A, B
<1>4. ASSUME NEW f PROVE (f = [x \in 0..N |-> A(f, x)]) <=> (f = [x \in 0..N |-> B(f, x)])
      BY <1>1
<1>5. (CHOOSE f : f = [x \in 0..N |-> A(f, x)]) = (CHOOSE f : f = [x \in 0..N |-> B(f, x)])
      BY <1>4, Zenon
<1> QED
      BY <1>2, <1>3, <1>5

LEMMA AnswerTyped ==
    ASSUME NEW h, IsHistory(h), NEW s, NEW v
    PROVE  Answer(h, s, v) \in Seq(Finding)
<1> DEFINE own == {t \in h : t[1] = s /\ t[2] = v}
           t0 == CHOOSE t \in own : TRUE
<1>1. Answer(h, s, v) = IF own = {} \/ (t0[3].err /\ s \in Plugins) THEN <<>> ELSE t0[3].findings
      BY DEF Answer
<1>2. own # {} => t0 \in h
      OBVIOUS
<1>3. \A t \in h : t[3] \in Report
      BY DEF IsHistory
<1> HIDE DEF own, t0
<1> QED
      BY <1>1, <1>2, <1>3 DEF Report

LEMMA AnswerNone ==
    ASSUME NEW h, NEW s, NEW v, \A t \in h : ~(t[1] = s /\ t[2] = v)
    PROVE  Answer(h, s, v) = <<>>
BY DEF Answer

LEMMA AnswerSame ==
    ASSUME NEW h, NEW g, NEW s, NEW v,
           \A t : t[1] = s /\ t[2] = v => (t \in h <=> t \in g)
    PROVE  Answer(h, s, v) = Answer(g, s, v)
<1> DEFINE own(a) == {t \in a : t[1] = s /\ t[2] = v}
           Of(o) == LET r == (CHOOSE t \in o : TRUE)[3]
                    IN  IF o = {} \/ (r.err /\ s \in Plugins) THEN <<>> ELSE r.findings
<1>1. own(h) = own(g)
      OBVIOUS
<1>2. Answer(h, s, v) = Of(own(h)) /\ Answer(g, s, v) = Of(own(g))
      BY DEF Answer
<1> HIDE DEF own, Of
<1> QED
      BY <1>1, <1>2

LEMMA AnswerOnly ==
    ASSUME NEW h, NEW s, NEW v, NEW r, <<s, v, r>> \in h,
           \A t \in h : t[1] = s /\ t[2] = v => t = <<s, v, r>>
    PROVE  Answer(h, s, v) = IF r.err /\ s \in Plugins THEN <<>> ELSE r.findings
<1> DEFINE own == {t \in h : t[1] = s /\ t[2] = v}
           t0 == CHOOSE t \in own : TRUE
<1>1. Answer(h, s, v) = IF own = {} \/ (t0[3].err /\ s \in Plugins) THEN <<>> ELSE t0[3].findings
      BY DEF Answer
<1>2. <<s, v, r>> \in own
      OBVIOUS
<1>3. t0 \in own
      BY <1>2
<1>4. t0 = <<s, v, r>> /\ own # {}
      BY <1>2, <1>3
<1>5. t0[3] = r
      BY <1>4
<1> HIDE DEF own, t0
<1> QED
      BY <1>1, <1>4, <1>5

Collected(h, v) == [s \in Scanner |-> [findings |-> Answer(h, s, v), err |-> FALSE]]

LEMMA InTurnAll ==
    ASSUME NEW h, IsHistory(h), NEW v
    PROVE  /\ InTurn(h, v) = Joined(Collected(h, v)) /\ InTurn(h, v) \in Seq(Finding)
           /\ \A f : f \in Range(InTurn(h, v)) <=> \E s \in Scanner : f \in Range(Answer(h, s, v))
<1> DEFINE rs == Collected(h, v)
<1>1. \A s \in Scanner : rs[s].findings = Answer(h, s, v)
      BY DEF Collected
<1>2. \A s \in Scanner : rs[s].findings \in Seq(Finding)
      BY <1>1, AnswerTyped
<1> HIDE DEF rs
<1>3. InTurn(h, v) = Joined(rs)
      BY <1>1, InTurnJoins
<1>4. /\ Joined(rs) \in Seq(Finding)
      /\ \A f : f \in Range(Joined(rs)) <=> \E s \in Scanner : f \in Range(rs[s].findings)
      BY <1>2, JoinedAll
<1> QED
      BY <1>1, <1>3, <1>4 DEF rs

LEMMA InTurnSame ==
    ASSUME NEW h, NEW g, NEW v, \A s \in Scanner : Answer(h, s, v) = Answer(g, s, v)
    PROVE  InTurn(h, v) = InTurn(g, v)
<1> DEFINE rs == Collected(h, v)
<1>1. \A s \in Scanner : rs[s].findings = Answer(h, s, v) /\ rs[s].findings = Answer(g, s, v)
      BY DEF Collected
<1> HIDE DEF rs
<1> QED
      BY <1>1, InTurnJoins

LEMMA NothingInRange ==
    ASSUME NEW F, NEW fs \in Seq(F), \A f : f \notin Range(fs)
    PROVE  fs = <<>>
<1>1. Len(fs) \in Nat /\ DOMAIN fs = 1..Len(fs)
      OBVIOUS
<1>2. Len(fs) # 0 => fs[1] \in Range(fs)
      BY <1>1 DEF Range
<1>3. Len(fs) = 0
      BY <1>2
<1> QED
      BY <1>3

LEMMA InTurnNone ==
    ASSUME NEW h, IsHistory(h), NEW v, \A t \in h : t[2] # v
    PROVE  InTurn(h, v) = <<>>
<1>1. \A s \in Scanner : Answer(h, s, v) = <<>>
      BY AnswerNone
<1>2. Range(<<>>) = {}
      BY DEF Range
<1>3. \A f : f \notin Range(InTurn(h, v))
      BY <1>1, <1>2, InTurnAll
<1> QED
      BY <1>3, InTurnAll, NothingInRange

ListOf(h, v) == Mapped(v, InTurn(h, v))

LEMMA ListTyped ==
    ASSUME NEW h, IsHistory(h), NEW v \in View
    PROVE  /\ ListOf(h, v) \in Seq(Finding)
           /\ (\A t \in h : t[2] # v) => ListOf(h, v) = <<>>
<1> DEFINE fs == InTurn(h, v)
<1>1. fs \in Seq(Finding)
      BY InTurnAll
<1>2. (\A t \in h : t[2] # v) => fs = <<>>
      BY InTurnNone
<1> HIDE DEF fs
<1>3. /\ Mapped(v, fs) \in Seq(Finding)
      /\ \A f : f \in Range(Mapped(v, fs)) <=>
             \E i \in 1..Len(fs) : Mappable(v, fs[i]) /\ f = ToBody(v, fs[i])
      BY <1>1, MappedAll
<1>4. fs = <<>> => Mapped(v, fs) = <<>>
  <2> SUFFICES ASSUME fs = <<>> PROVE Mapped(v, fs) = <<>>
      OBVIOUS
  <2>1. \A f : f \notin Range(Mapped(v, fs))
        BY <1>3
  <2> QED
        BY <1>3, <2>1, NothingInRange
<1> QED
      BY <1>2, <1>3, <1>4 DEF ListOf, fs

(* mergeNew, round by round.                                               *)
LEMMA KeepLoop ==
    ASSUME NEW fs \in Seq(Finding), NEW gs \in Seq(Finding)
    PROVE  /\ KeepEach(fs, gs)[0] = fs
           /\ \A m \in 1..Len(gs) : KeepEach(fs, gs)[m] = KeepNew(KeepEach(fs, gs)[m - 1], gs[m])
           /\ \A m \in 0..Len(gs) : KeepEach(fs, gs)[m] \in Seq(Finding)
<1> DEFINE N == Len(gs)
           Body(f, x) == IF x = 0 THEN fs ELSE KeepNew(f[x - 1], gs[x])
           E == CHOOSE f : f = [x \in 0..N |-> Body(f, x)]
           D == Seq(Finding)
           G == [x \in 1..N |-> [y \in D |-> KeepNew(y, gs[x])]]
<1>1. N \in Nat /\ \A x \in 1..N : gs[x] \in Finding
      OBVIOUS
<1>2. KeepEach(fs, gs) = E
      BY DEF KeepEach
<1>3. G \in [1..N -> [D -> D]] /\ \A x \in 1..N : \A y \in D : G[x][y] = KeepNew(y, gs[x])
  <2>1. \A x \in 1..N : \A y \in D : KeepNew(y, gs[x]) \in D
        BY <1>1 DEF KeepNew
  <2> QED
        BY <2>1
<1> HIDE DEF G, N
<1>4. PICK f \in [0..N -> D] : f[0] = fs /\ \A x \in 1..N : f[x] = G[x][f[x - 1]]
  <2>1. fs \in D
        OBVIOUS
  <2> HIDE DEF D
  <2>2. Runs(N, D, fs, G)
        BY <1>1, <1>3, <2>1, LoopExists
  <2> QED
        BY <2>2 DEF Runs
<1> HIDE DEF D
<1>5. ASSUME NEW x \in 0..N PROVE f[x] = Body(f, x)
  <2>1. CASE x = 0
        BY <1>4, <2>1
  <2>2. CASE x # 0
    <3>1. x \in 1..N /\ x - 1 \in 0..N
          BY <1>1, <2>2
    <3>2. f[x - 1] \in D
          BY <1>4, <3>1
    <3> QED
          BY <1>3, <1>4, <2>2, <3>1, <3>2
  <2> QED
        BY <2>1, <2>2
<1> HIDE DEF Body
<1>6. f = [x \in 0..N |-> Body(f, x)]
      BY <1>4, <1>5
<1>7. E = [x \in 0..N |-> Body(E, x)]
      BY <1>6
<1> HIDE DEF E
<1>8. \A x \in 0..N : E[x] = Body(E, x)
      BY <1>7
<1>9. E[0] = fs /\ \A x \in 1..N : E[x] = KeepNew(E[x - 1], gs[x])
      BY <1>1, <1>8 DEF Body
<1> DEFINE S == {x \in 0..N : E[x] \in D}
<1>10. S = 0..N
  <2>1. 0 \in S /\ S \in SUBSET (0..N)
        BY <1>1, <1>9 DEF D
  <2>2. ASSUME NEW x \in S, x < N PROVE x + 1 \in S
    <3>1. x + 1 \in 1..N /\ (x + 1) - 1 = x /\ E[x] \in D
          BY <1>1, <2>2
    <3>2. E[x + 1] = KeepNew(E[x], gs[x + 1])
          BY <1>9, <3>1
    <3>3. KeepNew(E[x], gs[x + 1]) \in D
          BY <1>1, <3>1 DEF KeepNew, D
    <3> QED
          BY <1>1, <3>1, <3>2, <3>3
  <2>3. 0 \in Nat /\ 0 <= N
        BY <1>1
  <2> HIDE DEF S, D
  <2> QED
        BY <1>1, <2>1, <2>2, <2>3, Induction
<1>11. \A x \in 0..N : E[x] \in Seq(Finding)
      BY <1>10 DEF D
<1> QED
      BY <1>2, <1>9, <1>11 DEF N

\* The passes of the reference, one after the other.
AfterPass(h) ==
    CHOOSE f : f = [v \in 0..NumViews |->
        IF v = 0 THEN InTurn(h, 0) ELSE KeepEach(f[v - 1], ListOf(h, v))[Len(ListOf(h, v))]]

LEMMA PassLoop ==
    ASSUME NEW h, IsHistory(h)
    PROVE  /\ Sequential(h) = AfterPass(h)[NumViews]
           /\ AfterPass(h)[0] = InTurn(h, 0)
           /\ \A v \in View : AfterPass(h)[v] = KeepEach(AfterPass(h)[v - 1], ListOf(h, v))[Len(ListOf(h, v))]
           /\ \A v \in 0..NumViews : AfterPass(h)[v] \in Seq(Finding)
<1> DEFINE N == NumViews
           L(v) == ListOf(h, v)
           K(y, v) == KeepEach(y, L(v))[Len(L(v))]
           Body(f, v) == IF v = 0 THEN InTurn(h, 0) ELSE K(f[v - 1], v)
           E == CHOOSE f : f = [v \in 0..N |-> Body(f, v)]
           D == Seq(Finding)
           G == [v \in 1..N |-> [y \in D |-> K(y, v)]]
           c == InTurn(h, 0)
<1>1. N \in Nat /\ View = 1..N
      BY PipelineAssumption DEF View
<1>2. AfterPass(h) = E
      BY DEF AfterPass
<1>3. Sequential(h) = E[N]
      BY DEF Sequential, ListOf
<1>4. \A v \in 1..N : \A y \in D : K(y, v) \in D
  <2> SUFFICES ASSUME NEW v \in 1..N, NEW y \in D PROVE K(y, v) \in D
      OBVIOUS
  <2>1. L(v) \in D
        BY <1>1, ListTyped
  <2> HIDE DEF L
  <2>2. Len(L(v)) \in 0..Len(L(v))
        BY <2>1
  <2> QED
        BY <2>1, <2>2, KeepLoop
<1>5. c \in D
      BY InTurnAll
<1> HIDE DEF K, D, c, N
<1>6. G \in [1..N -> [D -> D]] /\ \A v \in 1..N : \A y \in D : G[v][y] = K(y, v)
      BY <1>4
<1> HIDE DEF G
<1>7. PICK f \in [0..N -> D] : f[0] = c /\ \A x \in 1..N : f[x] = G[x][f[x - 1]]
  <2>1. Runs(N, D, c, G)
        BY <1>1, <1>5, <1>6, LoopExists
  <2> QED
        BY <2>1 DEF Runs
<1>8. ASSUME NEW x \in 0..N PROVE f[x] = Body(f, x)
  <2>1. CASE x = 0
        BY <1>7, <2>1 DEF c
  <2>2. CASE x # 0
    <3>1. x \in 1..N /\ x - 1 \in 0..N
          BY <1>1, <2>2
    <3>2. f[x - 1] \in D
          BY <1>7, <3>1
    <3> QED
          BY <1>6, <1>7, <2>2, <3>1, <3>2
  <2> QED
        BY <2>1, <2>2
<1> HIDE DEF Body
<1>9. f = [x \in 0..N |-> Body(f, x)]
      BY <1>7, <1>8
<1>10. E = [x \in 0..N |-> Body(E, x)]
      BY <1>9
<1> HIDE DEF E
<1>11. \A x \in 0..N : E[x] = Body(E, x)
      BY <1>10
<1>12. E[0] = c /\ \A x \in 1..N : E[x] = K(E[x - 1], x)
      BY <1>1, <1>11 DEF Body, c
<1> DEFINE S == {x \in 0..N : E[x] \in D}
<1>13. S = 0..N
  <2>1. 0 \in S /\ S \in SUBSET (0..N)
        BY <1>1, <1>5, <1>12
  <2>2. ASSUME NEW x \in S, x < N PROVE x + 1 \in S
    <3>1. x + 1 \in 1..N /\ (x + 1) - 1 = x /\ E[x] \in D
          BY <1>1, <2>2
    <3>2. E[x + 1] = K(E[x], x + 1)
          BY <1>12, <3>1
    <3> QED
          BY <1>1, <1>4, <3>1, <3>2
  <2> HIDE DEF S
  <2> QED
        BY <1>1, <2>1, <2>2, Induction
<1>14. \A x \in 0..N : E[x] \in Seq(Finding)
      BY <1>13 DEF D
<1> QED
      BY <1>1, <1>2, <1>3, <1>12, <1>14 DEF N, K, c

(* Passes without reports leave the list as it is.                         *)
LEMMA QuietPasses ==
    ASSUME NEW h, IsHistory(h), NEW p \in 0..NumViews, \A t \in h : t[2] <= p
    PROVE  Sequential(h) = AfterPass(h)[p]
<1> DEFINE N == NumViews
           E == AfterPass(h)
           S == {v \in p..N : E[v] = E[p]}
<1>1. N \in Nat /\ View = 1..N
      BY PipelineAssumption DEF View
<1>2. /\ Sequential(h) = E[N]
      /\ \A v \in View : E[v] = KeepEach(E[v - 1], ListOf(h, v))[Len(ListOf(h, v))]
      /\ \A v \in 0..N : E[v] \in Seq(Finding)
      BY PassLoop
<1> HIDE DEF E
<1>3. ASSUME NEW v \in p..N, v < N PROVE E[v + 1] = E[v]
  <2>1. v + 1 \in View /\ (v + 1) - 1 = v /\ v \in 0..N
        BY <1>1, <1>3
  <2>2. \A t \in h : t[2] # v + 1
        BY <1>1 DEF IsHistory
  <2>3. ListOf(h, v + 1) = <<>>
        BY <2>1, <2>2, ListTyped
  <2>4. E[v] \in Seq(Finding) /\ <<>> \in Seq(Finding) /\ Len(<<>>) = 0
        BY <1>2, <2>1
  <2>5. KeepEach(E[v], <<>>)[0] = E[v]
        BY <2>4, KeepLoop
  <2> QED
        BY <1>2, <2>1, <2>3, <2>4, <2>5
<1>4. p \in S /\ S \in SUBSET (p..N)
      BY <1>1
<1>5. ASSUME NEW v \in S, v < N PROVE v + 1 \in S
      BY <1>1, <1>3, <1>5
<1>6. p \in Nat /\ p <= N
      BY <1>1
<1> HIDE DEF S, N
<1>7. S = p..N
      BY <1>1, <1>4, <1>5, <1>6, Induction
<1>8. N \in p..N
      BY <1>1, <1>6
<1>9. E[N] = E[p]
      BY <1>7, <1>8 DEF S
<1> QED
      BY <1>2, <1>9 DEF E

\* What was reported before pass p.
Before(h, p) == {t \in h : t[2] < p}

LEMMA BeforeHistory ==
    ASSUME NEW h, IsHistory(h), NEW p \in Nat
    PROVE  /\ IsHistory(Before(h, p))
           /\ \A t \in Before(h, p) : t[2] < p
           /\ \A v \in 0..(p - 1) : \A s \in Scanner : Answer(Before(h, p), s, v) = Answer(h, s, v)
<1>1. IsHistory(Before(h, p)) /\ \A t \in Before(h, p) : t[2] < p
      BY DEF IsHistory, Before
<1>2. ASSUME NEW v \in 0..(p - 1), NEW s \in Scanner PROVE Answer(Before(h, p), s, v) = Answer(h, s, v)
  <2>1. \A t : t[1] = s /\ t[2] = v => (t \in Before(h, p) <=> t \in h)
        BY DEF Before
  <2> QED
        BY <2>1, AnswerSame
<1> QED
      BY <1>1, <1>2

LEMMA SamePasses ==
    ASSUME NEW h, IsHistory(h), NEW p \in View
    PROVE  AfterPass(h)[p - 1] = AfterPass(Before(h, p))[p - 1]
<1> DEFINE N == NumViews
           g == Before(h, p)
           E == AfterPass(h)
           F == AfterPass(g)
           q == p - 1
           S == {v \in 0..q : E[v] = F[v]}
<1>1. N \in Nat /\ View = 1..N /\ p \in Nat /\ q \in Nat /\ q < N
      BY PipelineAssumption DEF View
<1>2. /\ IsHistory(g)
      /\ \A v \in 0..q : \A s \in Scanner : Answer(g, s, v) = Answer(h, s, v)
      BY <1>1, BeforeHistory
<1>3. \A v \in 0..q : InTurn(h, v) = InTurn(g, v)
      BY <1>2, InTurnSame
<1>4. /\ E[0] = InTurn(h, 0)
      /\ \A v \in View : E[v] = KeepEach(E[v - 1], ListOf(h, v))[Len(ListOf(h, v))]
      BY PassLoop
<1>5. /\ F[0] = InTurn(g, 0)
      /\ \A v \in View : F[v] = KeepEach(F[v - 1], ListOf(g, v))[Len(ListOf(g, v))]
      BY <1>2, PassLoop
<1>6. \A v \in 0..q : ListOf(h, v) = ListOf(g, v)
      BY <1>3 DEF ListOf
<1> HIDE DEF E, F, g, q, N
<1>7. 0 \in S /\ S \in SUBSET (0..q)
      BY <1>1, <1>3, <1>4, <1>5
<1>8. ASSUME NEW v \in S, v < q PROVE v + 1 \in S
  <2>1. v + 1 \in 0..q /\ v + 1 \in View /\ (v + 1) - 1 = v /\ E[v] = F[v]
        BY <1>1, <1>8
  <2> QED
        BY <1>4, <1>5, <1>6, <2>1
<1>9. 0 \in Nat /\ 0 <= q
      BY <1>1
<1> HIDE DEF S
<1>10. S = 0..q
      BY <1>1, <1>7, <1>8, <1>9, Induction
<1>11. q \in S
      BY <1>1, <1>10
<1> QED
      BY <1>11 DEF S, E, F, g, q

(* A transformed pass adds its list, finding by finding.                   *)
LEMMA PassAdds ==
    ASSUME NEW h, IsHistory(h), NEW p \in View, \A t \in h : t[2] <= p
    PROVE  Sequential(h) = KeepEach(Sequential(Before(h, p)), ListOf(h, p))[Len(ListOf(h, p))]
<1> DEFINE g == Before(h, p)
<1>1. p \in 0..NumViews /\ p - 1 \in 0..NumViews /\ p \in Nat
      BY PipelineAssumption DEF View
<1>2. Sequential(h) = AfterPass(h)[p]
      BY <1>1, QuietPasses
<1>3. AfterPass(h)[p] = KeepEach(AfterPass(h)[p - 1], ListOf(h, p))[Len(ListOf(h, p))]
      BY PassLoop
<1>4. AfterPass(h)[p - 1] = AfterPass(g)[p - 1]
      BY SamePasses
<1>5. IsHistory(g) /\ \A t \in g : t[2] < p
      BY <1>1, BeforeHistory
<1>6. \A t \in g : t[2] <= p - 1
      BY <1>1, <1>5 DEF IsHistory
<1> HIDE DEF g
<1>7. Sequential(g) = AfterPass(g)[p - 1]
      BY <1>1, <1>5, <1>6, QuietPasses
<1> QED
      BY <1>2, <1>3, <1>4, <1>7 DEF g

LEMMA RawPass ==
    ASSUME NEW h, IsHistory(h), \A t \in h : t[2] <= 0
    PROVE  Sequential(h) = InTurn(h, 0)
<1>1. 0 \in 0..NumViews
      BY PipelineAssumption
<1>2. Sequential(h) = AfterPass(h)[0]
      BY <1>1, QuietPasses
<1> QED
      BY <1>2, PassLoop

LEMMA NoPass == Sequential({}) = <<>>
<1>1. IsHistory({})
      BY DEF IsHistory
<1>2. Sequential({}) = InTurn({}, 0)
      BY <1>1, RawPass
<1>3. InTurn({}, 0) = <<>>
      BY <1>1, InTurnNone
<1> QED
      BY <1>2, <1>3

-----------------------------------------------------------------------------
\* The findings are those of the reference so far; while goroutines run, those
\* of the passes before, and each result is the answer of its own scanner.
Sequenced ==
    /\ pc \in {"scan", "next", "process", "redact", "done"} => findings = Sequential(reported)
    /\ pc = "wait" =>
          /\ findings = Sequential(Before(reported, pass))
          /\ \A s \in Scanner : results[s].findings = Answer(reported, s, pass)
    /\ pc = "merge" =>
          /\ pass > 0 /\ extra = ListOf(reported, pass) /\ k <= Len(extra) + 1
          /\ findings = KeepEach(Sequential(Before(reported, pass)), extra)[k - 1]

LEMMA SequencedQuiet ==
    ASSUME Sequenced, reported' = reported, findings' = findings,
           pc \in {"scan", "next", "process", "redact", "done"},
           pc' \in {"scan", "next", "process", "redact", "done"}
    PROVE  Sequenced'
BY DEF Sequenced

LEMMA SequencedLaunch ==
    ASSUME IInv, Sequenced, Launch
    PROVE  Sequenced'
<1>1. /\ pc = "scan" /\ pc' = "wait" /\ results' = [s \in Scanner |-> NoReport]
      /\ pass' = pass /\ findings' = findings /\ reported' = reported
      BY DEF Launch
<1>2. \A t \in reported : t[2] # pass /\ t[2] <= pass /\ t[2] \in Int
      BY <1>1, ReportTyped DEF IInv, History
<1>3. pass \in Int
      BY PipelineAssumption DEF IInv, ScanTypes
<1>4. Before(reported, pass) = reported
      BY <1>2, <1>3 DEF Before
<1>5. \A s \in Scanner : Answer(reported, s, pass) = <<>>
      BY <1>2, AnswerNone
<1>6. \A s \in Scanner : results'[s].findings = <<>>
      BY <1>1 DEF NoReport
<1> QED
      BY <1>1, <1>4, <1>5, <1>6 DEF Sequenced

LEMMA SequencedAnswered ==
    ASSUME IInv, Sequenced, NEW s \in running, NEW r \in Report, NEW q \in Report,
           q.findings = IF r.err /\ s \in Plugins THEN <<>> ELSE r.findings,
           results' = [results EXCEPT ![s] = q],
           reported' = reported \cup {<<s, pass, r>>},
           UNCHANGED <<pc, pass, extra, findings>>
    PROVE  Sequenced'
<1>1. pc = "wait" /\ s \in Scanner /\ results \in [Scanner -> Report]
      BY DEF IInv, Control, ScanTypes
<1> DEFINE t0 == <<s, pass, r>>
           h == reported \cup {t0}
<1>2. t0[1] = s /\ t0[2] = pass /\ t0[3] = r
      OBVIOUS
<1>3. pass \in Int
      BY PipelineAssumption DEF IInv, ScanTypes
<1>4. Before(h, pass) = Before(reported, pass)
      BY <1>2, <1>3 DEF Before
<1>5. Answer(h, s, pass) = q.findings
  <2>1. \A t \in reported : ~(t[1] = s /\ t[2] = pass)
        BY DEF IInv, History
  <2>2. t0 \in h /\ \A t \in h : t[1] = s /\ t[2] = pass => t = t0
        BY <2>1
  <2> HIDE DEF h
  <2> QED
        BY <2>2, AnswerOnly
<1>6. ASSUME NEW u \in Scanner, u # s PROVE Answer(h, u, pass) = Answer(reported, u, pass)
  <2>1. \A t : t[1] = u /\ t[2] = pass => (t \in h <=> t \in reported)
        BY <1>2, <1>6
  <2> HIDE DEF h
  <2> QED
        BY <2>1, AnswerSame
<1>7. results'[s] = q /\ \A u \in Scanner : u # s => results'[u] = results[u]
      BY <1>1
<1>8. reported' = h
      OBVIOUS
<1> HIDE DEF h, t0
<1>9. \A u \in Scanner : results'[u].findings = Answer(h, u, pass)
      BY <1>1, <1>5, <1>6, <1>7 DEF Sequenced
<1> QED
      BY <1>1, <1>4, <1>8, <1>9 DEF Sequenced

LEMMA SequencedReturn ==
    ASSUME OffsetsFit, IInv, Sequenced, NEW s \in Scanner, Return(s)
    PROVE  Sequenced'
<1>1. PICK r \in Reports(s, pass) :
          /\ results' = [results EXCEPT ![s] = IF s \in Plugins THEN ClientScan(ServerScan(r)) ELSE r]
          /\ reported' = reported \cup {<<s, pass, r>>}
      BY DEF Return
<1>2. r \in Report
      BY ReportsAssumption DEF IInv, ScanTypes
<1>3. s \in running /\ UNCHANGED <<pc, pass, extra, findings>>
      BY DEF Return
<1>4. s \in Plugins => pass = 0
  <2>1. pc = "wait" /\ s \in Fan(pass) /\ pass \in 0..NumViews
        BY <1>3 DEF IInv, Control, ScanTypes
  <2> QED
        BY <2>1, PipelineAssumption DEF Fan
<1> DEFINE q == IF s \in Plugins THEN ClientScan(ServerScan(r)) ELSE r
<1>5. q \in Report
      BY <1>2, WireReport
<1>6. q.findings = IF r.err /\ s \in Plugins THEN <<>> ELSE r.findings
  <2>1. CASE s \in Plugins
    <3>1. \A f \in Range(r.findings) : FitsWire(f.Start) /\ FitsWire(f.End)
          BY <1>4, <2>1 DEF OffsetsFit
    <3> QED
          BY <1>2, <2>1, <3>1, WireReport
  <2>2. CASE s \notin Plugins
        BY <2>2
  <2> QED
        BY <2>1, <2>2
<1>7. results' = [results EXCEPT ![s] = q]
      BY <1>1
<1> HIDE DEF q
<1> QED
      BY <1>1, <1>2, <1>3, <1>5, <1>6, <1>7, SequencedAnswered

LEMMA SequencedCallFails ==
    ASSUME IInv, Sequenced, NEW s \in Scanner, CallFails(s)
    PROVE  Sequenced'
<1>1. /\ s \in running /\ s \in Plugins /\ UNCHANGED <<pc, pass, extra, findings>>
      /\ results' = [results EXCEPT ![s] = Lost]
      /\ reported' = reported \cup {<<s, pass, Lost>>}
      BY DEF CallFails
<1> DEFINE q == Lost
<1>2. q \in Report /\ q.findings = <<>>
      BY SimpleReports DEF Lost
<1>3. results' = [results EXCEPT ![s] = q] /\ reported' = reported \cup {<<s, pass, q>>}
      BY <1>1
<1> HIDE DEF q
<1>4. q.findings = IF q.err /\ s \in Plugins THEN <<>> ELSE q.findings
      BY <1>2
<1> QED
      BY <1>1, <1>2, <1>3, <1>4, SequencedAnswered

LEMMA ReportedHistory ==
    ASSUME IInv
    PROVE  IsHistory(reported) /\ pass \in Nat /\ \A t \in reported : t[2] <= pass
BY PipelineAssumption DEF IInv, ScanTypes, History, IsHistory

LEMMA SequencedJoinRaw ==
    ASSUME IInv, Sequenced, JoinRaw
    PROVE  Sequenced'
<1>1. /\ pc = "wait" /\ pc' = "next" /\ pass = 0 /\ findings' = Joined(results) /\ reported' = reported
      BY DEF JoinRaw
<1>2. \A s \in Scanner : results[s].findings = Answer(reported, s, 0)
      BY <1>1 DEF Sequenced
<1>3. InTurn(reported, 0) = Joined(results)
      BY <1>2, InTurnJoins
<1>4. Sequential(reported) = InTurn(reported, 0)
      BY <1>1, ReportedHistory, RawPass
<1> QED
      BY <1>1, <1>3, <1>4 DEF Sequenced

LEMMA BeforeTyped ==
    ASSUME IInv
    PROVE  Sequential(Before(reported, pass)) \in Seq(Finding)
<1> DEFINE g == Before(reported, pass)
<1>1. IsHistory(g)
      BY ReportedHistory, BeforeHistory
<1>2. NumViews \in 0..NumViews
      BY PipelineAssumption
<1> HIDE DEF g
<1>3. Sequential(g) \in Seq(Finding)
      BY <1>1, <1>2, PassLoop
<1> QED
      BY <1>3 DEF g

LEMMA SequencedJoinView ==
    ASSUME IInv, Sequenced, JoinView
    PROVE  Sequenced'
<1>1. /\ pc = "wait" /\ pc' = "merge" /\ pass > 0 /\ extra' = Mapped(pass, Joined(results)) /\ k' = 1
      /\ pass' = pass /\ findings' = findings /\ reported' = reported
      BY DEF JoinView
<1>2. /\ \A s \in Scanner : results[s].findings = Answer(reported, s, pass)
      /\ findings = Sequential(Before(reported, pass))
      BY <1>1 DEF Sequenced
<1>3. InTurn(reported, pass) = Joined(results)
      BY <1>2, InTurnJoins
<1>4. extra' = ListOf(reported, pass)
      BY <1>1, <1>3 DEF ListOf
<1>5. extra' \in Seq(Finding)
  <2>1. pass \in View
        BY <1>1, PipelineAssumption DEF IInv, ScanTypes, View
  <2> QED
        BY <1>4, <2>1, ReportedHistory, ListTyped
<1>6. KeepEach(findings, extra')[0] = findings
      BY <1>2, <1>5, BeforeTyped, KeepLoop
<1>7. k' <= Len(extra') + 1 /\ k' - 1 = 0
      BY <1>1, <1>5
<1> QED
      BY <1>1, <1>2, <1>4, <1>6, <1>7 DEF Sequenced

LEMMA SequencedMergeNew ==
    ASSUME IInv, Sequenced, MergeNew
    PROVE  Sequenced'
<1>1. /\ pc = "merge" /\ pc' = pc /\ k <= Len(extra) /\ k' = k + 1
      /\ findings' = IF overlapsExisting(extra[k]) THEN findings ELSE Append(findings, extra[k])
      /\ pass' = pass /\ extra' = extra /\ reported' = reported
      BY DEF MergeNew
<1>2. extra \in Seq(Finding) /\ k \in Nat \ {0}
      BY DEF IInv, ScanTypes
<1>3. k \in 1..Len(extra) /\ k' - 1 = k /\ k' <= Len(extra) + 1
      BY <1>1, <1>2
<1> DEFINE fs == Sequential(Before(reported, pass))
<1>4. findings = KeepEach(fs, extra)[k - 1]
      BY <1>1 DEF Sequenced
<1>5. fs \in Seq(Finding)
      BY BeforeTyped
<1> HIDE DEF fs
<1>6. KeepEach(fs, extra)[k] = KeepNew(findings, extra[k])
      BY <1>2, <1>3, <1>4, <1>5, KeepLoop
<1>7. findings' = KeepNew(findings, extra[k])
      BY <1>1 DEF overlapsExisting, KeepNew
<1> QED
      BY <1>1, <1>3, <1>6, <1>7 DEF Sequenced, fs

LEMMA SequencedMergeDone ==
    ASSUME IInv, Sequenced, MergeDone
    PROVE  Sequenced'
<1>1. /\ pc = "merge" /\ pc' = "next" /\ k > Len(extra) /\ findings' = findings /\ reported' = reported
      BY DEF MergeDone
<1>2. /\ pass > 0 /\ extra = ListOf(reported, pass) /\ k <= Len(extra) + 1
      /\ findings = KeepEach(Sequential(Before(reported, pass)), extra)[k - 1]
      BY <1>1 DEF Sequenced
<1>3. extra \in Seq(Finding) /\ k \in Nat \ {0}
      BY DEF IInv, ScanTypes
<1>4. k - 1 = Len(extra)
      BY <1>1, <1>2, <1>3
<1>5. pass \in View
      BY <1>2, PipelineAssumption DEF IInv, ScanTypes, View
<1>6. Sequential(reported) = KeepEach(Sequential(Before(reported, pass)), extra)[Len(extra)]
      BY <1>2, <1>5, ReportedHistory, PassAdds
<1> QED
      BY <1>1, <1>2, <1>4, <1>6 DEF Sequenced

LEMMA SequencedPreserved ==
    ASSUME OffsetsFit, IInv, Sequenced, [Next]_vars, IInv'
    PROVE  Sequenced'
<1>1. CASE Launch
      BY <1>1, SequencedLaunch
<1>2. CASE JoinRaw
      BY <1>2, SequencedJoinRaw
<1>3. CASE JoinView
      BY <1>3, SequencedJoinView
<1>4. CASE MergeNew
      BY <1>4, SequencedMergeNew
<1>5. CASE MergeDone
      BY <1>5, SequencedMergeDone
<1>6. CASE NothingToScan \/ NextPass \/ ScanReturns
      BY <1>6, SequencedQuiet DEF NothingToScan, NextPass, ScanReturns
<1>7. CASE SkipRedact \/ MaskCalled \/ MaskStep \/ MaskReturns \/ PluginRedacts
      BY <1>7, SequencedQuiet DEF SkipRedact, MaskCalled, MaskStep, MaskReturns, PluginRedacts, scanVars
<1>8. ASSUME NEW s \in Scanner, Return(s) PROVE Sequenced'
      BY <1>8, SequencedReturn
<1>9. ASSUME NEW s \in Scanner, CallFails(s) PROVE Sequenced'
      BY <1>9, SequencedCallFails
<1>10. CASE Done \/ UNCHANGED vars
      BY <1>10 DEF Done, vars, Sequenced
<1> QED
      BY <1>1, <1>2, <1>3, <1>4, <1>5, <1>6, <1>7, <1>8, <1>9, <1>10 DEF Next, Step

(* With offsets that fit the wire, whatever order the goroutines of each   *)
(* pass return in, Process returns the findings, in the order, of running  *)
(* the scanners one after the other (ScanWith, transformedPass, mergeNew). *)
THEOREM OrderIrrelevant ==
    ASSUME OffsetsFit
    PROVE  Spec => []InterleavingFree
<1>1. Init => Sequenced
      BY NoPass DEF Init, Sequenced
<1>2. IInv /\ Sequenced /\ [Next]_vars /\ IInv' => Sequenced'
      BY SequencedPreserved
<1>3. Sequenced => InterleavingFree
      BY DEF Sequenced, InterleavingFree
<1> QED
      BY <1>1, <1>2, <1>3, Invariance, PTL DEF Spec
=============================================================================
