-------------------------- MODULE TransformsProofs --------------------------
(***************************************************************************)
(* Theorems about the six transforms, for every body and every limit.      *)
(***************************************************************************)
EXTENDS Transforms, SequenceTheorems, FiniteSetTheorems, WellFoundedInduction, TLAPS

Stitching == kind \in {"stitch", "digits"}

Types ==
    /\ pc \in {"scan", "walk", "done"}
    /\ kind \in Kind
    /\ n \in Nat
    /\ pos \in 0..n
    /\ changed \in BOOLEAN
    /\ pc = "scan" => Stitching /\ origIdx = <<>> /\ from = <<>> /\ changed = FALSE
    /\ ~Stitching => regions = {}

\* The bytes a view may leave out.
Gaps ==
    {p \in 0..(n - 1) :
        \/ kind = "comment" /\ \E c \in Comments : c[1] <= p /\ p < c[2]
        \/ Stitching /\ Internal(p)}

Source == SUBSET Nat

\* The table o and the sources f of a view of the bytes lo..hi-1: every byte is
\* in a source or in the gaps G, and a source lies between the entry of its
\* view byte and that of the first byte of the next unit.
Table(o, f, lo, hi, G) ==
    /\ o \in Seq(Nat) /\ f \in Seq(Source) /\ Len(o) = Len(f)
    /\ \A j \in 1..Len(o) : lo <= o[j] /\ f[j] # {} /\ \A x \in f[j] : o[j] <= x /\ x < hi
    /\ \A i, j \in 1..Len(o) : i < j => o[i] <= o[j] /\ (f[i] = f[j] \/ \A x \in f[i] : x < o[j])
    /\ \A p \in lo..(hi - 1) : p \in G \/ \E j \in 1..Len(f) : p \in f[j]

Walking ==
    /\ pc = "walk" => Table(origIdx, from, 0, pos, Gaps)
    /\ pc = "done" => \E t \in Seq(Nat) : origIdx = Append(t, n) /\ Table(t, from, 0, n, Gaps)

Justified == changed => Precheck

-----------------------------------------------------------------------------
\* The stretch from rs, with c eligible bytes before p, may still grow at p.
OpenAt(rs, p, c) ==
    /\ rs \in 0..(p - 1)
    /\ Eligible(rs) /\ ~Eligible(rs - 1) /\ ~Internal(rs - 1)
    /\ \A q \in rs..(p - 1) : Eligible(q) \/ Internal(q)
    /\ Eligible(p - 1) \/ (Is(p - 1, "s") /\ Eligible(p))
    /\ c \in Nat
    /\ 2 * c >= p - rs + (IF Eligible(p - 1) THEN 1 ELSE 0)

\* No stretch reaches p from the left.
ClosedAt(rs, p, c) == rs = -1 /\ c = 0 /\ ~Eligible(p - 1) /\ ~Internal(p - 1)

Sound ==
    \A r \in regions :
        /\ r[1] \in 0..n /\ r[2] \in 0..n /\ r[1] < r[2]
        /\ \A p \in r[1]..(r[2] - 1) : Is(p, "s") => Internal(p)

Scanning ==
    pc = "scan" =>
        OpenAt(regionStart, pos, eligibleCount) \/ ClosedAt(regionStart, pos, eligibleCount)

IInv == Types /\ Walking /\ Justified /\ Scanning /\ Sound

-----------------------------------------------------------------------------
(***************************************************************************)
(* Building a table piece by piece.                                        *)
(***************************************************************************)
LEMMA ConcatParts ==
    ASSUME NEW S, NEW a \in Seq(S), NEW b \in Seq(S)
    PROVE  /\ a \o b \in Seq(S) /\ Len(a \o b) = Len(a) + Len(b)
           /\ Len(a) \in Nat /\ Len(b) \in Nat
           /\ \A i \in 1..Len(a) : (a \o b)[i] = a[i]
           /\ \A i \in 1..Len(b) : (a \o b)[Len(a) + i] = b[i]
BY ConcatProperties

LEMMA TableJoins ==
    ASSUME NEW o1, NEW f1, NEW o2, NEW f2, NEW G,
           NEW lo \in Nat, NEW mid \in Nat, NEW hi \in Nat, lo <= mid, mid <= hi,
           Table(o1, f1, lo, mid, G), Table(o2, f2, mid, hi, G)
    PROVE  Table(o1 \o o2, f1 \o f2, lo, hi, G)
<1> DEFINE o == o1 \o o2
           f == f1 \o f2
           K == Len(o1)
           L == Len(o2)
<1>1. /\ o1 \in Seq(Nat) /\ f1 \in Seq(Source) /\ Len(f1) = K
      /\ o2 \in Seq(Nat) /\ f2 \in Seq(Source) /\ Len(f2) = L
      BY DEF Table
<1>2. /\ o \in Seq(Nat) /\ Len(o) = K + L /\ K \in Nat /\ L \in Nat
      /\ \A i \in 1..K : o[i] = o1[i]
      /\ \A i \in 1..L : o[K + i] = o2[i]
      BY <1>1, ConcatParts
<1>3. /\ f \in Seq(Source) /\ Len(f) = K + L
      /\ \A i \in 1..K : f[i] = f1[i]
      /\ \A i \in 1..L : f[K + i] = f2[i]
  <2>1. f1 \in Seq(Source) /\ f2 \in Seq(Source)
        BY <1>1
  <2>2. /\ f1 \o f2 \in Seq(Source) /\ Len(f1 \o f2) = Len(f1) + Len(f2)
        /\ \A i \in 1..Len(f1) : (f1 \o f2)[i] = f1[i]
        /\ \A i \in 1..Len(f2) : (f1 \o f2)[Len(f1) + i] = f2[i]
        BY <2>1, ConcatParts
  <2> QED
        BY <1>1, <2>2
<1>4. /\ \A i \in 1..K : o1[i] \in Nat /\ f1[i] \subseteq Nat
      /\ \A i \in 1..L : o2[i] \in Nat /\ f2[i] \subseteq Nat
  <2>1. /\ \A i \in 1..K : o1[i] \in Nat /\ f1[i] \in Source
        /\ \A i \in 1..L : o2[i] \in Nat /\ f2[i] \in Source
        BY <1>1, ElementOfSeq
  <2> QED
        BY <2>1 DEF Source
<1>5. /\ \A j \in 1..K : lo <= o1[j] /\ f1[j] # {} /\ \A x \in f1[j] : o1[j] <= x /\ x < mid
      /\ \A i, j \in 1..K : i < j => o1[i] <= o1[j] /\ (f1[i] = f1[j] \/ \A x \in f1[i] : x < o1[j])
      /\ \A p \in lo..(mid - 1) : p \in G \/ \E j \in 1..K : p \in f1[j]
      BY <1>1 DEF Table
<1>6. /\ \A j \in 1..L : mid <= o2[j] /\ f2[j] # {} /\ \A x \in f2[j] : o2[j] <= x /\ x < hi
      /\ \A i, j \in 1..L : i < j => o2[i] <= o2[j] /\ (f2[i] = f2[j] \/ \A x \in f2[i] : x < o2[j])
      /\ \A p \in mid..(hi - 1) : p \in G \/ \E j \in 1..L : p \in f2[j]
      BY <1>1 DEF Table
<1> HIDE DEF o, f, K, L
<1>7. ASSUME NEW j \in 1..(K + L)
      PROVE  \/ j \in 1..K /\ o[j] = o1[j] /\ f[j] = f1[j]
             \/ j - K \in 1..L /\ o[j] = o2[j - K] /\ f[j] = f2[j - K]
  <2>1. CASE j <= K
        BY <1>2, <1>3, <2>1
  <2>2. CASE j > K
    <3>1. j - K \in 1..L /\ K + (j - K) = j
          BY <1>2, <2>2
    <3> QED
          BY <1>2, <1>3, <3>1
  <2> QED
        BY <1>2, <2>1, <2>2
<1>8. ASSUME NEW j \in 1..(K + L)
      PROVE  lo <= o[j] /\ f[j] # {} /\ \A x \in f[j] : o[j] <= x /\ x < hi
  <2>1. CASE j \in 1..K /\ o[j] = o1[j] /\ f[j] = f1[j]
    <3>1. \A x \in f1[j] : x \in Nat /\ x < hi
          BY <1>4, <1>5, <2>1
    <3> QED
          BY <1>5, <2>1, <3>1
  <2>2. CASE j - K \in 1..L /\ o[j] = o2[j - K] /\ f[j] = f2[j - K]
        BY <1>4, <1>6, <2>2
  <2> QED
        BY <1>7, <2>1, <2>2
<1>9. ASSUME NEW i \in 1..(K + L), NEW j \in 1..(K + L), i < j
      PROVE  o[i] <= o[j] /\ (f[i] = f[j] \/ \A x \in f[i] : x < o[j])
  <2>1. CASE j \in 1..K /\ o[j] = o1[j] /\ f[j] = f1[j]
    <3>1. i \in 1..K
          BY <1>2, <1>9, <2>1
    <3>2. o[i] = o1[i] /\ f[i] = f1[i]
          BY <1>2, <1>3, <3>1
    <3> QED
          BY <1>5, <1>9, <2>1, <3>1, <3>2
  <2>2. CASE j - K \in 1..L /\ o[j] = o2[j - K] /\ f[j] = f2[j - K]
    <3>1. CASE i \in 1..K /\ o[i] = o1[i] /\ f[i] = f1[i]
      <4>1. mid <= o2[j - K] /\ o2[j - K] \in Nat
            BY <1>4, <1>6, <2>2
      <4>2. \A x \in f1[i] : o1[i] <= x /\ x < mid /\ x \in Nat
            BY <1>4, <1>5, <3>1
      <4>3. f1[i] # {} /\ o1[i] \in Nat
            BY <1>4, <1>5, <3>1
      <4>4. o1[i] < mid
            BY <4>2, <4>3
      <4> QED
            BY <2>2, <3>1, <4>1, <4>2, <4>3, <4>4
    <3>2. CASE i - K \in 1..L /\ o[i] = o2[i - K] /\ f[i] = f2[i - K]
      <4>1. i - K < j - K
            BY <1>2, <1>9
      <4> QED
            BY <1>6, <2>2, <3>2, <4>1
    <3> QED
          BY <1>7, <3>1, <3>2
  <2> QED
        BY <1>7, <2>1, <2>2
<1>10. ASSUME NEW p \in lo..(hi - 1), p \notin G
       PROVE  \E j \in 1..(K + L) : p \in f[j]
  <2>1. CASE p < mid
    <3>1. PICK j \in 1..K : p \in f1[j]
          BY <1>5, <1>10, <2>1
    <3>2. j \in 1..(K + L) /\ f[j] = f1[j]
          BY <1>2, <1>3
    <3> QED
          BY <3>1, <3>2
  <2>2. CASE p >= mid
    <3>1. PICK j \in 1..L : p \in f2[j]
          BY <1>6, <1>10, <2>2
    <3>2. K + j \in 1..(K + L) /\ f[K + j] = f2[j]
          BY <1>2, <1>3
    <3> QED
          BY <3>1, <3>2
  <2> QED
        BY <2>1, <2>2
<1>11. Table(o, f, lo, hi, G)
      BY <1>2, <1>3, <1>8, <1>9, <1>10 DEF Table
<1> QED
      BY <1>11 DEF o, f

(* One unit: its bytes become k view bytes, each mapped to its start.      *)
LEMMA UnitTable ==
    ASSUME NEW s \in Nat, NEW e \in Nat, s < e, NEW k \in Nat \ {0}, NEW G
    PROVE  Table(Copies(k, s), Copies(k, s..(e - 1)), s, e, G)
<1> DEFINE o == Copies(k, s)
           f == Copies(k, s..(e - 1))
           u == s..(e - 1)
<1>1. u \in Source /\ u # {} /\ \A x \in u : x \in Nat /\ s <= x /\ x < e
      BY DEF Source
<1>2. o = [i \in 1..k |-> s] /\ f = [i \in 1..k |-> u]
      BY DEF Copies
<1> HIDE DEF o, f, u
<1>3. o \in Seq(Nat) /\ Len(o) = k /\ \A i \in 1..k : o[i] = s
      BY <1>2
<1>4. f \in Seq(Source) /\ Len(f) = k /\ \A i \in 1..k : f[i] = u
      BY <1>1, <1>2
<1>5. \A p \in s..(e - 1) : p \in f[1]
      BY <1>4 DEF u
<1>6. 1 \in 1..k
      OBVIOUS
<1>7. Table(o, f, s, e, G)
      BY <1>1, <1>3, <1>4, <1>5, <1>6 DEF Table
<1> QED
      BY <1>7 DEF o, f

(* Bytes that a transform may leave out need no entry.                     *)
LEMMA EmptyTable ==
    ASSUME NEW s \in Nat, NEW e \in Nat, NEW G, s..(e - 1) \subseteq G
    PROVE  Table(<<>>, <<>>, s, e, G)
BY DEF Table

(* Bytes copied one by one.                                                *)
LEMMA VerbatimTable ==
    ASSUME NEW s \in Nat, NEW e \in Nat, s <= e, NEW G
    PROVE  Table([j \in 1..(e - s) |-> s + j - 1], [j \in 1..(e - s) |-> {s + j - 1}], s, e, G)
<1> DEFINE k == e - s
           o == [j \in 1..k |-> s + j - 1]
           f == [j \in 1..k |-> {s + j - 1}]
<1>1. k \in Nat /\ e = s + k
      OBVIOUS
<1> HIDE DEF k
<1>2. o \in Seq(Nat) /\ Len(o) = k /\ \A i \in 1..k : o[i] = s + i - 1
      BY <1>1
<1>3. f \in Seq(Source) /\ Len(f) = k /\ \A i \in 1..k : f[i] = {s + i - 1}
  <2> DEFINE b(i) == {s + i - 1}
  <2>1. \A i \in 1..k : b(i) \in Source
        BY <1>1 DEF Source
  <2>2. f = [i \in 1..k |-> b(i)]
        OBVIOUS
  <2> HIDE DEF b, f
  <2>3. f \in Seq(Source) /\ Len(f) = k /\ \A i \in 1..k : f[i] = b(i)
        BY <1>1, <2>1, <2>2
  <2> QED
        BY <2>3 DEF b
<1> HIDE DEF o, f
<1>4. ASSUME NEW p \in s..(e - 1) PROVE \E j \in 1..k : p \in f[j]
  <2>1. p - s + 1 \in 1..k /\ s + (p - s + 1) - 1 = p
        BY <1>1
  <2> QED
        BY <1>3, <2>1
<1>5. \A i \in 1..k : s <= s + i - 1 /\ s + i - 1 < e
      BY <1>1
<1>6. \A i, j \in 1..k : i < j => s + i - 1 < s + j - 1
      BY <1>1
<1>7. ASSUME NEW i \in 1..k
      PROVE  s <= o[i] /\ f[i] # {} /\ \A x \in f[i] : o[i] <= x /\ x < e
  <2>1. o[i] = s + i - 1 /\ f[i] = {s + i - 1} /\ s + i - 1 \in Nat
        BY <1>1, <1>2, <1>3
  <2> QED
        BY <1>5, <2>1
<1>8. ASSUME NEW i \in 1..k, NEW j \in 1..k, i < j
      PROVE  o[i] <= o[j] /\ \A x \in f[i] : x < o[j]
  <2>1. o[i] = s + i - 1 /\ f[i] = {s + i - 1} /\ o[j] = s + j - 1
        BY <1>2, <1>3
  <2> QED
        BY <1>1, <1>6, <1>8, <2>1
<1>9. Table(o, f, s, e, G)
      BY <1>2, <1>3, <1>4, <1>7, <1>8 DEF Table
<1> QED
      BY <1>9 DEF o, f, k

-----------------------------------------------------------------------------
(***************************************************************************)
(* The matches of the regular expressions.                                 *)
(***************************************************************************)
LEMMA IsInside ==
    ASSUME n \in Nat, NEW p, NEW class, Is(p, class)
    PROVE  p \in 0..(n - 1) /\ p \in Nat /\ p < n
BY DEF Is

LEMMA PaddingInside ==
    ASSUME n \in Nat, NEW e \in 0..n
    PROVE  /\ Padding(e) \in 0..2 /\ e + Padding(e) \in 0..n
           /\ \A q \in e..(e + Padding(e) - 1) : Is(q, "=")
<1> DEFINE S == {k \in 0..2 : \A q \in e..(e + k - 1) : Is(q, "=")}
<1>1. 0 \in S
  <2>1. e..(e + 0 - 1) = {}
        OBVIOUS
  <2> QED
        BY <2>1
<1>2. S \subseteq 0..2
      OBVIOUS
<1>3. Padding(e) = CHOOSE x \in S : \A y \in S : x >= y
      BY DEF Padding, Max
<1>4. \A k \in S : \A q \in e..(e + k - 1) : Is(q, "=")
      OBVIOUS
<1> HIDE DEF S
<1>5. \E x \in S : \A y \in S : x >= y
  <2>1. CASE 2 \in S
        BY <1>2, <2>1
  <2>2. CASE 2 \notin S /\ 1 \in S
        BY <1>2, <2>2
  <2>3. CASE 2 \notin S /\ 1 \notin S
        BY <1>1, <1>2, <2>3
  <2> QED
        BY <2>1, <2>2, <2>3
<1>6. Padding(e) \in S
      BY <1>3, <1>5
<1> DEFINE k == Padding(e)
<1>7. k \in 0..2 /\ \A q \in e..(e + k - 1) : Is(q, "=")
      BY <1>2, <1>4, <1>6
<1> HIDE DEF k
<1>8. e + k <= n
  <2>1. CASE k = 0
        BY <2>1
  <2>2. CASE k > 0
    <3>1. e + k - 1 \in e..(e + k - 1)
          BY <1>7, <2>2
    <3>2. e + k - 1 < n
          BY <1>7, <3>1, IsInside
    <3> QED
          BY <1>7, <3>2
  <2> QED
        BY <1>7, <2>1, <2>2
<1> QED
      BY <1>7, <1>8 DEF k

\* A candidate s..e-1: a run up to m and the padding behind it.
Candidate(s, m, e) ==
    /\ s \in Nat /\ m \in Nat /\ e \in Nat
    /\ s + MinBase64Run <= m /\ m <= e /\ e <= m + 2 /\ e <= n
    /\ \A q \in s..(m - 1) : Is(q, "b")
    /\ \A q \in m..(e - 1) : Is(q, "=")

LEMMA CandidateShape ==
    ASSUME n \in Nat, NEW r \in Base64Candidates
    PROVE  \E m \in Nat : Candidate(r[1], m, r[2])
<1>1. PICK t \in (0..n) \X (0..n) : Base64Run(t[1], t[2]) /\ r = <<t[1], t[2] + Padding(t[2])>>
      BY DEF Base64Candidates
<1> DEFINE s == t[1]
           m == t[2]
           k == Padding(m)
<1>2. s \in 0..n /\ m \in 0..n
      OBVIOUS
<1>3. k \in 0..2 /\ m + k \in 0..n /\ \A q \in m..(m + k - 1) : Is(q, "=")
      BY <1>2, PaddingInside
<1>4. m - s >= MinBase64Run /\ \A q \in s..(m - 1) : Is(q, "b")
      BY <1>1 DEF Base64Run
<1>5. r[1] = s /\ r[2] = m + k
      BY <1>1
<1> HIDE DEF s, m, k
<1>6. Candidate(s, m, m + k)
      BY <1>2, <1>3, <1>4, LimitsAssumption DEF Candidate
<1> QED
      BY <1>2, <1>5, <1>6

LEMMA CommentShape ==
    ASSUME n \in Nat, NEW r \in Comments
    PROVE  /\ r[1] \in 0..n /\ r[2] \in 0..n /\ r[1] < r[2]
           /\ Is(r[1], "/") /\ Is(r[1] + 1, "*") /\ r[1] \in 0..(n - 2)
<1>1. r \in (0..n) \X (0..n) /\ Comment(r[1], r[2])
      BY DEF Comments
<1>2. r[1] \in 0..n /\ r[2] \in 0..n
      BY <1>1
<1>3. Is(r[1], "/") /\ Is(r[1] + 1, "*") /\ r[2] - 2 >= r[1] + 2
      BY <1>1 DEF Comment
<1> QED
      BY <1>2, <1>3

(* DecodeCandidate: the bytes of a group of four map to its start, and the *)
(* last group has at least one.                                            *)
LEMMA DecodedCount ==
    ASSUME n \in Nat, NEW s, NEW m, NEW e, Candidate(s, m, e)
    PROVE  DecodedLen(s, e) = ((e - s) \div 4) * 3 - (e - m)
<1> DEFINE P == {q \in s..(e - 1) : Is(q, "=")}
<1>1. /\ s \in Nat /\ m \in Nat /\ e \in Nat /\ s <= m /\ m <= e
      /\ \A q \in s..(m - 1) : Is(q, "b")
      /\ \A q \in m..(e - 1) : Is(q, "=")
      BY LimitsAssumption DEF Candidate
<1>2. P = m..(e - 1)
  <2>1. ASSUME NEW q \in P PROVE q \in m..(e - 1)
    <3>1. ~Is(q, "b")
          BY DEF Is
    <3> QED
          BY <1>1, <3>1
  <2>2. ASSUME NEW q \in m..(e - 1) PROVE q \in P
        BY <1>1
  <2> QED
        BY <2>1, <2>2
<1>3. Cardinality(m..(e - 1)) = e - m
  <2>1. m \in Int /\ e - 1 \in Int
        BY <1>1
  <2>2. Cardinality(m..(e - 1)) = IF m > e - 1 THEN 0 ELSE (e - 1) - m + 1
        BY <2>1, FS_Interval
  <2> QED
        BY <1>1, <2>2
<1> QED
      BY <1>2, <1>3 DEF DecodedLen

LEMMA DecodedTable ==
    ASSUME n \in Nat, NEW s, NEW m, NEW e, Candidate(s, m, e), (e - s) % 4 = 0, NEW G
    PROVE  Table([j \in 1..DecodedLen(s, e) |-> Group(s, j)],
                 [j \in 1..DecodedLen(s, e) |-> Group(s, j)..(Group(s, j) + 3)], s, e, G)
<1> DEFINE g == (e - s) \div 4
           D == DecodedLen(s, e)
           h(j) == (j - 1) \div 3
           o == [j \in 1..D |-> Group(s, j)]
           b(j) == Group(s, j)..(Group(s, j) + 3)
           f == [j \in 1..D |-> b(j)]
<1>1. s \in Nat /\ e \in Nat /\ m \in Nat /\ e - m \in 0..2 /\ s < e
      BY LimitsAssumption DEF Candidate
<1>2. g \in Nat \ {0} /\ e = s + 4 * g
      BY <1>1
<1>3. D = 3 * g - (e - m)
      BY <1>1, <1>2, DecodedCount
<1> HIDE DEF g, D
<1>4. D \in Nat \ {0} /\ D >= 3 * g - 2 /\ D <= 3 * g
      BY <1>1, <1>2, <1>3
<1>5. ASSUME NEW j \in 1..D PROVE h(j) \in 0..(g - 1) /\ Group(s, j) = s + 4 * h(j)
      BY <1>1, <1>2, <1>4 DEF Group
<1>6. ASSUME NEW i \in 1..D, NEW j \in 1..D, i < j PROVE h(i) <= h(j)
      BY <1>4, <1>6
<1> HIDE DEF h
<1>7. ASSUME NEW j \in 1..D
      PROVE  /\ Group(s, j) \in Nat /\ s <= Group(s, j) /\ Group(s, j) + 3 < e
             /\ b(j) \in Source /\ b(j) # {}
             /\ \A x \in b(j) : Group(s, j) <= x /\ x < e
  <2>1. Group(s, j) \in Nat /\ s <= Group(s, j) /\ Group(s, j) + 3 < e
        BY <1>1, <1>2, <1>5
  <2> QED
        BY <1>1, <2>1 DEF Source
<1>8. o \in Seq(Nat) /\ Len(o) = D /\ \A j \in 1..D : o[j] = Group(s, j)
      BY <1>4, <1>7
<1>9. f \in Seq(Source) /\ Len(f) = D /\ \A j \in 1..D : f[j] = b(j)
  <2>1. \A j \in 1..D : b(j) \in Source
        BY <1>7
  <2> HIDE DEF b
  <2> QED
        BY <1>4, <2>1
<1>10. ASSUME NEW i \in 1..D, NEW j \in 1..D, i < j
       PROVE  Group(s, i) <= Group(s, j) /\ (b(i) = b(j) \/ \A x \in b(i) : x < Group(s, j))
  <2>1. /\ h(i) \in Nat /\ h(j) \in Nat /\ h(i) <= h(j)
        /\ Group(s, i) = s + 4 * h(i) /\ Group(s, j) = s + 4 * h(j)
        BY <1>2, <1>5, <1>6, <1>10
  <2>2. CASE h(i) = h(j)
        BY <1>1, <2>1, <2>2
  <2>3. CASE h(i) < h(j)
    <3>1. Group(s, i) + 3 < Group(s, j) /\ Group(s, i) \in Nat /\ Group(s, j) \in Nat
          BY <1>1, <2>1, <2>3
    <3> QED
          BY <3>1
  <2> QED
        BY <2>1, <2>2, <2>3
<1>11. ASSUME NEW p \in s..(e - 1) PROVE \E j \in 1..D : p \in b(j)
  <2> DEFINE c == (p - s) \div 4
             j == 3 * c + 1
  <2>1. c \in 0..(g - 1) /\ s + 4 * c <= p /\ p <= s + 4 * c + 3
        BY <1>1, <1>2
  <2> HIDE DEF c
  <2>2. j \in 1..D /\ (j - 1) \div 3 = c
        BY <1>2, <1>4, <2>1
  <2>3. Group(s, j) = s + 4 * c
        BY <1>1, <2>1, <2>2 DEF Group
  <2>4. p \in b(j)
        BY <1>1, <2>1, <2>3
  <2> QED
        BY <2>2, <2>4
<1> HIDE DEF b, o, f
<1>12. \A j \in 1..D : s <= o[j] /\ f[j] # {} /\ \A x \in f[j] : o[j] <= x /\ x < e
      BY <1>7, <1>8, <1>9
<1>13. \A i, j \in 1..D : i < j => o[i] <= o[j] /\ (f[i] = f[j] \/ \A x \in f[i] : x < o[j])
      BY <1>8, <1>9, <1>10
<1>14. \A p \in s..(e - 1) : \E j \in 1..D : p \in f[j]
      BY <1>9, <1>11
<1>15. Table(o, f, s, e, G)
      BY <1>8, <1>9, <1>12, <1>13, <1>14 DEF Table
<1> QED
      BY <1>15 DEF o, f, b, D

-----------------------------------------------------------------------------
(***************************************************************************)
(* The walks: one lemma per action, and one for what they share.           *)
(***************************************************************************)
\* The transform and its argument stay.
SameCall == kind' = kind /\ src' = src

LEMMA CallFixed ==
    ASSUME SameCall
    PROVE  /\ n' = n /\ Gaps' = Gaps /\ (Precheck' <=> Precheck) /\ (Stitching' <=> Stitching)
           /\ \A p, c : Is(p, c)' <=> Is(p, c)
           /\ \A p : Eligible(p)' <=> Eligible(p)
           /\ \A p : Internal(p)' <=> Internal(p)
           /\ \A s, e : Maximal(s, e)' <=> Maximal(s, e)
<1>1. n' = n /\ (Stitching' <=> Stitching)
      BY DEF SameCall, n, Stitching
<1>2. \A p, c : Is(p, c)' <=> Is(p, c)
      BY <1>1 DEF SameCall, Is, At
<1>3. \A p : Eligible(p)' <=> Eligible(p)
      BY <1>2 DEF SameCall, Eligible
<1>4. \A p : Internal(p)' <=> Internal(p)
      BY <1>2, <1>3 DEF Internal
<1>5. \A s, e : Maximal(s, e)' <=> Maximal(s, e)
      BY <1>3, <1>4 DEF Maximal
<1>6. Comments' = Comments
      BY <1>1, <1>2 DEF Comments, Comment, Closes
<1>7. Gaps' = Gaps
      BY <1>1, <1>4, <1>6 DEF SameCall, Gaps
<1>8. Precheck' <=> Precheck
      BY <1>1, <1>2 DEF SameCall, Precheck
<1> QED
      BY <1>1, <1>2, <1>3, <1>4, <1>5, <1>7, <1>8

(* A step that adds a piece to the view.                                   *)
LEMMA WalkOn ==
    ASSUME IInv, pc = "walk", pc' = "walk", SameCall, scanVars' = scanVars,
           NEW o, NEW f, origIdx' = origIdx \o o, from' = from \o f,
           pos' \in pos..n, Table(o, f, pos, pos', Gaps),
           changed' \in BOOLEAN, changed' => Precheck
    PROVE  IInv'
<1>1. /\ n' = n /\ Gaps' = Gaps /\ (Precheck' <=> Precheck) /\ (Stitching' <=> Stitching)
      /\ \A p, c : Is(p, c)' <=> Is(p, c)
      /\ \A p : Internal(p)' <=> Internal(p)
      BY CallFixed
<1>2. regions' = regions
      BY DEF scanVars
<1>3. n \in Nat /\ pos \in Nat /\ pos' \in Nat /\ pos <= pos' /\ pos' \in 0..n
      BY DEF IInv, Types
<1>4. Types'
      BY <1>1, <1>2, <1>3 DEF IInv, Types, SameCall
<1>5. Table(origIdx, from, 0, pos, Gaps)
      BY DEF IInv, Walking
<1>6. Table(origIdx \o o, from \o f, 0, pos', Gaps)
      BY <1>3, <1>5, TableJoins
<1>7. Walking'
      BY <1>1, <1>6 DEF Walking
<1>8. Justified'
      BY <1>1 DEF Justified
<1>9. Scanning'
      BY DEF Scanning
<1>10. Sound'
      BY <1>1, <1>2 DEF IInv, Sound
<1> QED
      BY <1>4, <1>7, <1>8, <1>9, <1>10 DEF IInv

LEMMA StepEmit ==
    ASSUME IInv, pc = "walk", pc' = "walk", SameCall, scanVars' = scanVars,
           NEW e \in (pos + 1)..n, NEW k \in Nat \ {0}, Emit(pos, e, k),
           changed' \in BOOLEAN, changed' => Precheck
    PROVE  IInv'
<1>1. pos \in Nat /\ e \in Nat /\ pos < e /\ e \in pos..n
      BY DEF IInv, Types
<1>2. Table(Copies(k, pos), Copies(k, pos..(e - 1)), pos, e, Gaps)
      BY <1>1, UnitTable
<1>3. /\ origIdx' = origIdx \o Copies(k, pos) /\ from' = from \o Copies(k, pos..(e - 1)) /\ pos' = e
      BY DEF Emit
<1> QED
      BY <1>1, <1>2, <1>3, WalkOn

LEMMA StepURLUnit ==
    ASSUME IInv, URLUnit
    PROVE  IInv'
<1>1. /\ pc = "walk" /\ pc' = "walk" /\ kind = "url" /\ pos < n /\ SameCall /\ scanVars' = scanVars
      BY DEF URLUnit, SameCall
<1>2. n \in Nat /\ pos \in Nat /\ changed \in BOOLEAN /\ (changed => Precheck)
      BY DEF IInv, Types, Justified
<1>3. 1 \in Nat \ {0}
      OBVIOUS
<1>4. CASE Escape(pos)
  <2>1. Emit(pos, pos + 3, 1) /\ changed' = TRUE
        BY <1>4 DEF URLUnit
  <2>2. Is(pos, "%") /\ Is(pos + 2, "h")
        BY <1>4 DEF Escape
  <2>3. pos + 3 \in (pos + 1)..n /\ pos \in 0..(n - 1)
        BY <1>2, <2>2, IsInside
  <2>4. Precheck
        BY <1>1, <2>2, <2>3 DEF Precheck
  <2> QED
        BY <1>1, <1>3, <2>1, <2>3, <2>4, StepEmit
<1>5. CASE ~Escape(pos)
  <2>1. Emit(pos, pos + 1, 1) /\ changed' = changed
        BY <1>5 DEF URLUnit
  <2>2. pos + 1 \in (pos + 1)..n
        BY <1>1, <1>2
  <2> QED
        BY <1>1, <1>2, <1>3, <2>1, <2>2, StepEmit
<1> QED
      BY <1>4, <1>5

LEMMA StepRuneUnit ==
    ASSUME IInv, RuneUnit
    PROVE  IInv'
<1>1. /\ pc = "walk" /\ pc' = "walk" /\ kind = "nfkc" /\ pos < n /\ SameCall /\ scanVars' = scanVars
      /\ Emit(pos, pos + RuneSize(pos), NormalizedLen(pos))
      /\ changed' = (changed \/ RuneSize(pos) = 3)
      BY DEF RuneUnit, SameCall
<1>2. n \in Nat /\ pos \in Nat /\ changed \in BOOLEAN /\ (changed => Precheck)
      BY DEF IInv, Types, Justified
<1>3. /\ RuneSize(pos) \in {1, 2, 3}
      /\ RuneSize(pos) = 2 => Is(pos + 1, "c")
      /\ RuneSize(pos) = 3 => (Is(pos, "w") \/ Is(pos, "l")) /\ Is(pos + 2, "c")
      BY DEF RuneSize
<1>4. pos + RuneSize(pos) \in (pos + 1)..n
  <2>1. RuneSize(pos) = 2 => pos + 1 < n
        BY <1>2, <1>3, IsInside
  <2>2. RuneSize(pos) = 3 => pos + 2 < n
        BY <1>2, <1>3, IsInside
  <2> QED
        BY <1>1, <1>2, <1>3, <2>1, <2>2
<1>5. NormalizedLen(pos) \in Nat \ {0}
      BY <1>3 DEF NormalizedLen
<1>6. changed' \in BOOLEAN /\ (changed' => Precheck)
  <2>1. ASSUME RuneSize(pos) = 3 PROVE Precheck
    <3>1. pos \in 0..(n - 1) /\ ~Is(pos, "a")
          BY <1>1, <1>2, <1>3, <2>1 DEF Is
    <3> QED
          BY <1>1, <3>1 DEF Precheck
  <2> QED
        BY <1>1, <1>2, <2>1
<1> DEFINE e == pos + RuneSize(pos)
           k == NormalizedLen(pos)
<1> HIDE DEF e, k
<1>7. e \in (pos + 1)..n /\ k \in Nat \ {0} /\ Emit(pos, e, k)
      BY <1>1, <1>4, <1>5 DEF e, k
<1> QED
      BY <1>1, <1>6, <1>7, StepEmit

(* The least element of a set of offsets is in it.                         *)
LEMMA LeastOffset ==
    ASSUME NEW T \in SUBSET Nat, T # {}
    PROVE  Min(T) \in T /\ \A y \in T : Min(T) <= y
<1>1. IsWellFoundedOn(OpToRel(<, Nat), Nat)
      BY NatLessThanWellFounded
<1>2. \A x, y \in Nat : <<x, y>> \in OpToRel(<, Nat) <=> x < y
      BY DEF OpToRel
<1>3. PICK x \in T : \A y \in T : ~(<<y, x>> \in OpToRel(<, Nat))
      BY <1>1, WFMin, Zenon
<1>4. \A y \in T : ~(y < x)
      BY <1>2, <1>3, Zenon
<1>5. \E z \in T : \A y \in T : z <= y
      BY <1>4
<1> QED
      BY <1>5 DEF Min

LEMMA MatchShape ==
    ASSUME n \in Nat, NEW r \in Matches
    PROVE  r[1] \in Nat /\ r[2] \in Nat /\ r[1] < r[2] /\ r[2] <= n
<1>1. CASE kind = "base64"
  <2>1. r \in Base64Candidates
        BY <1>1 DEF Matches
  <2>2. PICK m \in Nat : Candidate(r[1], m, r[2])
        BY <2>1, CandidateShape
  <2> QED
        BY <2>2, LimitsAssumption DEF Candidate
<1>2. CASE kind = "comment"
  <2>1. r \in Comments
        BY <1>2 DEF Matches
  <2> QED
        BY <2>1, CommentShape
<1>3. CASE kind \notin {"base64", "comment"}
      BY <1>3 DEF Matches
<1> QED
      BY <1>1, <1>2, <1>3

LEMMA NextInside ==
    ASSUME n \in Nat
    PROVE  NextStart \in 0..n
<1> DEFINE T == {r[1] : r \in Regions}
<1>1. T \subseteq 0..n
  <2>1. \A r \in Regions : r[1] \in 0..n
    <3>1. \A r \in Regions : r[1] \in Nat /\ r[2] \in Nat /\ r[1] < r[2] /\ r[2] <= n
          BY MatchShape DEF Regions
    <3> QED
          BY <3>1
  <2> QED
        BY <2>1
<1>2. CASE Regions = {}
      BY <1>2 DEF NextStart
<1>3. CASE Regions # {}
  <2>1. T \in SUBSET Nat /\ T # {}
        BY <1>1, <1>3
  <2>2. NextStart = Min(T)
        BY <1>3 DEF NextStart
  <2> HIDE DEF T
  <2>3. Min(T) \in T
        BY <2>1, LeastOffset
  <2> QED
        BY <1>1, <2>2, <2>3
<1> QED
      BY <1>2, <1>3

LEMMA StepVerbatim ==
    ASSUME IInv, Verbatim
    PROVE  IInv'
<1>1. /\ pc = "walk" /\ pc' = "walk" /\ pos < NextStart /\ SameCall /\ scanVars' = scanVars
      /\ Emit(pos, pos + 1, 1) /\ changed' = changed
      BY DEF Verbatim, SameCall
<1>2. n \in Nat /\ pos \in Nat /\ changed \in BOOLEAN /\ (changed => Precheck)
      BY DEF IInv, Types, Justified
<1>3. pos + 1 \in (pos + 1)..n /\ 1 \in Nat \ {0}
      BY <1>1, <1>2, NextInside
<1> QED
      BY <1>1, <1>2, <1>3, StepEmit

LEMMA StepDropped ==
    ASSUME IInv, pc = "walk", pc' = "walk", SameCall, scanVars' = scanVars,
           pos' \in pos..n, pos..(pos' - 1) \subseteq Gaps,
           origIdx' = origIdx, from' = from,
           changed' = TRUE, Precheck
    PROVE  IInv'
<1>1. pos \in Nat /\ pos' \in Nat
      BY DEF IInv, Types
<1>2. Table(<<>>, <<>>, pos, pos', Gaps)
      BY <1>1, EmptyTable
<1>3. origIdx \in Seq(Nat) /\ from \in Seq(Source)
      BY DEF IInv, Walking, Table
<1>4. origIdx' = origIdx \o <<>>
      BY <1>3
<1>5. from' = from \o <<>>
      BY <1>3
<1>6. changed' \in BOOLEAN /\ (changed' => Precheck)
      OBVIOUS
<1> QED
      BY <1>2, <1>4, <1>5, <1>6, WalkOn

LEMMA StepRegion ==
    ASSUME IInv, Region
    PROVE  IInv'
<1>1. /\ pc = "walk" /\ pc' = "walk" /\ kind \in {"base64", "comment"} /\ SameCall /\ scanVars' = scanVars
      BY DEF Region, SameCall
<1>2. PICK r \in Regions :
          /\ r[1] = pos
          /\ pos' = r[2]
          /\ IF kind = "base64" THEN KeepCandidate(pos, r[2]) \/ DecodeCandidate(pos, r[2])
             ELSE changed' = TRUE /\ UNCHANGED <<origIdx, from>>
      BY DEF Region
<1>3. n \in Nat /\ pos \in Nat /\ changed \in BOOLEAN /\ (changed => Precheck)
      BY DEF IInv, Types, Justified
<1>4. r \in Matches
      BY DEF Regions
<1>5. pos' \in Nat /\ pos < pos' /\ pos' <= n /\ pos' \in pos..n
      BY <1>2, <1>3, <1>4, MatchShape
<1>6. CASE kind = "base64"
  <2>1. PICK m \in Nat : Candidate(pos, m, pos')
        BY <1>2, <1>3, <1>4, <1>6, CandidateShape DEF Matches
  <2>2. CASE KeepCandidate(pos, pos')
    <3> DEFINE o == [j \in 1..(pos' - pos) |-> pos + j - 1]
               f == [j \in 1..(pos' - pos) |-> {pos + j - 1}]
    <3>1. origIdx' = origIdx \o o /\ from' = from \o f /\ changed' = changed
          BY <2>2 DEF KeepCandidate
    <3>2. pos <= pos'
          BY <1>3, <1>5
    <3>3. Table(o, f, pos, pos', Gaps)
          BY <1>3, <1>5, <3>2, VerbatimTable, Zenon
    <3> HIDE DEF o, f
    <3> QED
          BY <1>1, <1>3, <1>5, <3>1, <3>3, WalkOn
  <2>3. CASE DecodeCandidate(pos, pos')
    <3> DEFINE o == [j \in 1..DecodedLen(pos, pos') |-> Group(pos, j)]
               f == [j \in 1..DecodedLen(pos, pos') |-> Group(pos, j)..(Group(pos, j) + 3)]
    <3>1. origIdx' = origIdx \o o /\ from' = from \o f /\ changed' = TRUE /\ (pos' - pos) % 4 = 0
          BY <2>3 DEF DecodeCandidate
    <3>2. Table(o, f, pos, pos', Gaps)
          BY <1>3, <2>1, <3>1, DecodedTable
    <3>3. Precheck
      <4>1. pos \in 0..(n - MinBase64Run) /\ \A q \in pos..(pos + MinBase64Run - 1) : Is(q, "b")
            BY <1>3, <2>1, LimitsAssumption DEF Candidate
      <4> QED
            BY <1>6, <4>1 DEF Precheck
    <3> HIDE DEF o, f
    <3> QED
          BY <1>1, <1>5, <3>1, <3>2, <3>3, WalkOn
  <2> QED
        BY <1>2, <1>6, <2>2, <2>3
<1>7. CASE kind = "comment"
  <2>1. r \in Comments
        BY <1>4, <1>7 DEF Matches
  <2>2. Is(pos, "/") /\ Is(pos + 1, "*") /\ pos \in 0..(n - 2)
        BY <1>2, <1>3, <2>1, CommentShape
  <2>3. Precheck
        BY <1>7, <2>2 DEF Precheck
  <2>4. pos..(pos' - 1) \subseteq Gaps
    <3>1. ASSUME NEW p \in pos..(pos' - 1) PROVE p \in 0..(n - 1) /\ r[1] <= p /\ p < r[2]
          BY <1>2, <1>3, <1>5
    <3> QED
          BY <1>7, <2>1, <3>1 DEF Gaps
  <2>5. changed' = TRUE /\ origIdx' = origIdx /\ from' = from
        BY <1>2, <1>7
  <2> QED
        BY <1>1, <1>5, <2>3, <2>4, <2>5, StepDropped
<1> QED
      BY <1>1, <1>6, <1>7

LEMMA StepStitchByte ==
    ASSUME IInv, StitchByte
    PROVE  IInv'
<1>1. /\ pc = "walk" /\ pc' = "walk" /\ Inside /\ SameCall /\ scanVars' = scanVars
      BY DEF StitchByte, SameCall
<1>2. n \in Nat /\ pos \in Nat /\ changed \in BOOLEAN /\ (changed => Precheck)
      BY DEF IInv, Types, Justified
<1>3. PICK r \in regions : r[1] <= pos /\ pos < r[2]
      BY <1>1 DEF Inside
<1>4. /\ r[1] \in 0..n /\ r[2] \in 0..n
      /\ \A p \in r[1]..(r[2] - 1) : Is(p, "s") => Internal(p)
      BY DEF IInv, Sound
<1>5. pos \in r[1]..(r[2] - 1) /\ pos < n /\ pos \in 0..(n - 1)
      BY <1>2, <1>3, <1>4
<1>6. Stitching
      BY DEF IInv, Types
<1>7. CASE Is(pos, "s")
  <2>1. pos' = pos + 1 /\ changed' = TRUE /\ origIdx' = origIdx /\ from' = from
        BY <1>7 DEF StitchByte
  <2>2. Internal(pos)
        BY <1>4, <1>5, <1>7
  <2>3. pos..(pos' - 1) \subseteq Gaps
    <3>1. pos \in Gaps
          BY <1>5, <1>6, <2>2 DEF Gaps
    <3>2. \A p \in pos..(pos' - 1) : p = pos
          BY <1>2, <2>1
    <3> QED
          BY <3>1, <3>2
  <2>4. Precheck
        BY <1>5, <1>6, <1>7 DEF Precheck, Stitching
  <2>5. pos' \in pos..n
        BY <1>2, <1>5, <2>1
  <2> QED
        BY <1>1, <2>1, <2>3, <2>4, <2>5, StepDropped
<1>8. CASE ~Is(pos, "s")
  <2>1. Emit(pos, pos + 1, 1) /\ changed' = changed
        BY <1>8 DEF StitchByte
  <2>2. pos + 1 \in (pos + 1)..n /\ 1 \in Nat \ {0}
        BY <1>2, <1>5
  <2> QED
        BY <1>1, <1>2, <2>1, <2>2, StepEmit
<1> QED
      BY <1>7, <1>8

LEMMA StepSentinel ==
    ASSUME IInv, Sentinel
    PROVE  IInv'
<1>1. /\ pc = "walk" /\ pc' = "done" /\ pos = n /\ SameCall /\ scanVars' = scanVars
      /\ origIdx' = Append(origIdx, n) /\ from' = from /\ changed' = changed /\ pos' = pos
      BY DEF Sentinel, SameCall
<1>2. /\ n' = n /\ Gaps' = Gaps /\ (Precheck' <=> Precheck) /\ (Stitching' <=> Stitching)
      /\ \A p, c : Is(p, c)' <=> Is(p, c)
      /\ \A p : Internal(p)' <=> Internal(p)
      BY <1>1, CallFixed
<1>3. regions' = regions
      BY <1>1 DEF scanVars
<1>4. Types'
      BY <1>1, <1>2, <1>3 DEF IInv, Types, SameCall
<1>5. Table(origIdx, from, 0, n, Gaps) /\ origIdx \in Seq(Nat)
      BY <1>1 DEF IInv, Walking, Table
<1>6. Walking'
  <2>1. \E t \in Seq(Nat) : origIdx' = Append(t, n) /\ Table(t, from, 0, n, Gaps)
        BY <1>1, <1>5
  <2> QED
        BY <1>1, <1>2, <2>1 DEF Walking
<1>7. Justified'
      BY <1>1, <1>2 DEF IInv, Justified
<1>8. Scanning'
      BY <1>1 DEF Scanning
<1>9. Sound'
      BY <1>2, <1>3 DEF IInv, Sound
<1> QED
      BY <1>4, <1>6, <1>7, <1>8, <1>9 DEF IInv

-----------------------------------------------------------------------------
(***************************************************************************)
(* The scan for regions to stitch.                                         *)
(***************************************************************************)
LEMMA AheadIs ==
    ASSUME n \in Nat, NEW p \in 0..(n - 1)
    PROVE  /\ Ahead(p) \in (p + 1)..n /\ ~Is(Ahead(p), "s")
           /\ \A q \in (p + 1)..(Ahead(p) - 1) : Is(q, "s")
<1> DEFINE T == {q \in (p + 1)..n : ~Is(q, "s")}
<1>1. n \in T
  <2>1. ~Is(n, "s")
        BY IsInside
  <2> QED
        BY <2>1
<1>2. T \in SUBSET Nat /\ T # {}
      BY <1>1
<1>3. \A q : q \in T <=> q \in (p + 1)..n /\ ~Is(q, "s")
      OBVIOUS
<1>4. Ahead(p) = Min(T)
      BY DEF Ahead
<1> HIDE DEF T
<1>5. Ahead(p) \in T /\ \A q \in T : Ahead(p) <= q
      BY <1>2, <1>4, LeastOffset
<1>6. Ahead(p) \in (p + 1)..n
      BY <1>3, <1>5
<1>7. ASSUME NEW q \in (p + 1)..(Ahead(p) - 1) PROVE Is(q, "s")
  <2>1. q \in (p + 1)..n /\ ~(Ahead(p) <= q)
        BY <1>6
  <2> QED
        BY <1>3, <1>5, <2>1
<1> QED
      BY <1>3, <1>5, <1>6, <1>7

LEMMA EligibleIs ==
    ASSUME n \in Nat, NEW p, Eligible(p)
    PROVE  p \in 0..(n - 1) /\ p \in Nat /\ p < n /\ ~Is(p, "s")
<1>1. Is(p, "d") \/ Is(p, "l")
      BY DEF Eligible
<1>2. ~Is(p, "s")
      BY <1>1 DEF Is
<1> QED
      BY <1>1, <1>2, IsInside

(* A step of the scan that keeps looking.                                  *)
LEMMA ScanOn ==
    ASSUME IInv, pc = "scan", pc' = "scan", SameCall, walkVars' = walkVars, pos' \in 0..n, Sound',
           \/ OpenAt(regionStart', pos', eligibleCount')
           \/ ClosedAt(regionStart', pos', eligibleCount')
    PROVE  IInv'
<1>1. /\ n' = n /\ (Precheck' <=> Precheck) /\ (Stitching' <=> Stitching)
      /\ \A p, c : Is(p, c)' <=> Is(p, c)
      /\ \A p : Eligible(p)' <=> Eligible(p)
      /\ \A p : Internal(p)' <=> Internal(p)
      BY CallFixed
<1>2. origIdx' = origIdx /\ from' = from /\ changed' = changed
      BY DEF walkVars
<1>3. Stitching
      BY DEF IInv, Types
<1>4. Types'
      BY <1>1, <1>2, <1>3 DEF IInv, Types, SameCall
<1>5. Walking' /\ Justified'
  <2>1. changed' = FALSE
        BY <1>2 DEF IInv, Types
  <2> QED
        BY <2>1 DEF Walking, Justified
<1>6. Scanning'
      BY <1>1 DEF Scanning, OpenAt, ClosedAt
<1> QED
      BY <1>4, <1>5, <1>6 DEF IInv

LEMMA SoundStays ==
    ASSUME Sound, SameCall, regions' = regions
    PROVE  Sound'
<1>1. /\ n' = n
      /\ \A p, c : Is(p, c)' <=> Is(p, c)
      /\ \A p : Internal(p)' <=> Internal(p)
      BY CallFixed
<1> QED
      BY <1>1 DEF Sound

LEMMA FlushSound ==
    ASSUME IInv, pc = "scan", SameCall, Flush(pos)
    PROVE  Sound'
<1>1. CASE ~Qualifies(regionStart, pos)
  <2>1. regions' = regions
        BY <1>1 DEF Flush
  <2> QED
        BY <2>1, SoundStays DEF IInv
<1>2. CASE Qualifies(regionStart, pos)
  <2> DEFINE s == regionStart
             e == pos
  <2>1. n \in Nat /\ e \in 0..n
        BY DEF IInv, Types
  <2>2. regions' = regions \cup {<<s, e>>}
        BY <1>2 DEF Flush
  <2>3. OpenAt(s, e, eligibleCount)
        BY <1>2 DEF IInv, Scanning, ClosedAt, Qualifies
  <2>4. s \in 0..(e - 1) /\ \A q \in s..(e - 1) : Eligible(q) \/ Internal(q)
        BY <2>3 DEF OpenAt
  <2>5. \A q \in s..(e - 1) : Is(q, "s") => Internal(q)
        BY <2>1, <2>4, EligibleIs
  <2>6. /\ n' = n
        /\ \A p, c : Is(p, c)' <=> Is(p, c)
        /\ \A p : Internal(p)' <=> Internal(p)
        BY CallFixed
  <2> HIDE DEF s, e
  <2>7. ASSUME NEW r \in regions'
        PROVE  /\ r[1] \in 0..n /\ r[2] \in 0..n /\ r[1] < r[2]
               /\ \A p \in r[1]..(r[2] - 1) : Is(p, "s") => Internal(p)
    <3>1. CASE r \in regions
          BY <3>1 DEF IInv, Sound
    <3>2. CASE r = <<s, e>>
      <4>1. r[1] = s /\ r[2] = e
            BY <3>2
      <4>2. s \in 0..n /\ e \in 0..n /\ s < e
            BY <2>1, <2>4
      <4> QED
            BY <2>5, <4>1, <4>2
    <3> QED
          BY <2>2, <3>1, <3>2
  <2> QED
        BY <2>6, <2>7 DEF Sound
<1> QED
      BY <1>1, <1>2

LEMMA StepScanEligible ==
    ASSUME IInv, ScanEligible
    PROVE  IInv'
<1>1. /\ pc = "scan" /\ pc' = "scan" /\ SameCall /\ walkVars' = walkVars /\ Eligible(pos)
      /\ pos' = pos + 1 /\ eligibleCount' = eligibleCount + 1 /\ regions' = regions
      /\ regionStart' = IF regionStart < 0 THEN pos ELSE regionStart
      BY DEF ScanEligible, SameCall
<1>2. n \in Nat /\ pos \in Nat /\ pos < n /\ pos' \in 0..n
      BY <1>1, EligibleIs DEF IInv, Types
<1>3. Sound'
      BY <1>1, SoundStays DEF IInv
<1>4. OpenAt(regionStart', pos + 1, eligibleCount + 1)
  <2>1. CASE OpenAt(regionStart, pos, eligibleCount)
    <3>1. /\ regionStart \in 0..(pos - 1) /\ Eligible(regionStart)
          /\ ~Eligible(regionStart - 1) /\ ~Internal(regionStart - 1)
          /\ \A q \in regionStart..(pos - 1) : Eligible(q) \/ Internal(q)
          /\ eligibleCount \in Nat /\ 2 * eligibleCount >= pos - regionStart
          BY <1>2, <2>1 DEF OpenAt
    <3>2. regionStart' = regionStart
          BY <1>1, <3>1
    <3>3. regionStart \in 0..pos
          BY <1>2, <3>1
    <3>4. \A q \in regionStart..pos : Eligible(q) \/ Internal(q)
          BY <1>1, <1>2, <3>1
    <3> DEFINE e == pos + 1
               d == eligibleCount + 1
    <3>5. e - 1 = pos
          BY <1>2
    <3>6. d \in Nat /\ 2 * d >= e - regionStart + 1
          BY <1>2, <3>1
    <3> HIDE DEF e, d
    <3>7. regionStart \in 0..(e - 1) /\ \A q \in regionStart..(e - 1) : Eligible(q) \/ Internal(q)
          BY <3>3, <3>4, <3>5
    <3>8. OpenAt(regionStart, e, d)
          BY <1>1, <3>1, <3>5, <3>6, <3>7 DEF OpenAt
    <3> QED
          BY <3>2, <3>8 DEF e, d
  <2>2. CASE ClosedAt(regionStart, pos, eligibleCount)
    <3>1. regionStart = -1 /\ eligibleCount = 0 /\ ~Eligible(pos - 1) /\ ~Internal(pos - 1)
          BY <2>2 DEF ClosedAt
    <3>2. regionStart' = pos /\ eligibleCount + 1 = 1
          BY <1>1, <3>1
    <3>3. \A q \in pos..pos : Eligible(q) \/ Internal(q)
          BY <1>1, <1>2
    <3>4. pos \in 0..pos /\ 1 \in Nat /\ 2 * 1 >= (pos + 1) - pos + 1
          BY <1>2
    <3> QED
          BY <1>1, <1>2, <3>1, <3>2, <3>3, <3>4 DEF OpenAt
  <2> QED
        BY <1>1, <2>1, <2>2 DEF IInv, Scanning
<1> QED
      BY <1>1, <1>2, <1>3, <1>4, ScanOn

(* A space that is not joined is followed by no stretch that it belongs to.*)
LEMMA SpaceCloses ==
    ASSUME IInv, pc = "scan", Is(pos, "s"), ~Joinable(pos)
    PROVE  /\ Ahead(pos) \in (pos + 1)..n
           /\ \A q \in pos..(Ahead(pos) - 1) : ~Eligible(q) /\ ~Internal(q)
<1> DEFINE a == Ahead(pos)
<1>1. n \in Nat /\ pos \in 0..(n - 1)
      BY IsInside DEF IInv, Types
<1>2. a \in (pos + 1)..n /\ ~Is(a, "s") /\ \A q \in (pos + 1)..(a - 1) : Is(q, "s")
      BY <1>1, AheadIs
<1>3. a - pos # 1 \/ ~Eligible(a) \/ ~(regionStart >= 0)
      BY DEF Joinable
<1>4. OpenAt(regionStart, pos, eligibleCount) \/ ClosedAt(regionStart, pos, eligibleCount)
      BY DEF IInv, Scanning
<1> HIDE DEF a
<1>5. \A q \in pos..(a - 1) : Is(q, "s")
      BY <1>1, <1>2
<1>6. \A q \in pos..(a - 1) : ~Eligible(q)
      BY <1>1, <1>5, EligibleIs
<1>7. ASSUME NEW q \in pos..(a - 1), Internal(q) PROVE FALSE
  <2>1. Eligible(q - 1) /\ Eligible(q + 1)
        BY <1>7 DEF Internal
  <2>2. q = pos
        BY <1>1, <1>2, <1>6, <2>1
  <2>3. a = pos + 1
    <3>1. ~Is(pos + 1, "s")
          BY <1>1, <2>1, <2>2, EligibleIs
    <3> QED
          BY <1>1, <1>2, <3>1
  <2>4. regionStart < 0 \/ ~(regionStart >= 0)
        BY <1>1, <1>3, <2>1, <2>2, <2>3
  <2>5. ClosedAt(regionStart, pos, eligibleCount)
        BY <1>1, <1>4, <2>4 DEF OpenAt
  <2> QED
        BY <2>1, <2>2, <2>5 DEF ClosedAt
<1> QED
      BY <1>2, <1>6, <1>7 DEF a

LEMMA StepScanSpace ==
    ASSUME IInv, ScanSpace
    PROVE  IInv'
<1>1. /\ pc = "scan" /\ pc' = "scan" /\ SameCall /\ walkVars' = walkVars /\ Is(pos, "s")
      BY DEF ScanSpace, SameCall
<1>2. n \in Nat /\ pos \in Nat /\ pos < n /\ ~Eligible(pos)
      BY <1>1, IsInside, EligibleIs DEF IInv, Types
<1>3. CASE Joinable(pos)
  <2>1. pos' = pos + 1 /\ regionStart' = regionStart /\ eligibleCount' = eligibleCount /\ regions' = regions
        BY <1>3 DEF ScanSpace, scanVars
  <2>2. Ahead(pos) - pos = 1 /\ Eligible(Ahead(pos)) /\ regionStart >= 0
        BY <1>3 DEF Joinable
  <2>3. Ahead(pos) \in (pos + 1)..n
        BY <1>2, AheadIs
  <2>4. Eligible(pos + 1) /\ pos + 1 - 1 = pos
    <3>1. Ahead(pos) = pos + 1
          BY <1>2, <2>2, <2>3
    <3> QED
          BY <1>2, <2>2, <3>1
  <2>5. OpenAt(regionStart, pos, eligibleCount)
        BY <1>1, <2>2 DEF IInv, Scanning, ClosedAt
  <2> DEFINE s == regionStart
             c == eligibleCount
  <2>6. /\ s \in 0..(pos - 1) /\ Eligible(s) /\ ~Eligible(s - 1) /\ ~Internal(s - 1)
        /\ \A q \in s..(pos - 1) : Eligible(q) \/ Internal(q)
        /\ Eligible(pos - 1)
        /\ c \in Nat /\ 2 * c >= pos - s + 1
        BY <1>2, <2>5 DEF OpenAt
  <2>7. Internal(pos)
        BY <1>1, <2>4, <2>6 DEF Internal
  <2> HIDE DEF s, c
  <2>8. \A q \in s..pos : Eligible(q) \/ Internal(q)
        BY <1>2, <2>6, <2>7
  <2>9. s \in 0..pos /\ 2 * c >= pos + 1 - s + 0
        BY <1>2, <2>6
  <2>10. OpenAt(s, pos + 1, c)
        BY <1>1, <1>2, <2>4, <2>6, <2>8, <2>9 DEF OpenAt
  <2>11. Sound' /\ pos' \in 0..n
        BY <1>2, <2>1, <1>1, SoundStays DEF IInv
  <2> QED
        BY <1>1, <2>1, <2>10, <2>11, ScanOn DEF s, c
<1>4. CASE ~Joinable(pos)
  <2>1. pos' = Ahead(pos) /\ Flush(pos)
        BY <1>4 DEF ScanSpace
  <2>2. Sound'
        BY <1>1, <2>1, FlushSound
  <2>3. pos' \in (pos + 1)..n /\ \A q \in pos..(pos' - 1) : ~Eligible(q) /\ ~Internal(q)
        BY <1>1, <1>4, <2>1, SpaceCloses
  <2>4. pos' \in 0..n /\ ~Eligible(pos' - 1) /\ ~Internal(pos' - 1)
    <3>1. \A a \in (pos + 1)..n : a \in 0..n /\ a - 1 \in pos..(a - 1)
          BY <1>2
    <3> QED
          BY <2>3, <3>1
  <2>5. ClosedAt(regionStart', pos', eligibleCount')
        BY <2>1, <2>4 DEF ClosedAt, Flush
  <2> QED
        BY <1>1, <2>2, <2>4, <2>5, ScanOn
<1> QED
      BY <1>3, <1>4

LEMMA StepScanOther ==
    ASSUME IInv, ScanOther
    PROVE  IInv'
<1>1. /\ pc = "scan" /\ pc' = "scan" /\ SameCall /\ walkVars' = walkVars
      /\ pos < n /\ ~Eligible(pos) /\ ~Is(pos, "s") /\ Flush(pos) /\ pos' = pos + 1
      BY DEF ScanOther, SameCall
<1>2. n \in Nat /\ pos \in Nat /\ pos' \in 0..n /\ pos' - 1 = pos
      BY <1>1 DEF IInv, Types
<1>3. Sound'
      BY <1>1, FlushSound
<1>4. ClosedAt(regionStart', pos', eligibleCount')
      BY <1>1, <1>2 DEF ClosedAt, Flush, Internal
<1> QED
      BY <1>1, <1>2, <1>3, <1>4, ScanOn

LEMMA StepScanEnd ==
    ASSUME IInv, ScanEnd
    PROVE  IInv'
<1>1. /\ pc = "scan" /\ pc' = "walk" /\ SameCall /\ walkVars' = walkVars
      /\ pos = n /\ Flush(pos) /\ pos' = 0
      BY DEF ScanEnd, SameCall
<1>2. /\ n' = n /\ (Stitching' <=> Stitching)
      BY <1>1, CallFixed
<1>3. origIdx' = <<>> /\ from' = <<>> /\ changed' = FALSE /\ Stitching
      BY <1>1 DEF walkVars, IInv, Types
<1>4. Types'
  <2>1. n' \in Nat /\ kind' \in Kind /\ pos' \in 0..n'
        BY <1>1, <1>2 DEF IInv, Types, SameCall
  <2> QED
        BY <1>1, <1>2, <1>3, <2>1 DEF Types
<1>5. Walking'
  <2> DEFINE G == Gaps'
  <2> HIDE DEF G
  <2>1. Table(<<>>, <<>>, 0, 0, G)
    <3>1. 0 \in Nat /\ 0..(0 - 1) \subseteq G
          OBVIOUS
    <3> QED
          BY <3>1, EmptyTable
  <2> QED
        BY <1>1, <1>3, <2>1 DEF Walking, G
<1>6. Justified' /\ Scanning'
      BY <1>1, <1>3 DEF Justified, Scanning
<1>7. Sound'
      BY <1>1, FlushSound
<1> QED
      BY <1>4, <1>5, <1>6, <1>7 DEF IInv

-----------------------------------------------------------------------------
(***************************************************************************)
(* The invariant holds.                                                    *)
(***************************************************************************)
LEMMA InitEstablishes ==
    ASSUME Init
    PROVE  IInv
<1>1. /\ kind \in Kind /\ src \in Bodies(kind) /\ pos = 0 /\ regionStart = -1 /\ eligibleCount = 0
      /\ regions = {} /\ origIdx = <<>> /\ from = <<>> /\ changed = FALSE
      /\ pc = IF kind \in {"stitch", "digits"} THEN "scan" ELSE "walk"
      BY DEF Init
<1>2. n \in Nat
      BY <1>1, LimitsAssumption DEF n
<1>3. Types
  <2>1. pc \in {"scan", "walk"} /\ (pc = "scan" => Stitching)
        BY <1>1 DEF Stitching
  <2>2. pos \in 0..n
        BY <1>1, <1>2
  <2>3. changed = FALSE /\ changed \in BOOLEAN
        BY <1>1, Zenon
  <2> QED
        BY <1>1, <1>2, <2>1, <2>2, <2>3, Zenon DEF Types
<1>4. Walking
  <2>1. pc # "done"
        BY <1>1
  <2> DEFINE G == Gaps
  <2> HIDE DEF G
  <2>2. 0 \in Nat /\ 0..(0 - 1) \subseteq G
        OBVIOUS
  <2>3. Table(<<>>, <<>>, 0, 0, G)
        BY <2>2, EmptyTable
  <2> QED
        BY <1>1, <2>1, <2>3 DEF Walking, G
<1>5. Justified /\ Sound
      BY <1>1 DEF Justified, Sound
<1>6. Scanning
  <2>1. ~Eligible(-1) /\ ~Is(-1, "s")
        BY <1>2, EligibleIs, IsInside
  <2>2. 0 - 1 = -1
        OBVIOUS
  <2>3. ~Internal(-1)
        BY <2>1 DEF Internal
  <2> QED
        BY <1>1, <2>1, <2>2, <2>3 DEF Scanning, ClosedAt
<1> QED
      BY <1>3, <1>4, <1>5, <1>6 DEF IInv

LEMMA StutterPreserves ==
    ASSUME IInv, UNCHANGED vars
    PROVE  IInv'
<1>1. /\ pc' = pc /\ pos' = pos /\ regionStart' = regionStart /\ eligibleCount' = eligibleCount
      /\ regions' = regions /\ origIdx' = origIdx /\ from' = from /\ changed' = changed
      /\ kind' = kind /\ SameCall
      BY DEF vars, SameCall
<1>2. /\ n' = n /\ Gaps' = Gaps /\ (Precheck' <=> Precheck) /\ (Stitching' <=> Stitching)
      /\ \A p, c : Is(p, c)' <=> Is(p, c)
      /\ \A p : Eligible(p)' <=> Eligible(p)
      /\ \A p : Internal(p)' <=> Internal(p)
      BY <1>1, CallFixed
<1>3. Types'
      BY <1>1, <1>2 DEF IInv, Types
<1>4. Walking'
      BY <1>1, <1>2 DEF IInv, Walking
<1>5. Justified'
      BY <1>1, <1>2 DEF IInv, Justified
<1>6. Scanning'
      BY <1>1, <1>2 DEF IInv, Scanning, OpenAt, ClosedAt
<1>7. Sound'
      BY <1>1, SoundStays DEF IInv
<1> QED
      BY <1>3, <1>4, <1>5, <1>6, <1>7 DEF IInv

LEMMA StepPreserves ==
    ASSUME IInv, [Next]_vars
    PROVE  IInv'
<1>1. CASE URLUnit
      BY <1>1, StepURLUnit
<1>2. CASE RuneUnit
      BY <1>2, StepRuneUnit
<1>3. CASE ScanEligible
      BY <1>3, StepScanEligible
<1>4. CASE ScanSpace
      BY <1>4, StepScanSpace
<1>5. CASE ScanOther
      BY <1>5, StepScanOther
<1>6. CASE ScanEnd
      BY <1>6, StepScanEnd
<1>7. CASE Verbatim
      BY <1>7, StepVerbatim
<1>8. CASE Region
      BY <1>8, StepRegion
<1>9. CASE StitchByte
      BY <1>9, StepStitchByte
<1>10. CASE Sentinel
      BY <1>10, StepSentinel
<1>11. CASE Done
      BY <1>11, StutterPreserves DEF Done
<1>12. CASE UNCHANGED vars
      BY <1>12, StutterPreserves
<1> QED
      BY <1>1, <1>2, <1>3, <1>4, <1>5, <1>6, <1>7, <1>8, <1>9, <1>10, <1>11, <1>12 DEF Next

(* Every reachable state of every transform on every body has a table in   *)
(* step with its view, and regions that hold only joined spaces.           *)
THEOREM Invariance == Spec => []IInv
<1>1. Init => IInv
      BY InitEstablishes
<1>2. IInv /\ [Next]_vars => IInv'
      BY StepPreserves
<1> QED
      BY <1>1, <1>2, PTL DEF Spec

-----------------------------------------------------------------------------
(***************************************************************************)
(* What the finished table says.                                           *)
(***************************************************************************)
LEMMA DoneTable ==
    ASSUME IInv, pc = "done"
    PROVE  /\ n \in Nat /\ Len(from) \in Nat /\ Len(origIdx) = Len(from) + 1 /\ origIdx[Len(from) + 1] = n
           /\ \A j \in 1..(Len(from) + 1) : origIdx[j] \in 0..n
           /\ \A j \in 1..Len(from) : from[j] # {} /\ \A x \in from[j] : x \in 0..(n - 1) /\ origIdx[j] <= x
           /\ \A i \in 1..Len(from) : \A j \in 1..(Len(from) + 1) : i < j =>
                 /\ origIdx[i] <= origIdx[j]
                 /\ (j <= Len(from) /\ from[i] = from[j]) \/ \A x \in from[i] : x < origIdx[j]
           /\ \A p \in 0..(n - 1) : p \in Gaps \/ \E j \in 1..Len(from) : p \in from[j]
<1> DEFINE L == Len(from)
<1>1. n \in Nat
      BY DEF IInv, Types
<1>2. PICK t \in Seq(Nat) : origIdx = Append(t, n) /\ Table(t, from, 0, n, Gaps)
      BY DEF IInv, Walking
<1>3. from \in Seq(Source) /\ Len(t) = L
      BY <1>2 DEF Table
<1>4. /\ \A j \in 1..L : from[j] # {} /\ \A x \in from[j] : t[j] <= x /\ x < n
      /\ \A i, j \in 1..L : i < j => t[i] <= t[j] /\ (from[i] = from[j] \/ \A x \in from[i] : x < t[j])
      /\ \A p \in 0..(n - 1) : p \in Gaps \/ \E j \in 1..L : p \in from[j]
      BY <1>2, <1>3 DEF Table
<1>5. L \in Nat /\ \A j \in 1..L : t[j] \in Nat /\ from[j] \subseteq Nat
  <2>1. L \in Nat /\ \A j \in 1..L : t[j] \in Nat /\ from[j] \in Source
        BY <1>2, <1>3, ElementOfSeq
  <2> QED
        BY <2>1 DEF Source
<1> HIDE DEF L
<1>6. Len(origIdx) = L + 1 /\ origIdx[L + 1] = n /\ \A j \in 1..L : origIdx[j] = t[j]
      BY <1>1, <1>2, <1>3, <1>5
<1>7. ASSUME NEW j \in 1..L
      PROVE  from[j] # {} /\ t[j] \in 0..n /\ \A x \in from[j] : x \in 0..(n - 1) /\ t[j] <= x
  <2>1. PICK y \in from[j] : TRUE
        BY <1>4
  <2>2. y \in Nat /\ t[j] \in Nat /\ t[j] <= y /\ y < n
        BY <1>4, <1>5
  <2>3. ASSUME NEW x \in from[j] PROVE x \in 0..(n - 1) /\ t[j] <= x
        BY <1>1, <1>4, <1>5
  <2> QED
        BY <1>1, <2>2, <2>3
<1>8. \A j \in 1..(L + 1) : origIdx[j] \in 0..n
      BY <1>1, <1>5, <1>6, <1>7
<1>9. ASSUME NEW i \in 1..L, NEW j \in 1..(L + 1), i < j
      PROVE  /\ origIdx[i] <= origIdx[j]
             /\ (j <= L /\ from[i] = from[j]) \/ \A x \in from[i] : x < origIdx[j]
  <2>1. CASE j \in 1..L
        BY <1>4, <1>6, <1>9, <2>1
  <2>2. CASE j = L + 1
    <3>1. origIdx[j] = n /\ origIdx[i] = t[i]
          BY <1>6, <2>2
    <3>2. t[i] \in 0..n /\ \A x \in from[i] : x \in 0..(n - 1)
          BY <1>7
    <3> QED
          BY <1>1, <3>1, <3>2
  <2> QED
        BY <1>5, <2>1, <2>2
<1>10. \A j \in 1..L : from[j] # {} /\ \A x \in from[j] : x \in 0..(n - 1) /\ origIdx[j] <= x
      BY <1>6, <1>7
<1> QED
      BY <1>1, <1>4, <1>5, <1>6, <1>8, <1>9, <1>10 DEF L

LEMMA OrderHolds ==
    ASSUME IInv
    PROVE  TableOrdered
<1> SUFFICES ASSUME Finished
             PROVE  /\ Len(origIdx) = Len(from) + 1
                    /\ origIdx[Len(origIdx)] = n
                    /\ \A j \in 1..Len(from) : origIdx[j] <= origIdx[j + 1]
    BY DEF TableOrdered
<1>1. /\ Len(from) \in Nat /\ Len(origIdx) = Len(from) + 1 /\ origIdx[Len(from) + 1] = n
      /\ \A i \in 1..Len(from) : \A j \in 1..(Len(from) + 1) : i < j => origIdx[i] <= origIdx[j]
      BY DoneTable DEF Finished
<1>2. \A j \in 1..Len(from) : j + 1 \in 1..(Len(from) + 1) /\ j < j + 1
      BY <1>1
<1> QED
      BY <1>1, <1>2

LEMMA CoverHolds ==
    ASSUME IInv
    PROVE  CoversSource
<1> SUFFICES ASSUME Finished, NEW b \in 1..Len(from), NEW a \in 1..b, EndsUnit(b)
             PROVE  /\ MadeFrom(a, b) \subseteq MappedRange(a, b)
                    /\ MappedRange(a, b) \ MadeFrom(a, b) \subseteq Dropped
    BY DEF CoversSource
<1> DEFINE L == Len(from)
<1>1. /\ n \in Nat /\ L \in Nat
      /\ \A j \in 1..(L + 1) : origIdx[j] \in 0..n
      /\ \A j \in 1..L : from[j] # {} /\ \A x \in from[j] : x \in 0..(n - 1) /\ origIdx[j] <= x
      /\ \A i \in 1..L : \A j \in 1..(L + 1) : i < j =>
            /\ origIdx[i] <= origIdx[j]
            /\ (j <= L /\ from[i] = from[j]) \/ \A x \in from[i] : x < origIdx[j]
      BY DoneTable DEF Finished
<1>2. b = L \/ from[b] # from[b + 1]
      BY DEF EndsUnit
<1>3. b \in 1..L /\ a \in 1..b
      OBVIOUS
<1> HIDE DEF L
<1>4. a \in 1..L /\ b + 1 \in 1..(L + 1) /\ a \in 1..(L + 1)
      BY <1>1, <1>3
<1>5. origIdx[a] \in 0..n /\ origIdx[b + 1] \in 0..n
      BY <1>1, <1>4
<1>6. ASSUME NEW j \in a..b, NEW x \in from[j] PROVE x \in MappedRange(a, b)
  <2>1. j \in 1..L /\ j \in 1..(L + 1) /\ j < b + 1 /\ a <= j /\ j <= b
        BY <1>1, <1>3
  <2>2. x \in 0..(n - 1) /\ origIdx[j] <= x /\ origIdx[j] \in 0..n
        BY <1>1, <2>1
  <2>3. origIdx[a] <= x
    <3>1. origIdx[a] <= origIdx[j]
      <4>1. CASE a = j
            BY <1>5, <4>1
      <4>2. CASE a < j
            BY <1>1, <1>4, <2>1, <4>2
      <4> QED
            BY <1>3, <2>1, <4>1, <4>2
    <3> QED
          BY <1>5, <2>2, <3>1
  <2>4. x < origIdx[b + 1]
    <3> SUFFICES ASSUME b + 1 <= L, from[j] = from[b + 1] PROVE FALSE
        BY <1>1, <1>4, <2>1
    <3>1. from[b] # from[b + 1] /\ b < b + 1 /\ b + 1 \in 1..L /\ b \in 1..(L + 1)
          BY <1>1, <1>2, <1>3
    <3>2. j < b
          BY <2>1, <3>1
    <3>3. x < origIdx[b]
          BY <1>1, <1>3, <2>1, <3>1, <3>2
    <3>4. origIdx[b] <= origIdx[b + 1]
          BY <1>1, <1>3, <1>4, <3>1
    <3>5. origIdx[b + 1] <= x
          BY <1>1, <3>1
    <3>6. origIdx[b] \in 0..n
          BY <1>1, <3>1
    <3> QED
          BY <1>5, <2>2, <3>3, <3>4, <3>5, <3>6
  <2> QED
        BY <1>5, <2>2, <2>3, <2>4 DEF MappedRange
<1>7. ASSUME NEW p \in MappedRange(a, b), NEW j \in 1..L, p \in from[j] PROVE p \in MadeFrom(a, b)
  <2>1. p \in origIdx[a]..(origIdx[b + 1] - 1)
        BY DEF MappedRange
  <2>2. p \in Nat /\ origIdx[a] <= p /\ p < origIdx[b + 1]
        BY <1>5, <2>1
  <2>3. CASE j < a
    <3>1. from[j] = from[a] \/ \A x \in from[j] : x < origIdx[a]
          BY <1>1, <1>4, <2>3
    <3>2. from[j] = from[a]
          BY <1>5, <1>7, <2>2, <3>1
    <3>3. a \in a..b
          BY <1>1, <1>3
    <3> QED
          BY <1>7, <3>2, <3>3 DEF MadeFrom
  <2>4. CASE j \in a..b
        BY <1>7, <2>4 DEF MadeFrom
  <2>5. CASE j > b
    <3>1. origIdx[j] \in 0..n /\ origIdx[j] <= p
          BY <1>1, <1>7
    <3>2. origIdx[b + 1] <= origIdx[j]
      <4>1. CASE j = b + 1
            BY <1>5, <4>1
      <4>2. CASE j > b + 1
        <5>1. b + 1 \in 1..L /\ j \in 1..(L + 1) /\ b + 1 < j
              BY <1>1, <1>3, <4>2
        <5> QED
              BY <1>1, <5>1
      <4> QED
            BY <1>3, <2>5, <4>1, <4>2
    <3> QED
          BY <1>5, <2>2, <3>1, <3>2
  <2> QED
        BY <1>1, <1>3, <2>3, <2>4, <2>5
<1>8. MadeFrom(a, b) \subseteq MappedRange(a, b)
      BY <1>6 DEF MadeFrom
<1>9. ASSUME NEW p \in MappedRange(a, b), p \notin MadeFrom(a, b) PROVE p \in Dropped
  <2>1. p \in 0..(n - 1)
        BY <1>1, <1>5 DEF MappedRange
  <2>2. p \notin MadeFrom(1, Len(from))
        BY <1>7, <1>9 DEF MadeFrom, L
  <2> QED
        BY <2>1, <2>2 DEF Dropped
<1> QED
      BY <1>8, <1>9

LEMMA VanishHolds ==
    ASSUME IInv
    PROVE  NothingVanishes
<1> SUFFICES ASSUME Finished, NEW p \in Dropped PROVE p \in Gaps
    BY DEF NothingVanishes, Gaps, Stitching
<1>1. \A q \in 0..(n - 1) : q \in Gaps \/ \E j \in 1..Len(from) : q \in from[j]
      BY DoneTable DEF Finished
<1> QED
      BY <1>1 DEF Dropped, MadeFrom

(* The table of a changed view is ordered and complete, whatever transform *)
(* made it (decode.go, normalize.go, base64.go, comment_strip.go,          *)
(* stitch.go).                                                             *)
THEOREM TablesOrdered == Spec => []TableOrdered
<1>1. IInv => TableOrdered
      BY OrderHolds
<1> QED
      BY <1>1, Invariance, PTL

(* A finding that ends with a unit is taken back to the bytes it was made  *)
(* from and to no other byte of the view (transformedPass).                *)
THEOREM SourceCovered == Spec => []CoversSource
<1>1. IInv => CoversSource
      BY CoverHolds
<1> QED
      BY <1>1, Invariance, PTL

(* No transform leaves out a byte but a comment's or a joined space.       *)
THEOREM OnlyGapsVanish == Spec => []NothingVanishes
<1>1. IInv => NothingVanishes
      BY VanishHolds
<1> QED
      BY <1>1, Invariance, PTL

(* A body that the pre-check of Scan skips is one its transform keeps.     *)
THEOREM SkippedUnchanged == Spec => []PrecheckSound
<1>1. IInv => PrecheckSound
      BY DEF IInv, Justified, PrecheckSound, Finished
<1> QED
      BY <1>1, Invariance, PTL

-----------------------------------------------------------------------------
(***************************************************************************)
(* The regions found are the maximal stretches, unless the ratio gate asks *)
(* for more than half: a stretch has no two spaces in a row.               *)
(***************************************************************************)
\* The maximal stretches that end at e or before.
Stretches(e) == {r \in (0..n) \X (0..n) : Maximal(r[1], r[2]) /\ r[2] <= e}

\* What ends before the edge has been decided.
Edge == IF pc = "scan" THEN IF regionStart < 0 THEN pos ELSE regionStart ELSE n

Found == Stitching => regions = Stretches(Edge)

LEMMA StretchesFixed ==
    ASSUME SameCall
    PROVE  \A e : Stretches(e)' = Stretches(e)
<1>1. n' = n /\ \A s, e : Maximal(s, e)' <=> Maximal(s, e)
      BY CallFixed
<1> QED
      BY <1>1 DEF Stretches

LEMMA FoundStays ==
    ASSUME Found, SameCall, regions' = regions, Edge' = Edge
    PROVE  Found'
<1>1. (Stitching' <=> Stitching) /\ \A e : Stretches(e)' = Stretches(e)
      BY CallFixed, StretchesFixed
<1> QED
      BY <1>1 DEF Found

(* No stretch ends behind e while no byte from e on is eligible.           *)
LEMMA NoneBeyond ==
    ASSUME n \in Nat, NEW e \in 0..n, NEW f \in e..n, \A q \in e..(f - 1) : ~Eligible(q)
    PROVE  Stretches(f) = Stretches(e)
<1>1. ASSUME NEW r \in (0..n) \X (0..n), Maximal(r[1], r[2]), r[2] <= f
      PROVE  r[2] <= e
  <2>1. r[2] \in 0..n
        OBVIOUS
  <2>2. Eligible(r[2] - 1)
        BY <1>1 DEF Maximal
  <2> QED
        BY <1>1, <2>1, <2>2
<1>2. ASSUME NEW r \in (0..n) \X (0..n), r[2] <= e
      PROVE  r[2] <= f
  <2>1. r[2] \in 0..n
        OBVIOUS
  <2> QED
        BY <1>2, <2>1
<1> QED
      BY <1>1, <1>2 DEF Stretches

(* Between the start of an open stretch and its end only that stretch.     *)
LEMMA OneStretch ==
    ASSUME n \in Nat, NEW s \in 0..n, NEW e \in 0..n, NEW c, OpenAt(s, e, c),
           ~Eligible(e), ~Internal(e)
    PROVE  Stretches(e) = IF e - s >= MinStitchLength THEN Stretches(s) \cup {<<s, e>>} ELSE Stretches(s)
<1>1. /\ s \in 0..(e - 1) /\ Eligible(s) /\ ~Eligible(s - 1) /\ ~Internal(s - 1)
      /\ \A q \in s..(e - 1) : Eligible(q) \/ Internal(q)
      /\ Eligible(e - 1)
      BY DEF OpenAt
<1>2. ASSUME NEW a \in 0..n, NEW b \in 0..n, Maximal(a, b), b <= e, ~(b <= s)
      PROVE  a = s /\ b = e
  <2>1. /\ b - a >= MinStitchLength /\ Eligible(a)
        /\ \A q \in a..(b - 1) : Eligible(q) \/ Internal(q)
        /\ ~Eligible(a - 1) /\ ~Internal(a - 1) /\ ~Eligible(b) /\ ~Internal(b)
        BY <1>2 DEF Maximal
  <2>2. b = e
    <3>1. b \notin s..(e - 1)
          BY <1>1, <2>1
    <3> QED
          BY <1>2, <3>1
  <2>3. a < b
        BY <2>1, LimitsAssumption
  <2>4. ~(a < s)
    <3>1. a < s => s - 1 \in a..(b - 1)
          BY <1>1, <2>2
    <3> QED
          BY <1>1, <2>1, <3>1
  <2>5. ~(s < a)
    <3>1. s < a => a - 1 \in s..(e - 1)
          BY <1>1, <2>2, <2>3
    <3> QED
          BY <1>1, <2>1, <3>1
  <2> QED
        BY <2>2, <2>4, <2>5
<1>3. Maximal(s, e) <=> e - s >= MinStitchLength
      BY <1>1 DEF Maximal
<1>4. ASSUME NEW r \in (0..n) \X (0..n)
      PROVE  r[1] \in 0..n /\ r[2] \in 0..n /\ r = <<r[1], r[2]>>
      OBVIOUS
<1>5. ASSUME NEW r \in (0..n) \X (0..n)
      PROVE  /\ Maximal(r[1], r[2]) /\ r[2] <= e /\ ~(r[2] <= s) => r = <<s, e>>
             /\ r[2] <= s => r[2] <= e
  <2>1. Maximal(r[1], r[2]) /\ r[2] <= e /\ ~(r[2] <= s) => r[1] = s /\ r[2] = e
        BY <1>2, <1>4
  <2>2. r[2] <= s => r[2] <= e
        BY <1>1, <1>4
  <2> QED
        BY <1>4, <2>1, <2>2
<1>6. <<s, e>> \in (0..n) \X (0..n) /\ <<s, e>>[1] = s /\ <<s, e>>[2] = e /\ e <= e /\ ~(e <= s)
      BY <1>1
<1>7. \A r : r \in Stretches(e) <=> r \in Stretches(s) \/ (e - s >= MinStitchLength /\ r = <<s, e>>)
      BY <1>3, <1>5, <1>6 DEF Stretches
<1> QED
      BY <1>7

(* The gate in Flush lets every stretch of the least length through.       *)
LEMMA GateOpen ==
    ASSUME MinStitchRatioPct <= 50, pos \in Nat, OpenAt(regionStart, pos, eligibleCount)
    PROVE  Qualifies(regionStart, pos) <=> pos - regionStart >= MinStitchLength
<1> DEFINE k == pos - regionStart
           c == eligibleCount
           m == MinStitchRatioPct
<1>1. regionStart >= 0 /\ k \in Nat /\ c \in Nat /\ 2 * c >= k
      BY DEF OpenAt
<1>2. m \in Nat /\ m <= 50
      BY LimitsAssumption
<1> HIDE DEF k, c, m
<1>3. k * m <= k * 50
      BY <1>1, <1>2
<1>4. k * m \in Nat
      BY <1>1, <1>2
<1>5. c * 100 >= k * m
      BY <1>1, <1>3, <1>4
<1> QED
      BY <1>1, <1>5 DEF Qualifies, k, c, m

LEMMA FlushFound ==
    ASSUME MinStitchRatioPct <= 50, IInv, Found, pc = "scan", Flush(pos),
           ~Eligible(pos), ~Internal(pos),
           NEW f \in pos..n, \A q \in pos..(f - 1) : ~Eligible(q)
    PROVE  regions' = Stretches(f)
<1>1. n \in Nat /\ pos \in 0..n /\ Stitching
      BY DEF IInv, Types
<1>2. Stretches(f) = Stretches(pos)
      BY <1>1, NoneBeyond
<1>3. CASE OpenAt(regionStart, pos, eligibleCount)
  <2>1. regionStart \in 0..n /\ regionStart >= 0 /\ ~(regionStart < 0)
        BY <1>1, <1>3 DEF OpenAt
  <2>2. regions = Stretches(regionStart)
        BY <1>1, <2>1 DEF Found, Edge
  <2>3. Qualifies(regionStart, pos) <=> pos - regionStart >= MinStitchLength
        BY <1>1, <1>3, GateOpen
  <2>4. Stretches(pos) = IF pos - regionStart >= MinStitchLength
                         THEN Stretches(regionStart) \cup {<<regionStart, pos>>} ELSE Stretches(regionStart)
        BY <1>1, <1>3, <2>1, OneStretch
  <2> QED
        BY <1>2, <2>2, <2>3, <2>4 DEF Flush
<1>4. CASE ClosedAt(regionStart, pos, eligibleCount)
  <2>1. regionStart = -1
        BY <1>4 DEF ClosedAt
  <2>2. regions = Stretches(pos)
        BY <1>1, <2>1 DEF Found, Edge
  <2>3. ~Qualifies(regionStart, pos)
        BY <2>1 DEF Qualifies
  <2> QED
        BY <1>2, <2>2, <2>3 DEF Flush
<1> QED
      BY <1>3, <1>4 DEF IInv, Scanning

LEMMA FlushStep ==
    ASSUME MinStitchRatioPct <= 50, IInv, Found, pc = "scan", SameCall, Flush(pos),
           ~Eligible(pos), ~Internal(pos), Edge' \in pos..n,
           \A q \in pos..(Edge' - 1) : ~Eligible(q)
    PROVE  Found'
<1>1. regions' = Stretches(Edge')
      BY FlushFound
<1>2. \A e : Stretches(e)' = Stretches(e)
      BY StretchesFixed
<1> QED
      BY <1>1, <1>2 DEF Found

LEMMA FoundPreserved ==
    ASSUME MinStitchRatioPct <= 50, IInv, Found, [Next]_vars
    PROVE  Found'
<1>1. n \in Nat /\ pos \in 0..n
      BY DEF IInv, Types
<1>2. CASE URLUnit \/ RuneUnit \/ Verbatim \/ Region \/ StitchByte \/ Sentinel \/ Done \/ UNCHANGED vars
  <2>1. SameCall /\ regions' = regions
        BY <1>2 DEF SameCall, URLUnit, RuneUnit, Verbatim, Region, StitchByte, Sentinel, Done, vars, scanVars
  <2>2. (pc # "scan" /\ pc' # "scan") \/ (pc' = pc /\ pos' = pos /\ regionStart' = regionStart)
        BY <1>2 DEF URLUnit, RuneUnit, Verbatim, Region, StitchByte, Sentinel, Done, vars
  <2>3. n' = n
        BY <2>1, CallFixed
  <2>4. Edge' = Edge
        BY <2>2, <2>3 DEF Edge
  <2> QED
        BY <2>1, <2>4, FoundStays
<1>3. CASE ScanEligible
  <2>1. /\ pc = "scan" /\ pc' = "scan" /\ SameCall /\ regions' = regions
        /\ regionStart' = IF regionStart < 0 THEN pos ELSE regionStart
        BY <1>3 DEF ScanEligible, SameCall
  <2>2. Edge' = Edge
        BY <1>1, <2>1 DEF Edge
  <2> QED
        BY <2>1, <2>2, FoundStays
<1>4. CASE ScanSpace
  <2>1. pc = "scan" /\ pc' = "scan" /\ SameCall /\ Is(pos, "s")
        BY <1>4 DEF ScanSpace, SameCall
  <2>2. CASE Joinable(pos)
    <3>1. regions' = regions /\ regionStart' = regionStart /\ regionStart >= 0
          BY <1>4, <2>2 DEF ScanSpace, scanVars, Joinable
    <3>2. ~(regionStart < 0)
          BY <2>1, <3>1 DEF IInv, Scanning, OpenAt, ClosedAt
    <3>3. Edge' = Edge
          BY <2>1, <3>1, <3>2 DEF Edge
    <3> QED
          BY <2>1, <3>1, <3>3, FoundStays
  <2>3. CASE ~Joinable(pos)
    <3>1. pos' = Ahead(pos) /\ Flush(pos)
          BY <1>4, <2>3 DEF ScanSpace
    <3>2. Edge' = pos'
          BY <2>1, <3>1 DEF Edge, Flush
    <3>3. pos' \in (pos + 1)..n /\ \A q \in pos..(pos' - 1) : ~Eligible(q) /\ ~Internal(q)
          BY <2>1, <2>3, <3>1, SpaceCloses
    <3>4. \A a \in (pos + 1)..n : a \in pos..n /\ pos \in pos..(a - 1)
          BY <1>1
    <3>5. Edge' \in pos..n /\ ~Eligible(pos) /\ ~Internal(pos) /\ \A q \in pos..(Edge' - 1) : ~Eligible(q)
          BY <3>2, <3>3, <3>4, Zenon
    <3> QED
          BY <2>1, <3>1, <3>5, FlushStep
  <2> QED
        BY <2>2, <2>3
<1>5. CASE ScanOther
  <2>1. /\ pc = "scan" /\ pc' = "scan" /\ SameCall /\ Flush(pos) /\ pos' = pos + 1
        /\ pos < n /\ ~Eligible(pos) /\ ~Is(pos, "s")
        BY <1>5 DEF ScanOther, SameCall
  <2>2. Edge' = pos + 1
        BY <2>1 DEF Edge, Flush
  <2>3. pos + 1 \in pos..n /\ \A q \in pos..((pos + 1) - 1) : q = pos
        BY <1>1, <2>1
  <2>4. Edge' \in pos..n /\ \A q \in pos..(Edge' - 1) : ~Eligible(q)
        BY <2>1, <2>2, <2>3, Zenon
  <2>5. ~Internal(pos)
        BY <2>1 DEF Internal
  <2> QED
        BY <2>1, <2>4, <2>5, FlushStep
<1>6. CASE ScanEnd
  <2>1. pc = "scan" /\ pc' = "walk" /\ SameCall /\ Flush(pos) /\ pos = n
        BY <1>6 DEF ScanEnd, SameCall
  <2>2. Edge' = n
        BY <2>1, CallFixed DEF Edge
  <2>3. ~Eligible(pos) /\ ~Internal(pos)
        BY <1>1, <2>1, EligibleIs, IsInside DEF Internal
  <2>4. n \in pos..n /\ \A q \in pos..(n - 1) : ~Eligible(q)
        BY <1>1, <2>1
  <2>5. Edge' \in pos..n /\ \A q \in pos..(Edge' - 1) : ~Eligible(q)
        BY <2>2, <2>4, Zenon
  <2> QED
        BY <2>1, <2>3, <2>5, FlushStep
<1> QED
      BY <1>2, <1>3, <1>4, <1>5, <1>6 DEF Next

(* With a ratio of at most 50, as in the code, the one-pass scan finds     *)
(* every maximal stretch of the least length and nothing else              *)
(* (findStitchableRegions).                                                *)
THEOREM ScanExact ==
    ASSUME MinStitchRatioPct <= 50
    PROVE  Spec => []RegionsMaximal
<1>1. Init => Found
  <2> SUFFICES ASSUME Init, Stitching PROVE regions = Stretches(Edge)
      BY DEF Found
  <2>1. regions = {} /\ pc = "scan" /\ pos = 0 /\ regionStart = -1 /\ n \in Nat
        BY InitEstablishes DEF Init, Stitching, IInv, Types
  <2>2. Edge = 0
        BY <2>1 DEF Edge
  <2>3. ASSUME NEW r \in Stretches(0) PROVE FALSE
    <3>1. r[2] \in 0..n /\ r[2] <= 0 /\ Eligible(r[2] - 1)
          BY DEF Stretches, Maximal
    <3>2. r[2] - 1 \in Nat
          BY <2>1, <3>1, EligibleIs
    <3> QED
          BY <3>1, <3>2
  <2> QED
        BY <2>1, <2>2, <2>3
<1>2. IInv /\ Found /\ [Next]_vars => Found'
      BY FoundPreserved
<1>3. IInv /\ Found => RegionsMaximal
  <2> SUFFICES ASSUME IInv, Found, pc # "scan", kind \in {"stitch", "digits"}
               PROVE  regions = {r \in (0..n) \X (0..n) : Maximal(r[1], r[2])}
      BY DEF RegionsMaximal
  <2>1. regions = Stretches(n)
        BY DEF Found, Edge, Stitching
  <2>2. n \in Nat
        BY DEF IInv, Types
  <2>3. \A r \in (0..n) \X (0..n) : r[2] <= n
        BY <2>2
  <2> QED
        BY <2>1, <2>3 DEF Stretches
<1> QED
      BY <1>1, <1>2, <1>3, Invariance, PTL DEF Spec
=============================================================================
