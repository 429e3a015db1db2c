----------------------------- MODULE Transforms -----------------------------
(***************************************************************************)
(* The transforms of internal/pipeline: urlDecode (decode.go),             *)
(* nfkcNormalize (normalize.go), base64Decode (base64.go),                 *)
(* sqliCommentStrip (comment_strip.go), whitespaceStitch and digitStitch   *)
(* (stitch.go).  Each walks the body once and builds a view of it together *)
(* with origIdx, the table by which transformedPass takes a finding on the *)
(* view back to the body.                                                  *)
(*                                                                         *)
(* A body is a sequence of byte classes, one alphabet per transform:       *)
(*   url      "%", "h" a hexadecimal digit, "x" any other byte             *)
(*   nfkc     "a" ASCII, "c" a continuation byte, and the lead bytes "n"   *)
(*            (2 bytes, already normal), "w" (3 bytes, becomes 1), "l"     *)
(*            (3 bytes, becomes 2)                                         *)
(*   base64   "b" of the alphabet, "=", "x"                                *)
(*   comment  "/", "*", "x"                                                *)
(*   stitch, digits   "l" a letter, "d" a digit or . _ - + @, "s" a space  *)
(*            or tab, "x"                                                  *)
(* The view is, per byte, the body offsets it was made from.               *)
(***************************************************************************)
EXTENDS Integers, Sequences, FiniteSetsExt

CONSTANTS
    Bodies(_),          \* the bodies considered for a transform
    MinBase64Run,       \* minBase64Run, 16 in the code
    MinStitchLength,    \* minStitchLength, 12 in the code
    MinStitchRatioPct   \* minStitchRatioPct, 50 in the code

Kind == {"url", "nfkc", "base64", "comment", "stitch", "digits"}

ASSUME LimitsAssumption ==
    /\ MinBase64Run \in Nat \ {0}
    /\ MinStitchLength \in Nat \ {0}
    /\ MinStitchRatioPct \in 0..100
    /\ \A k \in Kind : \A b \in Bodies(k) : Len(b) \in Nat

VARIABLES
    pc,             \* "scan" (findStitchableRegions), "walk" or "done"
    kind, src,      \* the transform and its argument
    pos,            \* index of the walk, 0-based as in the code
    regionStart, eligibleCount,     \* locals of findStitchableRegions
    regions,        \* its result: <<start, end>> pairs
    origIdx,        \* the table
    from,           \* per view byte, the body offsets it was made from
    changed         \* the view differs from the body

vars == <<pc, kind, src, pos, regionStart, eligibleCount, regions, origIdx, from, changed>>

scanVars == <<regionStart, eligibleCount, regions>>

Init ==
    /\ kind \in Kind
    /\ src \in Bodies(kind)
    /\ pc = IF kind \in {"stitch", "digits"} THEN "scan" ELSE "walk"
    /\ pos = 0
    /\ regionStart = -1
    /\ eligibleCount = 0
    /\ regions = {}
    /\ origIdx = <<>>
    /\ from = <<>>
    /\ changed = FALSE

n == Len(src)
At(p) == src[p + 1]
Is(p, class) == p \in 0..(n - 1) /\ At(p) = class

Copies(k, x) == [j \in 1..k |-> x]

\* The body bytes s..e-1 become k view bytes, each mapped to s.
Emit(s, e, k) ==
    /\ origIdx' = origIdx \o Copies(k, s)
    /\ from' = from \o Copies(k, s..(e - 1))
    /\ pos' = e

-----------------------------------------------------------------------------
\* The pre-checks of Pipeline.Scan.
MutPrecheck ==
    CASE kind = "url"     -> \E p \in 0..(n - 1) : Is(p, "%")
      [] kind = "nfkc"    -> \E p \in 0..(n - 1) : ~Is(p, "a")
      [] kind = "base64"  -> \E p \in 0..(n - MinBase64Run - 1) :
                                \A q \in p..(p + MinBase64Run) : Is(q, "b")
      [] kind = "comment" -> \E p \in 0..(n - 2) : Is(p, "/") /\ Is(p + 1, "*")
      [] OTHER            -> \E p \in 0..(n - 1) : Is(p, "s")

Precheck ==
    CASE kind = "url"     -> \E p \in 0..(n - 1) : Is(p, "%")
      [] kind = "nfkc"    -> \E p \in 0..(n - 1) : ~Is(p, "a")
      [] kind = "base64"  -> \E p \in 0..(n - MinBase64Run) :
                                \A q \in p..(p + MinBase64Run - 1) : Is(q, "b")
      [] kind = "comment" -> \E p \in 0..(n - 2) : Is(p, "/") /\ Is(p + 1, "*")
      [] OTHER            -> \E p \in 0..(n - 1) : Is(p, "s")

-----------------------------------------------------------------------------
(***************************************************************************)
(* urlDecode and nfkcNormalize: unit by unit.                              *)
(***************************************************************************)
Escape(p) == Is(p, "%") /\ Is(p + 1, "h") /\ Is(p + 2, "h")

URLUnit ==
    /\ pc = "walk" /\ kind = "url" /\ pos < n
    /\ IF Escape(pos)
       THEN Emit(pos, pos + 3, 1) /\ changed' = TRUE
       ELSE Emit(pos, pos + 1, 1) /\ UNCHANGED changed
    /\ UNCHANGED <<pc, kind, src, scanVars>>

\* utf8.DecodeRune: the size of the rune at p; 1 for an invalid byte.
RuneSize(p) ==
    CASE Is(p, "n") /\ Is(p + 1, "c") -> 2
      [] (Is(p, "w") \/ Is(p, "l")) /\ Is(p + 1, "c") /\ Is(p + 2, "c") -> 3
      [] OTHER -> 1

\* norm.NFKC.String: how many bytes a rune becomes.
NormalizedLen(p) ==
    CASE RuneSize(p) = 3 /\ Is(p, "w") -> 1
      [] RuneSize(p) = 3 /\ Is(p, "l") -> 2
      [] OTHER -> RuneSize(p)

RuneUnit ==
    /\ pc = "walk" /\ kind = "nfkc" /\ pos < n
    /\ Emit(pos, pos + RuneSize(pos), NormalizedLen(pos))
    /\ changed' = (changed \/ RuneSize(pos) = 3)
    /\ UNCHANGED <<pc, kind, src, scanVars>>

-----------------------------------------------------------------------------
(***************************************************************************)
(* findStitchableRegions                                                   *)
(***************************************************************************)
Eligible(p) == Is(p, "d") \/ (kind = "stitch" /\ Is(p, "l"))

MutQualifies(s, e) ==
    /\ s >= 0
    /\ e - s > MinStitchLength
    /\ eligibleCount * 100 >= (e - s) * MinStitchRatioPct

Qualifies(s, e) ==
    /\ s >= 0
    /\ e - s >= MinStitchLength
    /\ eligibleCount * 100 >= (e - s) * MinStitchRatioPct

Flush(end) ==
    /\ regions' = IF Qualifies(regionStart, end)
                  THEN regions \cup {<<regionStart, end>>} ELSE regions
    /\ regionStart' = -1
    /\ eligibleCount' = 0

walkVars == <<origIdx, from, changed>>

ScanEligible ==
    /\ pc = "scan" /\ Eligible(pos)
    /\ regionStart' = IF regionStart < 0 THEN pos ELSE regionStart
    /\ eligibleCount' = eligibleCount + 1
    /\ pos' = pos + 1
    /\ UNCHANGED <<pc, kind, src, regions, walkVars>>

\* The first offset after p that is not a space.
Ahead(p) == Min({q \in (p + 1)..n : ~Is(q, "s")})

MutJoinable(p) == Eligible(Ahead(p)) /\ regionStart >= 0
Joinable(p) == Ahead(p) - p = 1 /\ Eligible(Ahead(p)) /\ regionStart >= 0

ScanSpace ==
    /\ pc = "scan" /\ Is(pos, "s")
    /\ IF Joinable(pos)
       THEN pos' = pos + 1 /\ UNCHANGED scanVars
       ELSE pos' = Ahead(pos) /\ Flush(pos)
    /\ UNCHANGED <<pc, kind, src, walkVars>>

ScanOther ==
    /\ pc = "scan" /\ pos < n /\ ~Eligible(pos) /\ ~Is(pos, "s")
    /\ Flush(pos)
    /\ pos' = pos + 1
    /\ UNCHANGED <<pc, kind, src, walkVars>>

ScanEnd ==
    /\ pc = "scan" /\ pos = n
    /\ Flush(pos)
    /\ pos' = 0
    /\ pc' = "walk"
    /\ UNCHANGED <<kind, src, walkVars>>

-----------------------------------------------------------------------------
(***************************************************************************)
(* The matches of the regular expressions, leftmost first from pos.        *)
(***************************************************************************)
\* Up to two padding characters after a run that ends at e.
Padding(e) == Max({k \in 0..2 : \A q \in e..(e + k - 1) : Is(q, "=")})

Base64Run(s, e) ==
    /\ e - s >= MinBase64Run
    /\ \A q \in s..(e - 1) : Is(q, "b")
    /\ ~Is(s - 1, "b") /\ ~Is(e, "b")

Base64Candidates ==
    {<<r[1], r[2] + Padding(r[2])>> : r \in {q \in (0..n) \X (0..n) : Base64Run(q[1], q[2])}}

Closes(p) == Is(p, "*") /\ Is(p + 1, "/")

Comment(s, e) ==
    /\ Is(s, "/") /\ Is(s + 1, "*")
    /\ e - 2 >= s + 2 /\ Closes(e - 2)
    /\ ~\E q \in (s + 2)..(e - 3) : Closes(q)

Comments == {r \in (0..n) \X (0..n) : Comment(r[1], r[2])}

Matches ==
    CASE kind = "base64"  -> Base64Candidates
      [] kind = "comment" -> Comments
      [] OTHER            -> {}

Regions == {r \in Matches : r[1] >= pos}

NextStart == IF Regions = {} THEN n ELSE Min({r[1] : r \in Regions})

regional == kind \in {"base64", "comment", "stitch", "digits"}

\* The walk is in a region to stitch.
Inside == \E r \in regions : r[1] <= pos /\ pos < r[2]

Verbatim ==
    /\ pc = "walk" /\ regional
    /\ pos < NextStart /\ ~Inside
    /\ Emit(pos, pos + 1, 1)
    /\ UNCHANGED <<pc, kind, src, scanVars, changed>>

\* A candidate whose length is no multiple of 4, that does not decode, or
\* whose decoded bytes are not mostly printable, stays as it is.
KeepCandidate(s, e) ==
    /\ origIdx' = origIdx \o [j \in 1..(e - s) |-> s + j - 1]
    /\ from' = from \o [j \in 1..(e - s) |-> {s + j - 1}]
    /\ UNCHANGED changed

DecodedLen(s, e) ==
    ((e - s) \div 4) * 3 - Cardinality({q \in s..(e - 1) : Is(q, "=")})

MutGroup(s, j) == s + ((j - 1) % 3) * 4
Group(s, j) == s + ((j - 1) \div 3) * 4

MutDecodeCandidate(s, e) ==
    /\ (e - s) % 4 = 0
    /\ origIdx' = origIdx \o [j \in 1..DecodedLen(s, e) |-> s + j - 1]
    /\ from' = from \o [j \in 1..DecodedLen(s, e) |-> Group(s, j)..(Group(s, j) + 3)]
    /\ changed' = TRUE

DecodeCandidate(s, e) ==
    /\ (e - s) % 4 = 0
    /\ origIdx' = origIdx \o [j \in 1..DecodedLen(s, e) |-> Group(s, j)]
    /\ from' = from \o [j \in 1..DecodedLen(s, e) |-> Group(s, j)..(Group(s, j) + 3)]
    /\ changed' = TRUE

Region ==
    /\ pc = "walk" /\ kind \in {"base64", "comment"}
    /\ \E r \in Regions :
          /\ r[1] = pos
          /\ pos' = r[2]
          /\ IF kind = "base64" THEN KeepCandidate(pos, r[2]) \/ DecodeCandidate(pos, r[2])
             ELSE changed' = TRUE /\ UNCHANGED <<origIdx, from>>
    /\ UNCHANGED <<pc, kind, src, scanVars>>

\* A region loses its spaces.
StitchByte ==
    /\ pc = "walk" /\ Inside
    /\ IF Is(pos, "s")
       THEN pos' = pos + 1 /\ changed' = TRUE /\ UNCHANGED <<origIdx, from>>
       ELSE Emit(pos, pos + 1, 1) /\ UNCHANGED changed
    /\ UNCHANGED <<pc, kind, src, scanVars>>

\* The entry after the last byte; an unchanged view is dropped by the caller.
Sentinel ==
    /\ pc = "walk" /\ pos = n
    /\ origIdx' = Append(origIdx, pos)
    /\ pc' = "done"
    /\ UNCHANGED <<kind, src, pos, scanVars, from, changed>>

Done == pc = "done" /\ UNCHANGED vars

Next ==
    \/ URLUnit \/ RuneUnit
    \/ ScanEligible \/ ScanSpace \/ ScanOther \/ ScanEnd
    \/ Verbatim \/ Region \/ StitchByte \/ Sentinel \/ Done

Spec == Init /\ [][Next]_vars

-----------------------------------------------------------------------------
Finished == pc = "done" /\ changed

MadeFrom(a, b) == UNION {from[j] : j \in a..b}

\* The body range of the finding on view bytes a..b, as transformedPass maps it.
MappedRange(a, b) == origIdx[a]..(origIdx[b + 1] - 1)

\* View byte b is the last one made from its unit.
EndsUnit(b) == b = Len(from) \/ from[b] # from[b + 1]

Dropped == 0..(n - 1) \ MadeFrom(1, Len(from))

(* A finding that ends with a unit maps to a range that holds every byte   *)
(* it was made from, and beyond those only bytes the view left out.        *)
CoversSource ==
    Finished => \A b \in 1..Len(from) : \A a \in 1..b : EndsUnit(b) =>
        /\ MadeFrom(a, b) \subseteq MappedRange(a, b)
        /\ MappedRange(a, b) \ MadeFrom(a, b) \subseteq Dropped

(* The table has one entry per view byte and one more, never decreases and *)
(* ends with the length of the body, so no mapped range is reversed.       *)
TableOrdered ==
    Finished =>
        /\ Len(origIdx) = Len(from) + 1
        /\ origIdx[Len(origIdx)] = n
        /\ \A j \in 1..Len(from) : origIdx[j] <= origIdx[j + 1]

\* A space between two eligible bytes.
Internal(p) == Is(p, "s") /\ Eligible(p - 1) /\ Eligible(p + 1)

(* The view leaves out comments, or the single spaces inside regions, and  *)
(* nothing else of the body.                                               *)
NothingVanishes ==
    Finished => \A p \in Dropped :
        \/ kind = "comment" /\ \E c \in Comments : c[1] <= p /\ p < c[2]
        \/ kind \in {"stitch", "digits"} /\ Internal(p)

(* The pre-check of Scan skips no body that its transform would change.    *)
PrecheckSound == Finished => Precheck

Maximal(s, e) ==
    /\ e - s >= MinStitchLength
    /\ Eligible(s) /\ Eligible(e - 1)
    /\ \A p \in s..(e - 1) : Eligible(p) \/ Internal(p)
    /\ ~Eligible(s - 1) /\ ~Internal(s - 1)
    /\ ~Eligible(e) /\ ~Internal(e)

(* The one-pass scan finds exactly the maximal stretches of eligible bytes *)
(* and single spaces between them that are long enough; the ratio gate     *)
(* rejects none of those.                                                  *)
RegionsMaximal ==
    pc # "scan" /\ kind \in {"stitch", "digits"} =>
        regions = {r \in (0..n) \X (0..n) : Maximal(r[1], r[2])}

(* base64.go:69-70: "a finding's mapped range always straddles full base64 *)
(* groups in the original buffer".                                         *)
FullGroups ==
    Finished /\ kind = "base64" => \A b \in 1..Len(from) : \A a \in 1..b :
        MadeFrom(a, b) \subseteq MappedRange(a, b)
=============================================================================
