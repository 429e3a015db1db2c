------------------------------ MODULE Scanners ------------------------------
(***************************************************************************)
(* The built-in scanners (internal/scanner/pii, secrets, sqli and code).   *)
(* Each is a table of detectors and a Scan that runs every detector over   *)
(* the data and drops candidates that fail its checks.                     *)
(*                                                                         *)
(* The body is a sequence of symbols, one per byte, except that "K" stands *)
(* for a whole key label with its assignment sign (keyKeywordRE).  The     *)
(* others are the letters a, b and f, the digits 1 and 8, the token prefix *)
(* "p", "-", "@", a space "_" and a line end "n".  Lengths are scaled down *)
(* with the body; a table has one detector for each shape of pattern,      *)
(* anchor and check that the code's table has, named for an entry that has *)
(* it.  Offsets are those of the code: data is Body[lo..hi-1], counted     *)
(* from 0, and what lies outside the data does not exist for a scanner.    *)
(***************************************************************************)
EXTENDS Integers, Sequences, Functions, SequencesExt

CONSTANTS
    Body,           \* the bytes of the stream
    ContextWindow,  \* how far back a key label is looked for (64 in the code)
    MinDigits,      \* length of a card number (13 and 19 in the code)
    MaxDigits

ASSUME ScannersAssumption ==
    /\ ContextWindow \in Nat \ {0}
    /\ MinDigits \in Nat \ {0}
    /\ MaxDigits \in Nat

\* The byte at offset x of the stream.
At(x) == Body[x + 1]

Letter == {"a", "b", "f", "p"}
DigitValue == [c \in {"1", "8"} |-> IF c = "1" THEN 1 ELSE 8]
Digit == DOMAIN DigitValue
Word == Letter \cup Digit
Space == {"_", "n"}

-----------------------------------------------------------------------------
(***************************************************************************)
(* Go's regexp, for patterns that are a sequence of classes with bounds.   *)
(***************************************************************************)
\* cls{min,max}
Seg(cls, min, max) == [cls |-> cls, min |-> min, max |-> max]

\* Where seg may end when it starts at x.
SegEnds(seg, x, hi) ==
    {y \in (x + seg.min)..hi : y - x <= seg.max /\ \A z \in x..(y - 1) : At(z) \in seg.cls}

\* \b, (?m)^ and (?m)$ at offset x of the data lo..hi-1, or no assertion.
IsWord(x, lo, hi) == lo <= x /\ x < hi /\ At(x) \in Word

Asserted(anchor, x, lo, hi) ==
    CASE anchor = "none" -> TRUE
      [] anchor = "word" -> IsWord(x - 1, lo, hi) # IsWord(x, lo, hi)
      [] anchor = "line" -> x = lo \/ At(x - 1) = "n"
      [] anchor = "eol"  -> x = hi \/ At(x) = "n"

Ends(d, x, lo, hi) ==
    LET reach[k \in 0..Len(d.pattern)] ==
          IF k = 0 THEN {x} ELSE UNION {SegEnds(d.pattern[k], y, hi) : y \in reach[k - 1]}
    IN  IF Asserted(d.left, x, lo, hi)
        THEN {y \in reach[Len(d.pattern)] : Asserted(d.right, y, lo, hi)}
        ELSE {}

\* FindAllIndex: leftmost matches, greedy, not overlapping, as stream offsets.
FindAllIndex(d, lo, hi) ==
    LET from[x \in lo..hi] ==
          LET ends == Ends(d, x, lo, hi)
              last == CHOOSE y \in ends : \A z \in ends : z <= y
          IN  CASE x = hi    -> <<>>
                [] ends = {} -> from[x + 1]
                [] OTHER     -> <<[at |-> x, to |-> last]>> \o from[last]
    IN  from[lo]

-----------------------------------------------------------------------------
(***************************************************************************)
(* The checks a candidate has to pass                                      *)
(***************************************************************************)
Bytes(x, y) == [k \in 1..(y - x) |-> At(x + k - 1)]

\* shannonEntropy(match) >= halfBits / 2, without logarithms: with n bytes of
\* which c are equal to b, n^n >= 2^(n * bits) * (product of c^c over all b).
Entropic(x, y, halfBits) ==
    LET n == y - x
        count(b) == Len(SelectSeq(Bytes(x, y), LAMBDA e : e = b))
        weight == FoldLeft(LAMBDA w, b : w * count(b)^(2 * count(b)), 1,
                           SetToSeq(Range(Bytes(x, y))))
    IN  n > 0 /\ n^(2 * n) >= 2^(n * halfBits) * weight

\* hasKeyContext: a label ends in the ContextWindow bytes of the data before x.
hasKeyContext(x, lo) ==
    /\ x > lo
    /\ \E z \in lo..(x - 1) : z >= x - ContextWindow /\ At(z) = "K"

\* luhnValid: every second digit from the right counts double, digits added up.
luhnValid(x, y) ==
    LET ds == SelectSeq(Bytes(x, y), LAMBDA c : c \in Digit)
        digit(k) == DigitValue[ds[k]]
        twice(v) == IF 2 * v > 9 THEN 2 * v - 9 ELSE 2 * v
        sum[k \in 0..Len(ds)] ==
            IF k = 0 THEN 0
            ELSE sum[k - 1] + (IF (Len(ds) - k) % 2 = 1 THEN twice(digit(k)) ELSE digit(k))
    IN  Len(ds) \in MinDigits..MaxDigits /\ sum[Len(ds)] % 10 = 0

-----------------------------------------------------------------------------
(***************************************************************************)
(* The tables.  Plain is a detector without checks.                        *)
(***************************************************************************)
Plain(pattern, left, right) ==
    [pattern |-> pattern, left |-> left, right |-> right,
     minEntropy |-> 0, requireKey |-> FALSE, luhn |-> FALSE]

\* No upper bound, as in {20,} or \s+.
Open == Len(Body)

SecretsDetectors == <<
    \* aws_access_key_id, github, gitlab, npm, google, ...: prefix and a fixed length
    [Plain(<<Seg({"p"}, 1, 1), Seg(Word, 2, 2)>>, "word", "word") EXCEPT !.minEntropy = 2],
    \* openai_api_key: open-ended, and only after a key label
    [Plain(<<Seg({"f"}, 1, 1), Seg(Word, 2, Open)>>, "word", "word")
        EXCEPT !.minEntropy = 2, !.requireKey = TRUE],
    \* private_key header, webhooks: fixed text, no word boundary, no entropy
    Plain(<<Seg({"-"}, 2, 2), Seg({"a"}, 1, 1)>>, "none", "none")>>

PIIDetectors == <<
    \* email: open-ended on both sides of the sign
    Plain(<<Seg(Letter, 1, Open), Seg({"@"}, 1, 1), Seg(Letter, 1, Open)>>, "word", "word"),
    \* credit_card, with the check on top of the shape that ssn, phone and ipv4 share
    [Plain(<<Seg(Digit, MinDigits, MaxDigits)>>, "word", "word") EXCEPT !.luhn = TRUE]>>

SQLiDetectors == <<
    \* union_select, waitfor delay, tautology: words with open-ended space between
    Plain(<<Seg({"a"}, 1, 1), Seg({"_"}, 1, Open), Seg({"b"}, 1, 1)>>, "word", "word"),
    \* statement_chain, comment_marker: punctuation first, no boundary before it
    Plain(<<Seg({"-"}, 1, 1), Seg({"_"}, 0, Open), Seg({"b"}, 1, 1)>>, "none", "word")>>

CodeDetectors == <<
    \* python_def, go_func, javascript_function: a word up to a bracket
    Plain(<<Seg({"b"}, 1, 1), Seg({"_"}, 1, Open), Seg({"-"}, 1, 1)>>, "word", "none"),
    \* go_package, python_import: a whole line
    Plain(<<Seg({"b"}, 1, 1), Seg(Letter, 1, Open)>>, "line", "eol")>>

-----------------------------------------------------------------------------
(***************************************************************************)
(* The Scan methods: for _, d := range detectors, for each candidate, the  *)
(* checks, then a finding.                                                 *)
(***************************************************************************)
Candidates(detectors, lo, hi) ==
    LET of(d) == LET ms == FindAllIndex(d, lo, hi) IN [k \in DOMAIN ms |-> [d |-> d, m |-> ms[k]]]
    IN  FlattenSeq([k \in DOMAIN detectors |-> of(detectors[k])])

Findings(cs, lo) ==
    [k \in DOMAIN cs |-> [Start |-> cs[k].m.at - lo, End |-> cs[k].m.to - lo]]

ScanSecrets(lo, hi) ==
    LET Passes(c) ==
          /\ c.d.minEntropy > 0 => Entropic(c.m.at, c.m.to, c.d.minEntropy)
          /\ c.d.requireKey => hasKeyContext(c.m.at, lo)
    IN  Findings(SelectSeq(Candidates(SecretsDetectors, lo, hi), Passes), lo)

ScanPII(lo, hi) ==
    LET Passes(c) == c.d.luhn => luhnValid(c.m.at, c.m.to)
    IN  Findings(SelectSeq(Candidates(PIIDetectors, lo, hi), Passes), lo)

ScanSQLi(lo, hi) == Findings(Candidates(SQLiDetectors, lo, hi), lo)

ScanCode(lo, hi) == Findings(Candidates(CodeDetectors, lo, hi), lo)

BuiltIn(name, lo, hi) ==
    CASE name = "pii"     -> ScanPII(lo, hi)
      [] name = "secrets" -> ScanSecrets(lo, hi)
      [] name = "sqli"    -> ScanSQLi(lo, hi)
      [] name = "code"    -> ScanCode(lo, hi)

\* ScanWith: the findings of the enabled scanners, in the order of the configuration.
ScanInOrder(enabled, lo, hi) ==
    FlattenSeq([k \in DOMAIN enabled |-> BuiltIn(enabled[k], lo, hi)])
=============================================================================
