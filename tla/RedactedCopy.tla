---------------------------- MODULE RedactedCopy ----------------------------
(***************************************************************************)
(* What streaming redaction promises, with no buffer, window or scanner:   *)
(* the client receives a growing prefix of the stream in which exactly the *)
(* sensitive bytes are replaced.  However the upstream cuts the stream     *)
(* into reads, the output is that of redacting the whole body at once.     *)
(***************************************************************************)
EXTENDS Integers

CONSTANTS
    Length,         \* bytes of the stream
    Sensitive       \* offsets that must be hidden from the client

VARIABLES
    sent,           \* the client has the offsets 0..sent-1
    clear,          \* those of them it can read
    outcome         \* "open", "complete" or "truncated"

copyVars == <<sent, clear, outcome>>

CopyInit == sent = 0 /\ clear = {} /\ outcome = "open"

Deliver(n) ==
    /\ outcome = "open"
    /\ sent' = n
    /\ clear' = clear \cup ((sent..(n - 1)) \ Sensitive)

Progress == \E n \in sent..Length : Deliver(n) /\ outcome' = "open"

Complete == Deliver(Length) /\ outcome' = "complete"

\* The last delivery of a copy that is given up may be cut short.
Truncate == \E n \in sent..Length : Deliver(n) /\ outcome' = "truncated"

CopyNext == Progress \/ Complete \/ Truncate

CopySpec == CopyInit /\ [][CopyNext]_copyVars
=============================================================================
