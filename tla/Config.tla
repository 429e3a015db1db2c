------------------------------- MODULE Config -------------------------------
(***************************************************************************)
(* The configuration of the proxy (internal/config/config.go): its         *)
(* defaults, how a file changes them, and the checks of Validate.          *)
(*                                                                         *)
(* A configuration is a flat record of the fields that startup looks at.   *)
(* A file is what reading and decoding it gives: nothing, or the fields it *)
(* sets.  Decoding merges field by field into the defaults, except that a  *)
(* list of scanners replaces the default list as a whole.                  *)
(***************************************************************************)
EXTENDS Integers, Sequences

\* An entry of scanners, or the external part of the redactor: command is
\* "none" without an external block, "empty" for one without words.
Entry(name, enabled, command) == [name |-> name, enabled |-> enabled, command |-> command]

Default ==
    [listen |-> "127.0.0.1:8080",
     level |-> "info", format |-> "text",
     maxBodySize |-> 10 * 1024 * 1024,
     readTimeout |-> 30, writeTimeout |-> 30, idleTimeout |-> 120,
     mitm |-> FALSE, certPath |-> "", keyPath |-> "", leafCacheSize |-> 1024,
     windowBytes |-> 4096,
     scanners |-> <<Entry("pii", TRUE, "none"), Entry("secrets", TRUE, "none"),
                    Entry("sqli", FALSE, "none"), Entry("code", FALSE, "none")>>,
     redactor |-> "mask", redactorCommand |-> "none"]

-----------------------------------------------------------------------------
(***************************************************************************)
(* Files                                                                   *)
(***************************************************************************)
\* run without -config.
NoFile == [kind |-> "none", fields |-> <<>>]

\* A file that cannot be read, is not YAML, or holds no document at all.
BadFile == [kind |-> "bad", fields |-> <<>>]

\* A file that sets some fields; a field that Default does not have is one
\* that KnownFields(true) refuses.
File(fields) == [kind |-> "file", fields |-> fields]

Decodes(file) == file.kind = "file" /\ DOMAIN file.fields \subseteq DOMAIN Default

Decoded(file) ==
    [x \in DOMAIN Default |-> IF x \in DOMAIN file.fields THEN file.fields[x] ELSE Default[x]]

-----------------------------------------------------------------------------
ToLower(s) ==
    CASE s = "DEBUG" -> "debug" [] s = "Warning" -> "warning" [] s = "LOUD" -> "loud" [] OTHER -> s

ParseLogLevel(s) ==
    CASE ToLower(s) \in {"", "info"}        -> "info"
      [] ToLower(s) \in {"warn", "warning"} -> "warn"
      [] ToLower(s) \in {"debug", "error"}  -> ToLower(s)
      [] OTHER                              -> "invalid"

\* The names of the enabled ones among the first x entries, in order.
EnabledAmong(c) ==
    LET out[x \in 0..Len(c.scanners)] ==
            IF x = 0 THEN <<>>
            ELSE IF c.scanners[x].enabled THEN Append(out[x - 1], c.scanners[x].name)
            ELSE out[x - 1]
    IN  out

EnabledScanners(c) == EnabledAmong(c)[Len(c.scanners)]

GoodLimits(c) ==
    /\ c.maxBodySize > 0
    /\ c.readTimeout >= 0 /\ c.writeTimeout >= 0 /\ c.idleTimeout >= 0
    /\ c.leafCacheSize >= 0
    /\ c.windowBytes >= 0

MutGoodScanners(c) ==
    /\ \A x \in DOMAIN c.scanners : c.scanners[x].name # "" /\ c.scanners[x].command # "empty"
    /\ c.scanners # <<>>

GoodScanners(c) ==
    /\ \A x \in DOMAIN c.scanners : c.scanners[x].name # "" /\ c.scanners[x].command # "empty"
    /\ EnabledScanners(c) # <<>>

GoodRedactor(c) == c.redactor # "" /\ c.redactorCommand # "empty"

Validate(c) ==
    /\ c.listen # ""
    /\ GoodLimits(c)
    /\ ParseLogLevel(c.level) # "invalid"
    /\ c.format \in {"", "text", "json"}
    /\ c.mitm => c.certPath # "" /\ c.keyPath # ""
    /\ GoodScanners(c)
    /\ GoodRedactor(c)

-----------------------------------------------------------------------------
\* loadConfig: the defaults are used as they are, a file is validated.
Loads(file) == file.kind = "none" \/ (Decodes(file) /\ Validate(Decoded(file)))
loadConfig(file) == IF Loads(file) THEN Decoded(file) ELSE Default
=============================================================================
