----------------------------- MODULE MCLifecycle -----------------------------
(***************************************************************************)
(* Lifecycle with two plain requests and an intercepted one, started with  *)
(* the defaults, with configurations that serve (two scanner plugins; a    *)
(* scanner and a redactor plugin with interception), with ones that fail   *)
(* after a plugin was started, and with one file per check of Validate.    *)
(***************************************************************************)
EXTENDS Lifecycle

TwoPlugins ==
    [level |-> "Warning", format |-> "",
     scanners |-> <<Entry("names", TRUE, "given"), Entry("none", FALSE, "given"), Entry("pii", TRUE, "none"),
                    Entry("names", TRUE, "given")>>]

WithRedactor ==
    [level |-> "", mitm |-> TRUE, certPath |-> "ca.crt", keyPath |-> "ca.key", leafCacheSize |-> 0,
     scanners |-> <<Entry("sqli", TRUE, "none"), Entry("names", TRUE, "given")>>,
     redactor |-> "hash", redactorCommand |-> "given"]

Unregistered ==
    {[scanners |-> <<Entry("names", TRUE, "given"), Entry("pci", TRUE, "none")>>],
     [scanners |-> <<Entry("names", TRUE, "given")>>, redactor |-> "hash"]}

Rejected ==
    {[listen |-> ""], [level |-> "LOUD"], [format |-> "xml"], [maxBodySize |-> 0],
     [readTimeout |-> -1], [writeTimeout |-> -1], [idleTimeout |-> -1],
     [leafCacheSize |-> -1], [windowBytes |-> -1], [mitm |-> TRUE, certPath |-> "ca.crt"],
     [scanners |-> <<>>], [scanners |-> <<Entry("pii", FALSE, "none")>>],
     [scanners |-> <<Entry("", TRUE, "none")>>],
     [scanners |-> <<Entry("pii", TRUE, "none"), Entry("names", FALSE, "empty")>>],
     [scanners |-> <<Entry("names", TRUE, "empty")>>],
     [redactor |-> ""], [redactorCommand |-> "empty"],
     [mystery |-> 42]}

MCFiles == {NoFile, BadFile} \cup {File(c) : c \in {TwoPlugins, WithRedactor} \cup Unregistered \cup Rejected}
=============================================================================
