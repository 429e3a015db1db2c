--------------------------- MODULE LifecycleProofs ---------------------------
(***************************************************************************)
(* What run and handleHTTP guarantee for every set of configuration files  *)
(* and every number of scanners, plugins and requests.                     *)
(***************************************************************************)
EXTENDS Lifecycle, SequenceTheorems, WellFoundedInduction, TLAPS

Recorded == {procs[x] : x \in DOMAIN procs}
RedactorPlugin == {p \in {0} : cfg.redactorCommand # "none"}

Building == {"scanners", "connect", "info", "redactor", "certs", "listen", "select", "shutdown"}
BeforeServing == {"load", "logger", "scanners", "connect", "info", "redactor", "certs", "listen"}
HandlerPlaces == {"none", "read", "process", "do", "pipe", "readResponse", "processResponse", "done"}

Types ==
    /\ file \in Files
    /\ pc \in {"load", "logger", "deferred", "exited"} \cup Building
    /\ k \in Nat
    /\ proc \in [Plugin -> {"none", "running", "crashed", "killed"}]
    /\ procs \in Seq(Plugin)
    /\ exit \in {"no", "returned", "signal"}
    /\ serve \in {"off", "serving", "failed", "closed"}
    /\ handler \in [Request -> HandlerPlaces]
    /\ replies \in [Request -> Nat]
    /\ respBody \in [Request -> BOOLEAN]
    /\ starved \subseteq Request

(* run is past loadConfig only with a configuration that loads, the place  *)
(* of the scanner entry under construction, and when the process is over.  *)
Control ==
    /\ (exit = "no") <=> (pc # "exited")
    /\ pc \in Building \cup {"logger", "deferred"} => Loads(file)
    /\ pc \in {"load", "logger"} => k = 1 /\ scanners = <<>>
    /\ pc = "scanners" => k \in 1..(Len(cfg.scanners) + 1)
    /\ pc = "connect" => k \in External \cup RedactorPlugin
    /\ pc = "info" => k \in External
    /\ pc = "deferred" => k > 0

(* Every running plugin is either being connected to or recorded, and the  *)
(* loop of Host.Shutdown has it still before it.                           *)
Tracked ==
    /\ pc \in {"load", "logger"} => procs = <<>> /\ \A p \in Plugin : proc[p] = "none"
    /\ exit = "no" =>
        \A p \in Plugin : proc[p] = "running" =>
            \/ pc = "connect" /\ k = p
            \/ \E x \in DOMAIN procs : procs[x] = p /\ (pc = "deferred" => k <= x)

(* Plugins are killed only on the way out, and on the way out no tracked   *)
(* request is left unless the grace period ran out or Serve failed.        *)
Draining ==
    /\ (\E p \in Plugin : proc[p] = "killed") => pc \in {"deferred", "exited"}
    /\ starved # {} => pc \in {"deferred", "exited"}
    /\ pc \in BeforeServing => serve = "off"
    /\ pc = "shutdown" => serve = "closed"
    /\ pc = "deferred" => serve # "serving"
    /\ serve = "off" => \A r \in Request : handler[r] = "none"
    /\ pc = "deferred" /\ ~graceOver /\ serve # "failed" => Busy = {}

(* What handleHTTP has told the client where it stands.                    *)
Answering ==
    \A r \in Request :
        /\ replies[r] = IF handler[r] \in {"pipe", "done"} THEN 1 ELSE 0
        /\ respBody[r] => handler[r] \in {"pipe", "readResponse", "processResponse"}

(* The plugins that run has recorded at each point of the construction.    *)
ToRecord ==
    CASE pc = "scanners" \/ (pc = "connect" /\ k > 0) -> {x \in External : x < k}
      [] pc = "info"                                  -> {x \in External : x <= k}
      [] pc = "redactor" \/ (pc = "connect" /\ k = 0) -> External
      [] OTHER                                        -> External \cup RedactorPlugin

(* The construction follows the configuration entry by entry.              *)
Construction ==
    pc \in Building =>
        /\ scanners = IF pc \in {"scanners", "info"} \/ (pc = "connect" /\ k > 0)
                      THEN EnabledAmong(cfg)[k - 1] ELSE EnabledScanners(cfg)
        /\ Recorded = ToRecord
        /\ \A p \in Plugin :
            (p \in Recorded \/ (pc = "connect" /\ p = k)) <=> proc[p] \in {"running", "crashed"}

IInv ==
    /\ Types
    /\ Control
    /\ Tracked
    /\ NoOrphans
    /\ Draining
    /\ DrainedBeforeKill
    /\ Answering
    /\ Construction
    /\ ValidStarts

-----------------------------------------------------------------------------
(***************************************************************************)
(* Induction over the natural numbers, stated with sets, and the loop of   *)
(* EnabledScanners.                                                        *)
(***************************************************************************)
LEMMA LeastElement ==
    ASSUME NEW T \in SUBSET Nat, T # {}
    PROVE  \E x \in T : \A y \in T : x <= y
<1>1. IsWellFoundedOn(OpToRel(<, Nat), Nat)
      BY NatLessThanWellFounded
<1>2. \A x, y \in Nat : <<x, y>> \in OpToRel(<, Nat) <=> x < y
      BY DEF OpToRel
<1>3. PICK x \in T : \A y \in T : ~(<<y, x>> \in OpToRel(<, Nat))
      BY <1>1, WFMin, Zenon
<1>4. \A y \in T : ~(y < x)
      BY <1>2, <1>3, Zenon
<1> QED
      BY <1>4

LEMMA SetInduction ==
    ASSUME NEW S \in SUBSET Nat, 0 \in S, \A n \in S : n + 1 \in S
    PROVE  S = Nat
<1> SUFFICES ASSUME Nat \ S # {} PROVE FALSE
    OBVIOUS
<1>1. PICK x \in Nat \ S : \A y \in Nat \ S : x <= y
      BY LeastElement
<1>2. x # 0 /\ x - 1 \in Nat /\ x - 1 \in S
      BY <1>1
<1> QED
      BY <1>2

(* The recursive function in EnabledAmong exists, so it is the loop: the   *)
(* names of the first x entries are those of the first x - 1 and, when it  *)
(* is enabled, the name of entry x.                                        *)
LEMMA EnabledLoop ==
    ASSUME NEW c, Len(c.scanners) \in Nat
    PROVE  /\ EnabledAmong(c)[0] = <<>>
           /\ \A x \in 1..Len(c.scanners) :
                EnabledAmong(c)[x] = IF c.scanners[x].enabled
                                     THEN Append(EnabledAmong(c)[x - 1], c.scanners[x].name)
                                     ELSE EnabledAmong(c)[x - 1]
<1> DEFINE N == Len(c.scanners)
           Body(f, x) == IF x = 0 THEN <<>>
                         ELSE IF c.scanners[x].enabled THEN Append(f[x - 1], c.scanners[x].name)
                         ELSE f[x - 1]
           S == {n \in Nat : \E f : f = [x \in 0..n |-> Body(f, x)]}
<1>a. \A f, g : Body(f, 0) = Body(g, 0)
      OBVIOUS
<1>b. \A f, g, x : x # 0 /\ f[x - 1] = g[x - 1] => Body(f, x) = Body(g, x)
      OBVIOUS
<1>c. EnabledAmong(c) = CHOOSE f : f = [x \in 0..N |-> Body(f, x)]
      BY DEF EnabledAmong
<1>d. \A f : Body(f, 0) = <<>>
      OBVIOUS
<1>e. ASSUME NEW f, NEW x \in 1..N
      PROVE  Body(f, x) = IF c.scanners[x].enabled THEN Append(f[x - 1], c.scanners[x].name)
                                                   ELSE f[x - 1]
      BY <1>e
<1> HIDE DEF Body
<1>1. 0 \in S
  <2> DEFINE f == [x \in 0..0 |-> Body(<<>>, 0)]
  <2>1. f = [x \in 0..0 |-> Body(f, x)]
        BY <1>a
  <2> HIDE DEF f
  <2> QED
        BY <2>1
<1>2. ASSUME NEW n \in S PROVE n + 1 \in S
  <2>1. PICK f : f = [x \in 0..n |-> Body(f, x)]
        BY <1>2
  <2>2. n \in Nat /\ n + 1 \in Nat
        OBVIOUS
  <2>3. \A x \in 0..n : f[x] = Body(f, x)
        BY <2>1
  <2> DEFINE g == [x \in 0..(n + 1) |-> IF x = n + 1 THEN Body(f, x) ELSE f[x]]
  <2>4. ASSUME NEW x \in 0..(n + 1) PROVE g[x] = Body(g, x)
    <3>1. g[x] = Body(f, x)
          BY <2>2, <2>3
    <3>2. CASE x = 0
          BY <3>1, <3>2, <1>a
    <3>3. CASE x # 0
      <4>1. x - 1 \in 0..n /\ x - 1 # n + 1 /\ x - 1 \in 0..(n + 1)
            BY <2>2, <3>3
      <4>2. g[x - 1] = f[x - 1]
            BY <4>1
      <4> HIDE DEF g
      <4> QED
            BY <3>1, <3>3, <4>2, <1>b
    <3> QED
          BY <3>2, <3>3
  <2>5. g = [x \in 0..(n + 1) |-> Body(g, x)]
        BY <2>4
  <2> HIDE DEF g
  <2> QED
        BY <2>2, <2>5
<1>3. S = Nat
  <2> HIDE DEF S
  <2>1. S \in SUBSET Nat
        BY DEF S
  <2> QED
        BY <1>1, <1>2, <2>1, SetInduction
<1>4. \E f : f = [x \in 0..N |-> Body(f, x)]
      BY <1>3
<1> DEFINE E == EnabledAmong(c)
<1>5. E = [x \in 0..N |-> Body(E, x)]
      BY <1>4, <1>c
<1> HIDE DEF E
<1>6. E[0] = <<>> /\ \A x \in 1..N : E[x] = Body(E, x)
      BY <1>5, <1>d
<1>7. \A x \in 1..N : E[x] = IF c.scanners[x].enabled THEN Append(E[x - 1], c.scanners[x].name)
                                                     ELSE E[x - 1]
      BY <1>6, <1>e
<1> QED
      BY <1>6, <1>7 DEF E

LEMMA DefaultFields ==
    /\ {"level", "redactorCommand", "scanners"} \subseteq DOMAIN Default
    /\ Default["level"] = "info"
    /\ Default["redactorCommand"] = "none"
    /\ Default["scanners"] = <<Entry("pii", TRUE, "none"), Entry("secrets", TRUE, "none"),
                               Entry("sqli", FALSE, "none"), Entry("code", FALSE, "none")>>
BY ZenonT(30) DEF Default

(* Whatever the file, the configuration has a list of scanner entries.     *)
LEMMA ScannersTyped ==
    ASSUME file \in Files
    PROVE  IsList(cfg.scanners)
<1>1. IsList(Default["scanners"])
      BY DefaultFields DEF IsList
<1>2. CASE ~Loads(file)
      BY <1>1, <1>2 DEF cfg, loadConfig
<1>3. CASE Loads(file)
  <2>1. cfg = [x \in DOMAIN Default |-> IF x \in DOMAIN file.fields THEN file.fields[x] ELSE Default[x]]
        BY <1>3 DEF cfg, loadConfig, Decoded
  <2>2. cfg.scanners = IF "scanners" \in DOMAIN file.fields THEN file.fields["scanners"] ELSE Default["scanners"]
        BY <2>1, DefaultFields
  <2>3. "scanners" \in DOMAIN file.fields => IsList(file.fields["scanners"])
    <3>1. CASE file \in {NoFile, BadFile}
          BY <3>1 DEF NoFile, BadFile
    <3>2. CASE file \notin {NoFile, BadFile}
          BY <3>2, ProcessAssumption
    <3> QED
          BY <3>1, <3>2
  <2>4. CASE "scanners" \in DOMAIN file.fields
        BY <2>2, <2>3, <2>4
  <2>5. CASE "scanners" \notin DOMAIN file.fields
        BY <2>2, <2>5, <1>1
  <2> QED
        BY <2>4, <2>5
<1> QED
      BY <1>2, <1>3

(* What Validate, or the defaults, give to the builders.                   *)
LEMMA LoadedIsValid ==
    ASSUME file \in Files, Loads(file)
    PROVE  /\ ParseLogLevel(cfg.level) # "invalid"
           /\ \A x \in 1..Len(cfg.scanners) : cfg.scanners[x].command # "empty"
           /\ EnabledScanners(cfg) # <<>>
           /\ cfg.redactorCommand # "empty"
<1>1. CASE file.kind = "none"
  <2>1. file = NoFile
        BY <1>1, ProcessAssumption DEF BadFile
  <2>2. cfg = [x \in DOMAIN Default |-> Default[x]]
        BY <2>1 DEF cfg, loadConfig, Decoded, NoFile
  <2>3. ParseLogLevel(cfg.level) # "invalid" /\ cfg.redactorCommand # "empty"
    <3>1. cfg.level = "info" /\ cfg.redactorCommand = "none"
          BY <2>2, DefaultFields
    <3> QED
          BY <3>1 DEF ParseLogLevel, ToLower
  <2>4. cfg.scanners = <<Entry("pii", TRUE, "none"), Entry("secrets", TRUE, "none"),
                         Entry("sqli", FALSE, "none"), Entry("code", FALSE, "none")>>
        BY <2>2, DefaultFields
  <2>5. /\ Len(cfg.scanners) = 4
        /\ \A x \in 1..4 : cfg.scanners[x].command = "none"
        /\ cfg.scanners[1].enabled /\ cfg.scanners[2].enabled
        /\ ~cfg.scanners[3].enabled /\ ~cfg.scanners[4].enabled
        BY <2>4 DEF Entry
  <2>6. EnabledScanners(cfg) # <<>>
    <3> DEFINE E == EnabledAmong(cfg)
               S == cfg.scanners
               N == {S[1].name, S[2].name}
    <3>1. /\ E[0] = <<>>
          /\ \A x \in 1..4 : E[x] = IF S[x].enabled THEN Append(E[x - 1], S[x].name) ELSE E[x - 1]
      <4>1. Len(cfg.scanners) \in Nat
            BY <2>5
      <4> QED
            BY <4>1, <2>5, EnabledLoop
    <3> HIDE DEF E
    <3>2. E[1] = Append(E[0], S[1].name)
      <4>1. 1 \in 1..4 /\ 1 - 1 = 0
            OBVIOUS
      <4> QED
            BY <2>5, <3>1, <4>1
    <3>3. E[2] = Append(E[1], S[2].name)
      <4>1. 2 \in 1..4 /\ 2 - 1 = 1
            OBVIOUS
      <4> QED
            BY <2>5, <3>1, <4>1
    <3>4. E[3] = E[2] /\ E[4] = E[3]
      <4>1. 3 \in 1..4 /\ 3 - 1 = 2 /\ 4 \in 1..4 /\ 4 - 1 = 3
            OBVIOUS
      <4> QED
            BY <2>5, <3>1, <4>1
    <3>5. E[1] \in Seq(N)
      <4>1. E[0] \in Seq(N)
            BY <3>1
      <4> QED
            BY <3>2, <4>1, AppendProperties
    <3>6. E[2] # <<>>
      <4>1. Append(E[1], S[2].name) # <<>>
        <5>1. S[2].name \in N
              OBVIOUS
        <5> HIDE DEF N
        <5> QED
              BY <5>1, <3>5, AppendProperties
      <4> QED
            BY <3>3, <4>1
    <3> QED
          BY <2>5, <3>4, <3>6 DEF E, EnabledScanners
  <2> QED
        BY <2>3, <2>5, <2>6
<1>2. CASE file.kind # "none"
  <2>1. cfg = Decoded(file) /\ Validate(cfg)
        BY <1>2 DEF Loads, cfg, loadConfig
  <2>2. 1..Len(cfg.scanners) = DOMAIN cfg.scanners
        BY ScannersTyped DEF IsList
  <2> QED
        BY <2>1, <2>2 DEF Validate, GoodScanners, GoodRedactor
<1> QED
      BY <1>1, <1>2

(* What the parts of a configuration are made of.                          *)
LEMMA Plugins ==
    ASSUME file \in Files
    PROVE  /\ Len(cfg.scanners) \in Nat
           /\ 0 \in Plugin
           /\ External \subseteq 1..Len(cfg.scanners)
           /\ External \subseteq Plugin
           /\ \A x \in External : x \in Nat /\ x > 0
           /\ RedactorPlugin \subseteq {0}
           /\ \A x \in 1..Len(cfg.scanners) : x \in Plugin
BY ScannersTyped DEF IsList, Plugin, External, RedactorPlugin

LEMMA EnabledStep ==
    ASSUME file \in Files
    PROVE  /\ EnabledAmong(cfg)[0] = <<>>
           /\ k \in 1..Len(cfg.scanners) =>
                EnabledAmong(cfg)[k] = IF Taken THEN Append(EnabledAmong(cfg)[k - 1], entry.name)
                                                ELSE EnabledAmong(cfg)[k - 1]
<1>1. Len(cfg.scanners) \in Nat
      BY Plugins
<1> QED
      BY <1>1, EnabledLoop DEF Taken, entry

(* No step changes the configuration.                                      *)
LEMMA ConfigFixed ==
    ASSUME file' = file
    PROVE  /\ cfg' = cfg /\ Plugin' = Plugin /\ External' = External
           /\ RedactorPlugin' = RedactorPlugin
BY DEF cfg, Plugin, External, RedactorPlugin

(* Sets that depend on one variable.                                       *)
LEMMA SetsFixed ==
    /\ procs' = procs => Recorded' = Recorded
    /\ reqVars' = reqVars => Busy' = Busy
    /\ Draining /\ serve = "off" => Busy = {}
BY DEF Recorded, Busy, Request, reqVars, Draining

(* A configuration that loads lets the builders go on.                     *)
LEMMA GoOn ==
    ASSUME IInv
    PROVE  /\ pc = "logger" => ParseLogLevel(cfg.level) # "invalid"
           /\ AtEntry => entry.command # "empty"
           /\ AtEntry /\ Taken /\ entry.command # "none" => k \in External /\ k > 0
           /\ pc = "redactor" => cfg.redactorCommand # "empty"
           /\ pc = "redactor" /\ cfg.redactorCommand # "none" => 0 \in RedactorPlugin
           /\ pc = "scanners" /\ k > Len(cfg.scanners) => scanners = EnabledScanners(cfg) /\ scanners # <<>>
BY LoadedIsValid, Plugins DEF IInv, Types, Control, Construction, Building, AtEntry, Taken,
   entry, External,
     RedactorPlugin, EnabledScanners

-----------------------------------------------------------------------------
(***************************************************************************)
(* One lemma per step of run: each keeps every part of the invariant.      *)
(***************************************************************************)
LEMMA StepLoad == IInv /\ Load => IInv'
<1> SUFFICES ASSUME IInv, Load PROVE IInv'
    OBVIOUS
<1>0. file' = file /\ reqVars' = reqVars
      BY DEF Load, Refuse, buildVars, hostVars, serverVars, reqVars
<1>a. file \in Files
      BY DEF IInv, Types
<1> USE ConfigFixed, SetsFixed, Plugins, GoOn, <1>0, <1>a DEF IInv
<1>1. Types'
      BY DEF Load, Refuse, buildVars, hostVars, serverVars, reqVars, Types, Building
<1>2. Control'
      BY DEF Load, Refuse, buildVars, hostVars, serverVars, reqVars, Types, Control, Building
<1>3. Tracked' /\ NoOrphans'
      BY DEF Load, Refuse, buildVars, hostVars, serverVars, reqVars, Types, Control, Tracked,
         NoOrphans, Building
<1>4. Draining' /\ DrainedBeforeKill'
      BY DEF Load, Refuse, buildVars, hostVars, serverVars, reqVars, Types, Control, Draining,
         DrainedBeforeKill, BeforeServing, reqVars
<1>5. ValidStarts'
      BY DEF Load, Refuse, buildVars, hostVars, serverVars, reqVars, ValidStarts
<1>6. Construction'
      BY DEF Load, Refuse, buildVars, hostVars, serverVars, reqVars, Types, Control,
         Construction, ToRecord, Building
<1>7. Answering'
      BY DEF reqVars, Answering
<1> QED
      BY <1>1, <1>2, <1>3, <1>4, <1>5, <1>6, <1>7

LEMMA StepbuildLogger == IInv /\ buildLogger => IInv'
<1> SUFFICES ASSUME IInv, buildLogger PROVE IInv'
    OBVIOUS
<1>0. file' = file /\ reqVars' = reqVars
      BY DEF buildLogger, Refuse, buildVars, hostVars, serverVars, reqVars
<1>a. file \in Files
      BY DEF IInv, Types
<1> USE ConfigFixed, SetsFixed, Plugins, GoOn, <1>0, <1>a DEF IInv
<1>1. Types'
      BY DEF buildLogger, Refuse, buildVars, hostVars, serverVars, reqVars, Types, Building
<1>2. Control'
      BY DEF buildLogger, Refuse, buildVars, hostVars, serverVars, reqVars, Types, Control,
         Building
<1>3. Tracked' /\ NoOrphans'
      BY DEF buildLogger, Refuse, buildVars, hostVars, serverVars, reqVars, Types, Control,
         Tracked, NoOrphans, Building
<1>4. Draining' /\ DrainedBeforeKill'
      BY DEF buildLogger, Refuse, buildVars, hostVars, serverVars, reqVars, Types, Control,
         Draining, DrainedBeforeKill, BeforeServing, reqVars
<1>5. ValidStarts'
      BY DEF buildLogger, Refuse, buildVars, hostVars, serverVars, reqVars, ValidStarts
<1>6. Construction'
  <2>1. pc' = "scanners" /\ k' = 1 /\ k' - 1 = 0 /\ scanners' = <<>> /\ procs' = <<>> /\ proc' = proc
        BY DEF buildLogger, Refuse, hostVars, Types, Control, Tracked
  <2>2. EnabledAmong(cfg)[0] = <<>>
        BY EnabledStep
  <2>3. Recorded' = {} /\ ToRecord' = {}
        BY <2>1 DEF Recorded, ToRecord
  <2>4. \A p \in Plugin : proc[p] = "none"
        BY DEF buildLogger, Tracked
  <2> QED
        BY <2>1, <2>2, <2>3, <2>4 DEF Construction
<1>7. Answering'
      BY DEF reqVars, Answering
<1> QED
      BY <1>1, <1>2, <1>3, <1>4, <1>5, <1>6, <1>7

LEMMA StepSkipScanner == IInv /\ SkipScanner => IInv'
<1> SUFFICES ASSUME IInv, SkipScanner PROVE IInv'
    OBVIOUS
<1>0. file' = file /\ reqVars' = reqVars
      BY DEF SkipScanner, AtEntry, buildVars, hostVars, serverVars, reqVars
<1>a. file \in Files
      BY DEF IInv, Types
<1> USE ConfigFixed, SetsFixed, Plugins, GoOn, <1>0, <1>a DEF IInv
<1>1. Types'
      BY DEF SkipScanner, AtEntry, buildVars, hostVars, serverVars, reqVars, Types, Building
<1>2. Control'
      BY DEF SkipScanner, AtEntry, buildVars, hostVars, serverVars, reqVars, Types, Control,
         Building
<1>3. Tracked' /\ NoOrphans'
      BY DEF SkipScanner, AtEntry, buildVars, hostVars, serverVars, reqVars, Types, Control,
         Tracked, NoOrphans, Building
<1>4. Draining' /\ DrainedBeforeKill'
      BY DEF SkipScanner, AtEntry, buildVars, hostVars, serverVars, reqVars, Types, Control,
         Draining, DrainedBeforeKill, BeforeServing, reqVars
<1>5. ValidStarts'
      BY DEF SkipScanner, AtEntry, buildVars, hostVars, serverVars, reqVars, ValidStarts
<1>6. Construction'
  <2>1. pc = "scanners" /\ pc' = "scanners" /\ k \in 1..Len(cfg.scanners) /\ k' = k + 1
        BY DEF SkipScanner, AtEntry, Types, Control
  <2>2. EnabledAmong(cfg)[k] = EnabledAmong(cfg)[k - 1]
        BY <2>1, EnabledStep DEF SkipScanner
  <2>3. k \notin External
        BY DEF SkipScanner, Taken, entry, External
  <2>4. ToRecord' = ToRecord
        BY <2>1, <2>3 DEF ToRecord
  <2> QED
        BY <2>1, <2>2, <2>4 DEF SkipScanner, buildVars, hostVars, Construction, Building
<1>7. Answering'
      BY DEF reqVars, Answering
<1> QED
      BY <1>1, <1>2, <1>3, <1>4, <1>5, <1>6, <1>7

LEMMA StepBuiltInScanner == IInv /\ BuiltInScanner => IInv'
<1> SUFFICES ASSUME IInv, BuiltInScanner PROVE IInv'
    OBVIOUS
<1>0. file' = file /\ reqVars' = reqVars
      BY DEF BuiltInScanner, AtEntry, buildVars, hostVars, serverVars, reqVars
<1>a. file \in Files
      BY DEF IInv, Types
<1> USE ConfigFixed, SetsFixed, Plugins, GoOn, <1>0, <1>a DEF IInv
<1>1. Types'
      BY DEF BuiltInScanner, AtEntry, buildVars, hostVars, serverVars, reqVars, Types, Building
<1>2. Control'
      BY DEF BuiltInScanner, AtEntry, buildVars, hostVars, serverVars, reqVars, Types, Control,
         Building
<1>3. Tracked' /\ NoOrphans'
      BY DEF BuiltInScanner, AtEntry, buildVars, hostVars, serverVars, reqVars, Types, Control,
         Tracked, NoOrphans, Building
<1>4. Draining' /\ DrainedBeforeKill'
      BY DEF BuiltInScanner, AtEntry, buildVars, hostVars, serverVars, reqVars, Types, Control,
         Draining, DrainedBeforeKill, BeforeServing, reqVars
<1>5. ValidStarts'
      BY DEF BuiltInScanner, AtEntry, buildVars, hostVars, serverVars, reqVars, ValidStarts
<1>6. Construction'
  <2>1. pc = "scanners" /\ pc' = "scanners" /\ k \in 1..Len(cfg.scanners) /\ k' = k + 1
        BY DEF BuiltInScanner, AtEntry, Types, Control
  <2>2. EnabledAmong(cfg)[k] = Append(EnabledAmong(cfg)[k - 1], entry.name)
        BY <2>1, EnabledStep DEF BuiltInScanner
  <2>3. k \notin External
        BY DEF BuiltInScanner, Taken, entry, External
  <2>4. ToRecord' = ToRecord
        BY <2>1, <2>3 DEF ToRecord
  <2> QED
        BY <2>1, <2>2, <2>4 DEF BuiltInScanner, hostVars, Construction, Building
<1>7. Answering'
      BY DEF reqVars, Answering
<1> QED
      BY <1>1, <1>2, <1>3, <1>4, <1>5, <1>6, <1>7

LEMMA StepUnknownScanner == IInv /\ UnknownScanner => IInv'
<1> SUFFICES ASSUME IInv, UnknownScanner PROVE IInv'
    OBVIOUS
<1>0. file' = file /\ reqVars' = reqVars
      BY DEF UnknownScanner, AtEntry, Fail, Unwind, buildVars, hostVars, serverVars, reqVars
<1>a. file \in Files
      BY DEF IInv, Types
<1> USE ConfigFixed, SetsFixed, Plugins, GoOn, <1>0, <1>a DEF IInv
<1>1. Types'
      BY DEF UnknownScanner, AtEntry, Fail, Unwind, buildVars, hostVars, serverVars, reqVars,
         Types, Building
<1>2. Control'
      BY DEF UnknownScanner, AtEntry, Fail, Unwind, buildVars, hostVars, serverVars, reqVars,
         Types, Control, Building
<1>3. Tracked' /\ NoOrphans'
      BY DEF UnknownScanner, AtEntry, Fail, Unwind, buildVars, hostVars, serverVars, reqVars,
         Types, Control, Tracked, NoOrphans, Building
<1>4. Draining' /\ DrainedBeforeKill'
      BY DEF UnknownScanner, AtEntry, Fail, Unwind, buildVars, hostVars, serverVars, reqVars,
         Types, Control, Draining, DrainedBeforeKill, BeforeServing, reqVars
<1>5. ValidStarts'
      BY DEF UnknownScanner, AtEntry, Fail, Unwind, buildVars, hostVars, serverVars, reqVars,
         ValidStarts
<1>6. Construction'
      BY DEF UnknownScanner, AtEntry, Fail, Unwind, buildVars, hostVars, serverVars, reqVars,
         Types, Control, Construction, ToRecord, Building
<1>7. Answering'
      BY DEF reqVars, Answering
<1> QED
      BY <1>1, <1>2, <1>3, <1>4, <1>5, <1>6, <1>7

LEMMA StepLoadScanner == IInv /\ LoadScanner => IInv'
<1> SUFFICES ASSUME IInv, LoadScanner PROVE IInv'
    OBVIOUS
<1>0. file' = file /\ reqVars' = reqVars
      BY DEF LoadScanner, AtEntry, Dispense, Fail, Unwind, buildVars, hostVars, serverVars,
         reqVars
<1>a. file \in Files
      BY DEF IInv, Types
<1> USE ConfigFixed, SetsFixed, Plugins, GoOn, <1>0, <1>a DEF IInv
<1>1. Types'
      BY DEF LoadScanner, AtEntry, Dispense, Fail, Unwind, buildVars, hostVars, serverVars,
         reqVars, Types, Building
<1>2. Control'
      BY DEF LoadScanner, AtEntry, Dispense, Fail, Unwind, buildVars, hostVars, serverVars,
         reqVars, Types, Control, Building
<1>3. Tracked' /\ NoOrphans'
      BY DEF LoadScanner, AtEntry, Dispense, Fail, Unwind, buildVars, hostVars, serverVars,
         reqVars, Types, Control, Tracked, NoOrphans, Building
<1>4. Draining' /\ DrainedBeforeKill'
      BY DEF LoadScanner, AtEntry, Dispense, Fail, Unwind, buildVars, hostVars, serverVars,
         reqVars, Types, Control, Draining, DrainedBeforeKill, BeforeServing, reqVars
<1>5. ValidStarts'
      BY DEF LoadScanner, AtEntry, Dispense, Fail, Unwind, buildVars, hostVars, serverVars,
         reqVars, ValidStarts
<1>6. Construction'
      BY DEF LoadScanner, AtEntry, Dispense, Fail, Unwind, buildVars, hostVars, serverVars,
         reqVars, Types, Control, Construction, ToRecord, Building
<1>7. Answering'
      BY DEF reqVars, Answering
<1> QED
      BY <1>1, <1>2, <1>3, <1>4, <1>5, <1>6, <1>7

LEMMA StepScannersBuilt == IInv /\ ScannersBuilt => IInv'
<1> SUFFICES ASSUME IInv, ScannersBuilt PROVE IInv'
    OBVIOUS
<1>0. file' = file /\ reqVars' = reqVars
      BY DEF ScannersBuilt, Fail, Unwind, buildVars, hostVars, serverVars, reqVars
<1>a. file \in Files
      BY DEF IInv, Types
<1> USE ConfigFixed, SetsFixed, Plugins, GoOn, <1>0, <1>a DEF IInv
<1>1. Types'
      BY DEF ScannersBuilt, Fail, Unwind, buildVars, hostVars, serverVars, reqVars, Types,
         Building
<1>2. Control'
      BY DEF ScannersBuilt, Fail, Unwind, buildVars, hostVars, serverVars, reqVars, Types,
         Control, Building
<1>3. Tracked' /\ NoOrphans'
      BY DEF ScannersBuilt, Fail, Unwind, buildVars, hostVars, serverVars, reqVars, Types,
         Control, Tracked, NoOrphans, Building
<1>4. Draining' /\ DrainedBeforeKill'
      BY DEF ScannersBuilt, Fail, Unwind, buildVars, hostVars, serverVars, reqVars, Types,
         Control, Draining, DrainedBeforeKill, BeforeServing, reqVars
<1>5. ValidStarts'
      BY DEF ScannersBuilt, Fail, Unwind, buildVars, hostVars, serverVars, reqVars, ValidStarts
<1>6. Construction'
  <2>1. pc = "scanners" /\ pc' = "redactor" /\ k > Len(cfg.scanners)
        BY DEF ScannersBuilt
  <2>2. ToRecord' = External /\ ToRecord = External
        BY <2>1 DEF ToRecord, Types
  <2> QED
        BY <2>1, <2>2 DEF ScannersBuilt, hostVars, Construction, Building
<1>7. Answering'
      BY DEF reqVars, Answering
<1> QED
      BY <1>1, <1>2, <1>3, <1>4, <1>5, <1>6, <1>7

LEMMA StepLoadRedactor == IInv /\ LoadRedactor => IInv'
<1> SUFFICES ASSUME IInv, LoadRedactor PROVE IInv'
    OBVIOUS
<1>0. file' = file /\ reqVars' = reqVars
      BY DEF LoadRedactor, Dispense, Fail, Unwind, buildVars, hostVars, serverVars, reqVars
<1>a. file \in Files
      BY DEF IInv, Types
<1> USE ConfigFixed, SetsFixed, Plugins, GoOn, <1>0, <1>a DEF IInv
<1>1. Types'
      BY DEF LoadRedactor, Dispense, Fail, Unwind, buildVars, hostVars, serverVars, reqVars,
         Types, Building
<1>2. Control'
      BY DEF LoadRedactor, Dispense, Fail, Unwind, buildVars, hostVars, serverVars, reqVars,
         Types, Control, Building
<1>3. Tracked' /\ NoOrphans'
      BY DEF LoadRedactor, Dispense, Fail, Unwind, buildVars, hostVars, serverVars, reqVars,
         Types, Control, Tracked, NoOrphans, Building
<1>4. Draining' /\ DrainedBeforeKill'
      BY DEF LoadRedactor, Dispense, Fail, Unwind, buildVars, hostVars, serverVars, reqVars,
         Types, Control, Draining, DrainedBeforeKill, BeforeServing, reqVars
<1>5. ValidStarts'
      BY DEF LoadRedactor, Dispense, Fail, Unwind, buildVars, hostVars, serverVars, reqVars,
         ValidStarts
<1>6. Construction'
      BY DEF LoadRedactor, Dispense, Fail, Unwind, buildVars, hostVars, serverVars, reqVars,
         Types, Control, Construction, ToRecord, Building
<1>7. Answering'
      BY DEF reqVars, Answering
<1> QED
      BY <1>1, <1>2, <1>3, <1>4, <1>5, <1>6, <1>7

LEMMA StepbuildRedactor == IInv /\ buildRedactor => IInv'
<1> SUFFICES ASSUME IInv, buildRedactor PROVE IInv'
    OBVIOUS
<1>0. file' = file /\ reqVars' = reqVars
      BY DEF buildRedactor, Fail, Unwind, buildVars, hostVars, serverVars, reqVars
<1>a. file \in Files
      BY DEF IInv, Types
<1> USE ConfigFixed, SetsFixed, Plugins, GoOn, <1>0, <1>a DEF IInv
<1>1. Types'
      BY DEF buildRedactor, Fail, Unwind, buildVars, hostVars, serverVars, reqVars, Types,
         Building
<1>2. Control'
      BY DEF buildRedactor, Fail, Unwind, buildVars, hostVars, serverVars, reqVars, Types,
         Control, Building
<1>3. Tracked' /\ NoOrphans'
      BY DEF buildRedactor, Fail, Unwind, buildVars, hostVars, serverVars, reqVars, Types,
         Control, Tracked, NoOrphans, Building
<1>4. Draining' /\ DrainedBeforeKill'
      BY DEF buildRedactor, Fail, Unwind, buildVars, hostVars, serverVars, reqVars, Types,
         Control, Draining, DrainedBeforeKill, BeforeServing, reqVars
<1>5. ValidStarts'
      BY DEF buildRedactor, Fail, Unwind, buildVars, hostVars, serverVars, reqVars, ValidStarts
<1>6. Construction'
  <2>1. pc = "redactor" /\ pc' \in {"certs", "deferred"} /\ RedactorPlugin = {}
        BY DEF buildRedactor, Fail, Unwind, RedactorPlugin
  <2>2. pc' = "certs" => ToRecord' = External /\ ToRecord = External
        BY <2>1 DEF ToRecord
  <2> QED
        BY <2>1, <2>2 DEF buildRedactor, hostVars, Construction, Building
<1>7. Answering'
      BY DEF reqVars, Answering
<1> QED
      BY <1>1, <1>2, <1>3, <1>4, <1>5, <1>6, <1>7

LEMMA StepConnectFails == IInv /\ ConnectFails => IInv'
<1> SUFFICES ASSUME IInv, ConnectFails PROVE IInv'
    OBVIOUS
<1>0. file' = file /\ reqVars' = reqVars
      BY DEF ConnectFails, Fail, Unwind, buildVars, hostVars, serverVars, reqVars
<1>a. file \in Files
      BY DEF IInv, Types
<1> USE ConfigFixed, SetsFixed, Plugins, GoOn, <1>0, <1>a DEF IInv
<1>1. Types'
      BY DEF ConnectFails, Fail, Unwind, buildVars, hostVars, serverVars, reqVars, Types,
         Building
<1>2. Control'
      BY DEF ConnectFails, Fail, Unwind, buildVars, hostVars, serverVars, reqVars, Types,
         Control, Building
<1>3. Tracked' /\ NoOrphans'
  <2>1. /\ pc = "connect" /\ pc' = "deferred" /\ k' = 1 /\ exit' = exit /\ procs' = procs
        /\ proc' = [proc EXCEPT ![k] = "killed"] /\ k \in Plugin
        BY DEF ConnectFails, Fail, Unwind, Control
  <2>2. \A x \in DOMAIN procs : 1 <= x
        BY DEF Types
  <2> QED
        BY <2>1, <2>2 DEF Types, Control, Tracked, NoOrphans
<1>4. Draining' /\ DrainedBeforeKill'
      BY DEF ConnectFails, Fail, Unwind, buildVars, hostVars, serverVars, reqVars, Types,
         Control, Draining, DrainedBeforeKill, BeforeServing, reqVars
<1>5. ValidStarts'
      BY DEF ConnectFails, Fail, Unwind, buildVars, hostVars, serverVars, reqVars, ValidStarts
<1>6. Construction'
      BY DEF ConnectFails, Fail, Unwind, buildVars, hostVars, serverVars, reqVars, Types,
         Control, Construction, ToRecord, Building
<1>7. Answering'
      BY DEF reqVars, Answering
<1> QED
      BY <1>1, <1>2, <1>3, <1>4, <1>5, <1>6, <1>7

LEMMA StepConnect == IInv /\ Connect => IInv'
<1> SUFFICES ASSUME IInv, Connect PROVE IInv'
    OBVIOUS
<1>0. file' = file /\ reqVars' = reqVars
      BY DEF Connect, buildVars, hostVars, serverVars, reqVars
<1>a. file \in Files
      BY DEF IInv, Types
<1> USE ConfigFixed, SetsFixed, Plugins, GoOn, <1>0, <1>a DEF IInv
<1>1. Types'
  <2>1. k \in Plugin
        BY DEF Connect, Types, Control
  <2>2. Append(procs, k) \in Seq(Plugin)
        BY <2>1, AppendProperties DEF Types
  <2> QED
        BY <2>2 DEF Connect, buildVars, serverVars, reqVars, Types, Building
<1>2. Control'
      BY DEF Connect, buildVars, hostVars, serverVars, reqVars, Types, Control, Building
<1>3. Tracked' /\ NoOrphans'
  <2>1. \A x \in DOMAIN procs : x \in DOMAIN procs' /\ procs'[x] = procs[x]
        BY DEF Connect, Types
  <2>2. Len(procs) + 1 \in DOMAIN procs' /\ procs'[Len(procs) + 1] = k
        BY DEF Connect, Types
  <2>3. pc = "connect" /\ pc' \in {"certs", "info"} /\ proc' = proc /\ exit' = exit
        BY DEF Connect
  <2> QED
        BY <2>1, <2>2, <2>3 DEF Types, Control, Tracked, NoOrphans, Building
<1>4. Draining' /\ DrainedBeforeKill'
      BY DEF Connect, buildVars, hostVars, serverVars, reqVars, Types, Control, Draining,
         DrainedBeforeKill, BeforeServing, reqVars
<1>5. ValidStarts'
      BY DEF Connect, buildVars, hostVars, serverVars, reqVars, ValidStarts
<1>6. Construction'
  <2>1. pc = "connect" /\ k' = k /\ scanners' = scanners /\ proc' = proc /\ k \in External \cup RedactorPlugin
        BY DEF Connect, buildVars, Control
  <2>2. Recorded' = Recorded \cup {k}
    <3>1. k \in Plugin
          BY <2>1
    <3>2. procs' = Append(procs, k) /\ procs \in Seq(Plugin)
          BY DEF Connect, Types
    <3> QED
          BY <3>1, <3>2 DEF Recorded
  <2>3. CASE k > 0
    <3>1. pc' = "info" /\ k \in External
          BY <2>1, <2>3 DEF Connect
    <3>2. ToRecord = {x \in External : x < k} /\ ToRecord' = {x \in External : x <= k}
          BY <2>1, <2>3, <3>1 DEF ToRecord
    <3>3. ToRecord' = ToRecord \cup {k}
          BY <3>1, <3>2, <2>3
    <3> QED
          BY <2>1, <2>2, <2>3, <3>1, <3>3 DEF Construction, Building
  <2>4. CASE k = 0
    <3>1. pc' = "certs" /\ RedactorPlugin = {0}
          BY <2>1, <2>4 DEF Connect
    <3>2. ToRecord = External /\ ToRecord' = External \cup {0}
          BY <2>1, <2>4, <3>1 DEF ToRecord
    <3> QED
          BY <2>1, <2>2, <2>4, <3>1, <3>2 DEF Construction, Building
  <2> QED
        BY <2>3, <2>4 DEF Types
<1>7. Answering'
      BY DEF reqVars, Answering
<1> QED
      BY <1>1, <1>2, <1>3, <1>4, <1>5, <1>6, <1>7

LEMMA StepInfo == IInv /\ Info => IInv'
<1> SUFFICES ASSUME IInv, Info PROVE IInv'
    OBVIOUS
<1>0. file' = file /\ reqVars' = reqVars
      BY DEF Info, buildVars, hostVars, serverVars, reqVars
<1>a. file \in Files
      BY DEF IInv, Types
<1> USE ConfigFixed, SetsFixed, Plugins, GoOn, <1>0, <1>a DEF IInv
<1>1. Types'
      BY DEF Info, buildVars, hostVars, serverVars, reqVars, Types, Building
<1>2. Control'
      BY DEF Info, buildVars, hostVars, serverVars, reqVars, Types, Control, Building
<1>3. Tracked' /\ NoOrphans'
      BY DEF Info, buildVars, hostVars, serverVars, reqVars, Types, Control, Tracked, NoOrphans,
         Building
<1>4. Draining' /\ DrainedBeforeKill'
      BY DEF Info, buildVars, hostVars, serverVars, reqVars, Types, Control, Draining,
         DrainedBeforeKill, BeforeServing, reqVars
<1>5. ValidStarts'
      BY DEF Info, buildVars, hostVars, serverVars, reqVars, ValidStarts
<1>6. Construction'
  <2>1. pc = "info" /\ pc' = "scanners" /\ k \in External /\ k \in 1..Len(cfg.scanners) /\ k' = k + 1
        BY DEF Info, Types, Control
  <2>2. EnabledAmong(cfg)[k] = Append(EnabledAmong(cfg)[k - 1], entry.name)
        BY <2>1, EnabledStep DEF External, Taken, entry
  <2>3. ToRecord' = ToRecord
        BY <2>1 DEF ToRecord
  <2> QED
        BY <2>1, <2>2, <2>3 DEF Info, hostVars, Construction, Building
<1>7. Answering'
      BY DEF reqVars, Answering
<1> QED
      BY <1>1, <1>2, <1>3, <1>4, <1>5, <1>6, <1>7

LEMMA StepbuildCertStore == IInv /\ buildCertStore => IInv'
<1> SUFFICES ASSUME IInv, buildCertStore PROVE IInv'
    OBVIOUS
<1>0. file' = file /\ reqVars' = reqVars
      BY DEF buildCertStore, buildVars, hostVars, serverVars, reqVars
<1>a. file \in Files
      BY DEF IInv, Types
<1> USE ConfigFixed, SetsFixed, Plugins, GoOn, <1>0, <1>a DEF IInv
<1>1. Types'
      BY DEF buildCertStore, buildVars, hostVars, serverVars, reqVars, Types, Building
<1>2. Control'
      BY DEF buildCertStore, buildVars, hostVars, serverVars, reqVars, Types, Control, Building
<1>3. Tracked' /\ NoOrphans'
      BY DEF buildCertStore, buildVars, hostVars, serverVars, reqVars, Types, Control, Tracked,
         NoOrphans, Building
<1>4. Draining' /\ DrainedBeforeKill'
      BY DEF buildCertStore, buildVars, hostVars, serverVars, reqVars, Types, Control, Draining,
         DrainedBeforeKill, BeforeServing, reqVars
<1>5. ValidStarts'
      BY DEF buildCertStore, buildVars, hostVars, serverVars, reqVars, ValidStarts
<1>6. Construction'
      BY DEF buildCertStore, buildVars, hostVars, serverVars, reqVars, Types, Control,
         Construction, ToRecord, Building
<1>7. Answering'
      BY DEF reqVars, Answering
<1> QED
      BY <1>1, <1>2, <1>3, <1>4, <1>5, <1>6, <1>7

LEMMA StepCertStoreFails == IInv /\ CertStoreFails => IInv'
<1> SUFFICES ASSUME IInv, CertStoreFails PROVE IInv'
    OBVIOUS
<1>0. file' = file /\ reqVars' = reqVars
      BY DEF CertStoreFails, Fail, Unwind, buildVars, hostVars, serverVars, reqVars
<1>a. file \in Files
      BY DEF IInv, Types
<1> USE ConfigFixed, SetsFixed, Plugins, GoOn, <1>0, <1>a DEF IInv
<1>1. Types'
      BY DEF CertStoreFails, Fail, Unwind, buildVars, hostVars, serverVars, reqVars, Types,
         Building
<1>2. Control'
      BY DEF CertStoreFails, Fail, Unwind, buildVars, hostVars, serverVars, reqVars, Types,
         Control, Building
<1>3. Tracked' /\ NoOrphans'
      BY DEF CertStoreFails, Fail, Unwind, buildVars, hostVars, serverVars, reqVars, Types,
         Control, Tracked, NoOrphans, Building
<1>4. Draining' /\ DrainedBeforeKill'
      BY DEF CertStoreFails, Fail, Unwind, buildVars, hostVars, serverVars, reqVars, Types,
         Control, Draining, DrainedBeforeKill, BeforeServing, reqVars
<1>5. ValidStarts'
      BY DEF CertStoreFails, Fail, Unwind, buildVars, hostVars, serverVars, reqVars, ValidStarts
<1>6. Construction'
      BY DEF CertStoreFails, Fail, Unwind, buildVars, hostVars, serverVars, reqVars, Types,
         Control, Construction, ToRecord, Building
<1>7. Answering'
      BY DEF reqVars, Answering
<1> QED
      BY <1>1, <1>2, <1>3, <1>4, <1>5, <1>6, <1>7

LEMMA StepListen == IInv /\ Listen => IInv'
<1> SUFFICES ASSUME IInv, Listen PROVE IInv'
    OBVIOUS
<1>0. file' = file /\ reqVars' = reqVars
      BY DEF Listen, buildVars, hostVars, serverVars, reqVars
<1>a. file \in Files
      BY DEF IInv, Types
<1> USE ConfigFixed, SetsFixed, Plugins, GoOn, <1>0, <1>a DEF IInv
<1>1. Types'
      BY DEF Listen, buildVars, hostVars, serverVars, reqVars, Types, Building
<1>2. Control'
      BY DEF Listen, buildVars, hostVars, serverVars, reqVars, Types, Control, Building
<1>3. Tracked' /\ NoOrphans'
      BY DEF Listen, buildVars, hostVars, serverVars, reqVars, Types, Control, Tracked,
         NoOrphans, Building
<1>4. Draining' /\ DrainedBeforeKill'
      BY DEF Listen, buildVars, hostVars, serverVars, reqVars, Types, Control, Draining,
         DrainedBeforeKill, BeforeServing, reqVars
<1>5. ValidStarts'
      BY DEF Listen, buildVars, hostVars, serverVars, reqVars, ValidStarts
<1>6. Construction'
      BY DEF Listen, buildVars, hostVars, serverVars, reqVars, Types, Control, Construction,
         ToRecord, Building
<1>7. Answering'
      BY DEF reqVars, Answering
<1> QED
      BY <1>1, <1>2, <1>3, <1>4, <1>5, <1>6, <1>7

LEMMA StepListenFails == IInv /\ ListenFails => IInv'
<1> SUFFICES ASSUME IInv, ListenFails PROVE IInv'
    OBVIOUS
<1>0. file' = file /\ reqVars' = reqVars
      BY DEF ListenFails, Fail, Unwind, buildVars, hostVars, serverVars, reqVars
<1>a. file \in Files
      BY DEF IInv, Types
<1> USE ConfigFixed, SetsFixed, Plugins, GoOn, <1>0, <1>a DEF IInv
<1>1. Types'
      BY DEF ListenFails, Fail, Unwind, buildVars, hostVars, serverVars, reqVars, Types,
         Building
<1>2. Control'
      BY DEF ListenFails, Fail, Unwind, buildVars, hostVars, serverVars, reqVars, Types,
         Control, Building
<1>3. Tracked' /\ NoOrphans'
      BY DEF ListenFails, Fail, Unwind, buildVars, hostVars, serverVars, reqVars, Types,
         Control, Tracked, NoOrphans, Building
<1>4. Draining' /\ DrainedBeforeKill'
      BY DEF ListenFails, Fail, Unwind, buildVars, hostVars, serverVars, reqVars, Types,
         Control, Draining, DrainedBeforeKill, BeforeServing, reqVars
<1>5. ValidStarts'
      BY DEF ListenFails, Fail, Unwind, buildVars, hostVars, serverVars, reqVars, ValidStarts
<1>6. Construction'
      BY DEF ListenFails, Fail, Unwind, buildVars, hostVars, serverVars, reqVars, Types,
         Control, Construction, ToRecord, Building
<1>7. Answering'
      BY DEF reqVars, Answering
<1> QED
      BY <1>1, <1>2, <1>3, <1>4, <1>5, <1>6, <1>7

LEMMA StepServeFails == IInv /\ ServeFails => IInv'
<1> SUFFICES ASSUME IInv, ServeFails PROVE IInv'
    OBVIOUS
<1>0. file' = file /\ reqVars' = reqVars
      BY DEF ServeFails, Alive, buildVars, hostVars, serverVars, reqVars
<1>a. file \in Files
      BY DEF IInv, Types
<1> USE ConfigFixed, SetsFixed, Plugins, GoOn, <1>0, <1>a DEF IInv
<1>1. Types'
      BY DEF ServeFails, Alive, buildVars, hostVars, serverVars, reqVars, Types, Building
<1>2. Control'
      BY DEF ServeFails, Alive, buildVars, hostVars, serverVars, reqVars, Types, Control,
         Building
<1>3. Tracked' /\ NoOrphans'
      BY DEF ServeFails, Alive, buildVars, hostVars, serverVars, reqVars, Types, Control,
         Tracked, NoOrphans, Building
<1>4. Draining' /\ DrainedBeforeKill'
      BY DEF ServeFails, Alive, buildVars, hostVars, serverVars, reqVars, Types, Control,
         Draining, DrainedBeforeKill, BeforeServing, reqVars
<1>5. ValidStarts'
      BY DEF ServeFails, Alive, buildVars, hostVars, serverVars, reqVars, ValidStarts
<1>6. Construction'
      BY DEF ServeFails, Alive, buildVars, hostVars, serverVars, reqVars, Types, Control,
         Construction, ToRecord, Building
<1>7. Answering'
      BY DEF reqVars, Answering
<1> QED
      BY <1>1, <1>2, <1>3, <1>4, <1>5, <1>6, <1>7

LEMMA StepSelectError == IInv /\ SelectError => IInv'
<1> SUFFICES ASSUME IInv, SelectError PROVE IInv'
    OBVIOUS
<1>0. file' = file /\ reqVars' = reqVars
      BY DEF SelectError, Unwind, buildVars, hostVars, serverVars, reqVars
<1>a. file \in Files
      BY DEF IInv, Types
<1> USE ConfigFixed, SetsFixed, Plugins, GoOn, <1>0, <1>a DEF IInv
<1>1. Types'
      BY DEF SelectError, Unwind, buildVars, hostVars, serverVars, reqVars, Types, Building
<1>2. Control'
      BY DEF SelectError, Unwind, buildVars, hostVars, serverVars, reqVars, Types, Control,
         Building
<1>3. Tracked' /\ NoOrphans'
      BY DEF SelectError, Unwind, buildVars, hostVars, serverVars, reqVars, Types, Control,
         Tracked, NoOrphans, Building
<1>4. Draining' /\ DrainedBeforeKill'
      BY DEF SelectError, Unwind, buildVars, hostVars, serverVars, reqVars, Types, Control,
         Draining, DrainedBeforeKill, BeforeServing, reqVars
<1>5. ValidStarts'
      BY DEF SelectError, Unwind, buildVars, hostVars, serverVars, reqVars, ValidStarts
<1>6. Construction'
      BY DEF SelectError, Unwind, buildVars, hostVars, serverVars, reqVars, Types, Control,
         Construction, ToRecord, Building
<1>7. Answering'
      BY DEF reqVars, Answering
<1> QED
      BY <1>1, <1>2, <1>3, <1>4, <1>5, <1>6, <1>7

LEMMA StepSelectDone == IInv /\ SelectDone => IInv'
<1> SUFFICES ASSUME IInv, SelectDone PROVE IInv'
    OBVIOUS
<1>0. file' = file /\ reqVars' = reqVars
      BY DEF SelectDone, buildVars, hostVars, serverVars, reqVars
<1>a. file \in Files
      BY DEF IInv, Types
<1> USE ConfigFixed, SetsFixed, Plugins, GoOn, <1>0, <1>a DEF IInv
<1>1. Types'
      BY DEF SelectDone, buildVars, hostVars, serverVars, reqVars, Types, Building
<1>2. Control'
      BY DEF SelectDone, buildVars, hostVars, serverVars, reqVars, Types, Control, Building
<1>3. Tracked' /\ NoOrphans'
      BY DEF SelectDone, buildVars, hostVars, serverVars, reqVars, Types, Control, Tracked,
         NoOrphans, Building
<1>4. Draining' /\ DrainedBeforeKill'
      BY DEF SelectDone, buildVars, hostVars, serverVars, reqVars, Types, Control, Draining,
         DrainedBeforeKill, BeforeServing, reqVars
<1>5. ValidStarts'
      BY DEF SelectDone, buildVars, hostVars, serverVars, reqVars, ValidStarts
<1>6. Construction'
      BY DEF SelectDone, buildVars, hostVars, serverVars, reqVars, Types, Control, Construction,
         ToRecord, Building
<1>7. Answering'
      BY DEF reqVars, Answering
<1> QED
      BY <1>1, <1>2, <1>3, <1>4, <1>5, <1>6, <1>7

LEMMA StepDrained == IInv /\ Drained => IInv'
<1> SUFFICES ASSUME IInv, Drained PROVE IInv'
    OBVIOUS
<1>0. file' = file /\ reqVars' = reqVars
      BY DEF Drained, Unwind, buildVars, hostVars, serverVars, reqVars
<1>a. file \in Files
      BY DEF IInv, Types
<1> USE ConfigFixed, SetsFixed, Plugins, GoOn, <1>0, <1>a DEF IInv
<1>1. Types'
      BY DEF Drained, Unwind, buildVars, hostVars, serverVars, reqVars, Types, Building
<1>2. Control'
      BY DEF Drained, Unwind, buildVars, hostVars, serverVars, reqVars, Types, Control, Building
<1>3. Tracked' /\ NoOrphans'
      BY DEF Drained, Unwind, buildVars, hostVars, serverVars, reqVars, Types, Control, Tracked,
         NoOrphans, Building
<1>4. Draining' /\ DrainedBeforeKill'
      BY DEF Drained, Unwind, buildVars, hostVars, serverVars, reqVars, Types, Control,
         Draining, DrainedBeforeKill, BeforeServing, reqVars
<1>5. ValidStarts'
      BY DEF Drained, Unwind, buildVars, hostVars, serverVars, reqVars, ValidStarts
<1>6. Construction'
      BY DEF Drained, Unwind, buildVars, hostVars, serverVars, reqVars, Types, Control,
         Construction, ToRecord, Building
<1>7. Answering'
      BY DEF reqVars, Answering
<1> QED
      BY <1>1, <1>2, <1>3, <1>4, <1>5, <1>6, <1>7

LEMMA StepGraceExpires == IInv /\ GraceExpires => IInv'
<1> SUFFICES ASSUME IInv, GraceExpires PROVE IInv'
    OBVIOUS
<1>0. file' = file /\ reqVars' = reqVars
      BY DEF GraceExpires, Unwind, buildVars, hostVars, serverVars, reqVars
<1>a. file \in Files
      BY DEF IInv, Types
<1> USE ConfigFixed, SetsFixed, Plugins, GoOn, <1>0, <1>a DEF IInv
<1>1. Types'
      BY DEF GraceExpires, Unwind, buildVars, hostVars, serverVars, reqVars, Types, Building
<1>2. Control'
      BY DEF GraceExpires, Unwind, buildVars, hostVars, serverVars, reqVars, Types, Control,
         Building
<1>3. Tracked' /\ NoOrphans'
      BY DEF GraceExpires, Unwind, buildVars, hostVars, serverVars, reqVars, Types, Control,
         Tracked, NoOrphans, Building
<1>4. Draining' /\ DrainedBeforeKill'
      BY DEF GraceExpires, Unwind, buildVars, hostVars, serverVars, reqVars, Types, Control,
         Draining, DrainedBeforeKill, BeforeServing, reqVars
<1>5. ValidStarts'
      BY DEF GraceExpires, Unwind, buildVars, hostVars, serverVars, reqVars, ValidStarts
<1>6. Construction'
      BY DEF GraceExpires, Unwind, buildVars, hostVars, serverVars, reqVars, Types, Control,
         Construction, ToRecord, Building
<1>7. Answering'
      BY DEF reqVars, Answering
<1> QED
      BY <1>1, <1>2, <1>3, <1>4, <1>5, <1>6, <1>7

LEMMA StepKillNext == IInv /\ KillNext => IInv'
<1> SUFFICES ASSUME IInv, KillNext PROVE IInv'
    OBVIOUS
<1>0. file' = file /\ reqVars' = reqVars
      BY DEF KillNext, buildVars, hostVars, serverVars, reqVars
<1>a. file \in Files
      BY DEF IInv, Types
<1> USE ConfigFixed, SetsFixed, Plugins, GoOn, <1>0, <1>a DEF IInv
<1>1. Types'
  <2>1. procs[k] \in Plugin
        BY DEF KillNext, Types, Control
  <2>2. proc' \in [Plugin -> {"none", "running", "crashed", "killed"}]
        BY <2>1 DEF KillNext, Types
  <2>3. k' \in Nat
        BY DEF KillNext, Types
  <2> QED
        BY <2>2, <2>3 DEF KillNext, buildVars, serverVars, reqVars, Types
<1>2. Control'
      BY DEF KillNext, buildVars, hostVars, serverVars, reqVars, Types, Control, Building
<1>3. Tracked' /\ NoOrphans'
  <2>1. /\ pc = "deferred" /\ pc' = "deferred" /\ k' = k + 1 /\ exit' = exit /\ procs' = procs
        /\ proc' = [proc EXCEPT ![procs[k]] = "killed"]
        BY DEF KillNext
  <2>2. \A x \in DOMAIN procs : k <= x => x = k \/ k + 1 <= x
        BY DEF Types
  <2> QED
        BY <2>1, <2>2 DEF Types, Control, Tracked, NoOrphans
<1>4. Draining' /\ DrainedBeforeKill'
      BY DEF KillNext, buildVars, hostVars, serverVars, reqVars, Types, Control, Draining,
         DrainedBeforeKill, BeforeServing, reqVars
<1>5. ValidStarts'
      BY DEF KillNext, buildVars, hostVars, serverVars, reqVars, ValidStarts
<1>6. Construction'
      BY DEF KillNext, buildVars, hostVars, serverVars, reqVars, Types, Control, Construction,
         ToRecord, Building
<1>7. Answering'
      BY DEF reqVars, Answering
<1> QED
      BY <1>1, <1>2, <1>3, <1>4, <1>5, <1>6, <1>7

LEMMA StepRunReturns == IInv /\ RunReturns => IInv'
<1> SUFFICES ASSUME IInv, RunReturns PROVE IInv'
    OBVIOUS
<1>0. file' = file /\ reqVars' = reqVars
      BY DEF RunReturns, buildVars, hostVars, serverVars, reqVars
<1>a. file \in Files
      BY DEF IInv, Types
<1> USE ConfigFixed, SetsFixed, Plugins, GoOn, <1>0, <1>a DEF IInv
<1>1. Types'
      BY DEF RunReturns, buildVars, hostVars, serverVars, reqVars, Types, Building
<1>2. Control'
      BY DEF RunReturns, buildVars, hostVars, serverVars, reqVars, Types, Control, Building
<1>3. Tracked' /\ NoOrphans'
      BY DEF RunReturns, buildVars, hostVars, serverVars, reqVars, Types, Control, Tracked,
         NoOrphans, Building
<1>4. Draining' /\ DrainedBeforeKill'
      BY DEF RunReturns, buildVars, hostVars, serverVars, reqVars, Types, Control, Draining,
         DrainedBeforeKill, BeforeServing, reqVars
<1>5. ValidStarts'
      BY DEF RunReturns, buildVars, hostVars, serverVars, reqVars, ValidStarts
<1>6. Construction'
      BY DEF RunReturns, buildVars, hostVars, serverVars, reqVars, Types, Control, Construction,
         ToRecord, Building
<1>7. Answering'
      BY DEF reqVars, Answering
<1> QED
      BY <1>1, <1>2, <1>3, <1>4, <1>5, <1>6, <1>7

LEMMA StepSignal == IInv /\ Signal => IInv'
<1> SUFFICES ASSUME IInv, Signal PROVE IInv'
    OBVIOUS
<1>0. file' = file /\ reqVars' = reqVars
      BY DEF Signal, Alive, buildVars, hostVars, serverVars, reqVars
<1>a. file \in Files
      BY DEF IInv, Types
<1> USE ConfigFixed, SetsFixed, Plugins, GoOn, <1>0, <1>a DEF IInv
<1>1. Types'
      BY DEF Signal, Alive, buildVars, hostVars, serverVars, reqVars, Types, Building
<1>2. Control'
      BY DEF Signal, Alive, buildVars, hostVars, serverVars, reqVars, Types, Control, Building
<1>3. Tracked' /\ NoOrphans'
      BY DEF Signal, Alive, buildVars, hostVars, serverVars, reqVars, Types, Control, Tracked,
         NoOrphans, Building
<1>4. Draining' /\ DrainedBeforeKill'
      BY DEF Signal, Alive, buildVars, hostVars, serverVars, reqVars, Types, Control, Draining,
         DrainedBeforeKill, BeforeServing, reqVars
<1>5. ValidStarts'
      BY DEF Signal, Alive, buildVars, hostVars, serverVars, reqVars, ValidStarts
<1>6. Construction'
      BY DEF Signal, Alive, buildVars, hostVars, serverVars, reqVars, Types, Control,
         Construction, ToRecord, Building
<1>7. Answering'
      BY DEF reqVars, Answering
<1> QED
      BY <1>1, <1>2, <1>3, <1>4, <1>5, <1>6, <1>7

(* A plugin that crashes stays recorded.                                   *)
LEMMA StepCrash == ASSUME IInv, NEW p \in Plugin, Crash(p) PROVE IInv'
<1>0. file' = file /\ reqVars' = reqVars /\ procs' = procs
      BY DEF Crash, buildVars
<1>a. file \in Files
      BY DEF IInv, Types
<1> USE ConfigFixed, SetsFixed, Plugins, <1>0, <1>a DEF IInv
<1>1. Types'
      BY DEF Crash, buildVars, serverVars, reqVars, Types
<1>2. Control' /\ ValidStarts'
      BY DEF Crash, buildVars, Types, Control, ValidStarts
<1>3. Tracked' /\ NoOrphans'
      BY DEF Crash, Types, Control, Tracked, NoOrphans
<1>4. Draining' /\ DrainedBeforeKill'
      BY DEF Crash, serverVars, reqVars, Types, Draining, DrainedBeforeKill
<1>5. Construction'
      BY DEF Crash, buildVars, Types, Construction, ToRecord
<1>6. Answering'
      BY DEF reqVars, Answering
<1> QED
      BY <1>1, <1>2, <1>3, <1>4, <1>5, <1>6

(* handleHTTP touches nothing of run, and run nothing of handleHTTP.       *)
LEMMA StepRequest == ASSUME IInv, NEW r \in Request, Begin(r) \/ HandleHTTP(r) PROVE IInv'
<1> USE DEF IInv
<1>0. mainVars' = mainVars /\ exit = "no"
      BY DEF Begin, HandleHTTP, RequestFails, ReadRequest, ProcessRequest, DoBuffered,
         DoStreamed,
             PipeScan, PipeReturns, ReadResponse, ResponseFails, ProcessResponse, At, Alive
<1>1. /\ file' = file /\ pc' = pc /\ k' = k /\ scanners' = scanners /\ cause' = cause /\ proc' = proc
      /\ procs' = procs /\ serve' = serve /\ graceOver' = graceOver /\ exit' = exit
      BY <1>0 DEF mainVars, buildVars, hostVars, serverVars
<1>2. /\ handler' \in [Request -> HandlerPlaces] /\ replies' \in [Request -> Nat]
      /\ respBody' \in [Request -> BOOLEAN] /\ starved' \subseteq Request
  <2>1. handler' \in [Request -> HandlerPlaces]
        BY DEF Begin, HandleHTTP, RequestFails, ReadRequest, ProcessRequest, DoBuffered,
           DoStreamed,
               PipeScan, PipeReturns, ReadResponse, ResponseFails, ProcessResponse, Go, Finish,
               Types, HandlerPlaces
  <2>2. replies' \in [Request -> Nat]
        BY DEF Begin, HandleHTTP, RequestFails, ReadRequest, ProcessRequest, DoBuffered,
           DoStreamed,
               PipeScan, PipeReturns, ReadResponse, ResponseFails, ProcessResponse, Reply, Types
  <2>3. respBody' \in [Request -> BOOLEAN]
        BY DEF Begin, HandleHTTP, RequestFails, ReadRequest, ProcessRequest, DoBuffered,
           DoStreamed,
               PipeScan, PipeReturns, ReadResponse, ResponseFails, ProcessResponse, Finish, Types
  <2>4. starved' \subseteq Request
        BY DEF Begin, HandleHTTP, RequestFails, ReadRequest, ProcessRequest, DoBuffered,
           DoStreamed,
               PipeScan, PipeReturns, ReadResponse, ResponseFails, ProcessResponse, Scanned, Types
  <2> QED
        BY <2>1, <2>2, <2>3, <2>4
<1>3. Types' /\ Control' /\ Tracked' /\ NoOrphans' /\ ValidStarts'
      BY ZenonT(30), <1>1, <1>2, ConfigFixed DEF Types, Control, Tracked, NoOrphans, ValidStarts
<1>4. Construction'
      BY <1>1, ConfigFixed, SetsFixed DEF Construction, ToRecord
<1>5. Answering'
      BY DEF Begin, HandleHTTP, RequestFails, ReadRequest, ProcessRequest, DoBuffered,
         DoStreamed,
             PipeScan, PipeReturns, ReadResponse, ResponseFails, ProcessResponse, At, Go, Reply,
             Finish, Types, HandlerPlaces, Answering
<1>6. /\ serve # "off"
      /\ \A q \in Request \ {r} : handler'[q] = handler[q]
      /\ handler[r] # "none" \/ r \notin Plain \/ serve \in {"serving", "failed"} \/ pc = "shutdown"
      /\ handler[r] # "done"
  <2>1. serve # "off"
        BY DEF Begin, HandleHTTP, RequestFails, ReadRequest, ProcessRequest, DoBuffered,
           DoStreamed,
               PipeScan, PipeReturns, ReadResponse, ResponseFails, ProcessResponse, At, Draining, Control
  <2>2. \A q \in Request \ {r} : handler'[q] = handler[q]
        BY DEF Begin, HandleHTTP, RequestFails, ReadRequest, ProcessRequest, DoBuffered,
           DoStreamed,
               PipeScan, PipeReturns, ReadResponse, ResponseFails, ProcessResponse, Go, Finish, Types
  <2>3. handler[r] # "none" \/ r \notin Plain \/ serve \in {"serving", "failed"} \/ pc = "shutdown"
        BY ProcessAssumption DEF Begin, HandleHTTP, RequestFails, ReadRequest, ProcessRequest,
           DoBuffered, DoStreamed,
               PipeScan, PipeReturns, ReadResponse, ResponseFails, ProcessResponse, At
  <2>4. handler[r] # "done"
        BY DEF Begin, HandleHTTP, RequestFails, ReadRequest, ProcessRequest, DoBuffered,
           DoStreamed,
               PipeScan, PipeReturns, ReadResponse, ResponseFails, ProcessResponse, At
  <2> QED
        BY <2>1, <2>2, <2>3, <2>4
<1>7. \/ starved' = starved
      \/ /\ starved' = starved \cup {r} /\ handler[r] # "none"
         /\ \E p \in Plugin : proc[p] = "killed"
      BY DEF Begin, HandleHTTP, RequestFails, ReadRequest, ProcessRequest, DoBuffered,
         DoStreamed,
             PipeScan, PipeReturns, ReadResponse, ResponseFails, ProcessResponse, At, Scanned
<1>8. pc = "deferred" /\ ~graceOver /\ serve # "failed" => r \notin Plain
      BY <1>6 DEF Draining, Busy
<1>9. Draining'
  <2>1. pc = "deferred" /\ ~graceOver /\ serve # "failed" => Busy' = {}
        BY <1>6, <1>8 DEF Draining, Busy, Request
  <2> QED
        BY <1>1, <1>6, <1>7, <2>1, ConfigFixed DEF Draining
<1>10. DrainedBeforeKill'
  <2>1. CASE starved' = starved
        BY <1>1, <2>1 DEF DrainedBeforeKill
  <2>2. CASE starved' # starved
    <3>1. pc = "deferred"
          BY <1>0, <1>7, <2>2 DEF Draining, Control
    <3> QED
          BY <1>1, <1>7, <1>8, <2>2, <3>1 DEF DrainedBeforeKill
  <2> QED
        BY <2>1, <2>2
<1> QED
      BY <1>3, <1>4, <1>5, <1>9, <1>10

LEMMA InitEstablishes == Init => IInv
<1> SUFFICES ASSUME Init PROVE IInv
    OBVIOUS
<1>1. file \in Files
      BY DEF Init
<1>2. Types
      BY <1>1, Plugins DEF Init, Types, HandlerPlaces, Building
<1>3. Control /\ Tracked /\ NoOrphans /\ Draining /\ DrainedBeforeKill /\ Answering /\ ValidStarts
      BY DEF Init, Control, Tracked, NoOrphans, Draining, DrainedBeforeKill, Answering,
         ValidStarts,
             Building, BeforeServing
<1>4. Construction
      BY DEF Init, Construction, Building
<1> QED
      BY <1>2, <1>3, <1>4 DEF IInv

LEMMA StutterKeeps == IInv /\ UNCHANGED vars => IInv'
<1> SUFFICES ASSUME IInv, UNCHANGED vars PROVE IInv'
    OBVIOUS
<1>1. /\ mainVars' = mainVars /\ reqVars' = reqVars /\ procs' = procs /\ file' = file
      BY DEF vars, mainVars, buildVars, hostVars
<1> USE <1>1, ConfigFixed, SetsFixed DEF IInv, mainVars, reqVars, buildVars, hostVars, serverVars
<1>2. Types' /\ Control' /\ Tracked' /\ NoOrphans'
      BY DEF Types, Control, Tracked, NoOrphans
<1>3. Draining' /\ DrainedBeforeKill' /\ Answering' /\ ValidStarts'
      BY DEF Draining, DrainedBeforeKill, Answering, ValidStarts
<1>4. Construction'
      BY DEF Construction, ToRecord
<1> QED
      BY <1>2, <1>3, <1>4

LEMMA StepPreserves == IInv /\ [Next]_vars => IInv'
BY StepLoad, StepbuildLogger, StepSkipScanner, StepBuiltInScanner, StepUnknownScanner,
   StepLoadScanner,
   StepScannersBuilt, StepLoadRedactor, StepbuildRedactor, StepConnectFails, StepConnect, StepInfo,
   StepbuildCertStore, StepCertStoreFails, StepListen, StepListenFails, StepServeFails, StepSelectError,
   StepSelectDone, StepDrained, StepGraceExpires, StepKillNext, StepRunReturns, StepSignal, StepCrash,
   StepRequest, StutterKeeps
   DEF Next, Main, buildScanners, Done

LEMMA Invariance == Spec => []IInv
BY InitEstablishes, StepPreserves, PTL DEF Spec

(* However run returns, Host.Shutdown or the failed dispense has killed    *)
(* every plugin process it started, for any list of scanners.              *)
THEOREM PluginsKilled == Spec => []NoOrphans
<1>1. IInv => NoOrphans
      BY DEF IInv
<1> QED
      BY <1>1, Invariance, PTL

(* Start drains the tracked requests before the deferred Host.Shutdown: no *)
(* plain request is scanned without its plugins unless the grace period    *)
(* ran out or Serve had failed, for any number of requests and plugins.    *)
THEOREM DrainsFirst == Spec => []DrainedBeforeKill
<1>1. IInv => DrainedBeforeKill
      BY DEF IInv
<1> QED
      BY <1>1, Invariance, PTL

(* handleHTTP writes one status line on each of its paths and closes the   *)
(* upstream body before it returns.                                        *)
THEOREM OneAnswer == Spec => []AnsweredOnce
<1>1. IInv => AnsweredOnce
      BY SMTT(30) DEF IInv, Types, Answering, AnsweredOnce
<1> QED
      BY <1>1, Invariance, PTL

(* A configuration that Validate accepts, and the default one, never fails *)
(* in a builder for a reason Validate is there to exclude.                 *)
THEOREM AcceptedStarts == Spec => []ValidStarts
<1>1. IInv => ValidStarts
      BY DEF IInv
<1> QED
      BY <1>1, Invariance, PTL

(* The proxy serves with the scanners that the configuration enables, in   *)
(* its order, and with exactly the plugins it names recorded and not yet   *)
(* killed, for every list of scanner entries.                              *)
THEOREM ServesConfigured == Spec => []ServesAsConfigured
<1>1. ASSUME IInv PROVE ServesAsConfigured
  <2>1. pc \in {"select", "shutdown"} => ToRecord = External \cup RedactorPlugin
        BY DEF ToRecord
  <2>2. \A p : p \in Recorded <=> \E x \in DOMAIN procs : procs[x] = p
        BY DEF Recorded
  <2> QED
        BY <1>1, <2>1, <2>2 DEF IInv, Construction, Building, ServesAsConfigured, Recorded,
           RedactorPlugin
<1> QED
      BY <1>1, Invariance, PTL
=============================================================================
