----------------------------- MODULE Lifecycle -----------------------------
(***************************************************************************)
(* The life of the process: run in cmd/tg-proxy/main.go loads the          *)
(* configuration (module Config), builds scanners, redactor and            *)
(* certificate store, loading plugins through the host of                  *)
(* internal/plugin/host.go, starts the server of internal/proxy/proxy.go   *)
(* and, when Start returns, shuts the plugins down; meanwhile every        *)
(* request runs handleHTTP on a goroutine.                                 *)
(*                                                                         *)
(* A plain request's connection is tracked by http.Server.  An intercepted *)
(* one came through CONNECT: its connection is hijacked, so Shutdown       *)
(* neither waits for it nor closes it.                                     *)
(***************************************************************************)
EXTENDS Config

CONSTANTS
    Files,          \* what the -config flag may point at
    Plain,          \* requests on tracked connections
    Intercepted     \* requests on hijacked connections

IsList(s) == Len(s) \in Nat /\ DOMAIN s = 1..Len(s)

ASSUME ProcessAssumption ==
    /\ Plain \cap Intercepted = {}
    /\ \A f \in Files :
        \/ f \in {NoFile, BadFile}
        \/ /\ f.kind = "file"
           /\ "scanners" \in DOMAIN f.fields => IsList(f.fields["scanners"])

Request == Plain \cup Intercepted

VARIABLES
    file,           \* the -config flag
    pc,             \* where run stands
    k,              \* the scanner entry being built, 0 for the redactor; then
                    \* the entry of procs being killed
    scanners,       \* names of the scanners built so far
    certStore,      \* size of the leaf cache, 0 while there is no store
    proc,           \* per plugin its process: "none", "running", "crashed", "killed"
    procs,          \* Host.procs
    signalled,      \* SIGINT or SIGTERM arrived
    exit,           \* how the process ended: "no", "returned", "signal"
    cause,          \* why a builder refused to start
    serve,          \* the server: "off", "serving", "failed" (Serve returned an
                    \* error), "closed" (Shutdown was called)
    graceOver,      \* Shutdown gave up after its ten seconds
    handler,        \* per request: where handleHTTP stands
    replies,        \* per request: status lines written
    respBody,       \* per request: the upstream body is open
    starved         \* history: requests scanned after a plugin was killed

buildVars == <<file, scanners, certStore, cause>>
hostVars == <<proc, procs>>
serverVars == <<signalled, serve, graceOver>>
mainVars == <<buildVars, hostVars, serverVars, pc, k, exit>>
reqVars == <<handler, replies, respBody, starved>>
vars == <<mainVars, reqVars>>

cfg == loadConfig(file)

\* The plugins a configuration may name: its scanner entries, and the redactor.
Plugin == 0..Len(cfg.scanners)

Init ==
    /\ file \in Files
    /\ pc = "load"
    /\ k = 1
    /\ scanners = <<>>
    /\ certStore = 0
    /\ proc = [p \in Plugin |-> "none"]
    /\ procs = <<>>
    /\ signalled = FALSE
    /\ exit = "no"
    /\ cause = "none"
    /\ serve = "off"
    /\ graceOver = FALSE
    /\ handler = [r \in Request |-> "none"]
    /\ replies = [r \in Request |-> 0]
    /\ respBody = [r \in Request |-> FALSE]
    /\ starved = {}

Alive == exit = "no"

-----------------------------------------------------------------------------
(***************************************************************************)
(* run: the configuration and the logger.  Nothing is deferred yet.        *)
(***************************************************************************)
Refuse(why) == cause' = why /\ exit' = "returned" /\ pc' = "exited" /\ UNCHANGED k

Load ==
    /\ pc = "load"
    /\ IF Loads(file)
       THEN pc' = "logger" /\ UNCHANGED <<cause, exit, k>>
       ELSE Refuse("config")
    /\ UNCHANGED <<file, scanners, certStore, hostVars, serverVars, reqVars>>

\* buildLogger, and the deferred Host.Shutdown.
buildLogger ==
    /\ pc = "logger"
    /\ IF ParseLogLevel(cfg.level) = "invalid"
       THEN Refuse("level")
       ELSE pc' = "scanners" /\ UNCHANGED <<cause, exit, k>>
    /\ UNCHANGED <<file, scanners, certStore, hostVars, serverVars, reqVars>>

-----------------------------------------------------------------------------
(***************************************************************************)
(* buildScanners, buildRedactor and Host.dispense                          *)
(***************************************************************************)
\* run returns: the deferred stop gives signals their default action back,
\* then comes the deferred Host.Shutdown.
Unwind == pc' = "deferred" /\ k' = 1

Fail(why) == cause' = why /\ Unwind

\* The names the two registries are filled with.
RegisteredScanners == {"pii", "secrets", "sqli", "code"}
RegisteredRedactors == {"mask"}

entry == cfg.scanners[k]

MutTaken == TRUE
Taken == entry.enabled

AtEntry == pc = "scanners" /\ k <= Len(cfg.scanners)

SkipScanner ==
    /\ AtEntry /\ ~Taken
    /\ k' = k + 1
    /\ UNCHANGED <<pc, exit, buildVars, hostVars, serverVars, reqVars>>

BuiltInScanner ==
    /\ AtEntry /\ Taken /\ entry.command = "none" /\ entry.name \in RegisteredScanners
    /\ scanners' = Append(scanners, entry.name)
    /\ k' = k + 1
    /\ UNCHANGED <<pc, exit, file, certStore, cause, hostVars, serverVars, reqVars>>

UnknownScanner ==
    /\ AtEntry /\ Taken /\ entry.command = "none" /\ entry.name \notin RegisteredScanners
    /\ Fail("unregistered")
    /\ UNCHANGED <<exit, file, scanners, certStore, hostVars, serverVars, reqVars>>

\* dispense of plugin p up to the start of its process.
Dispense(p, command) ==
    /\ IF command = "empty"
       THEN Fail("command") /\ UNCHANGED proc
       ELSE /\ proc' = [proc EXCEPT ![p] = "running"]
            /\ pc' = "connect"
            /\ k' = p
            /\ UNCHANGED cause
    /\ UNCHANGED <<exit, file, scanners, certStore, procs, serverVars, reqVars>>

LoadScanner == AtEntry /\ Taken /\ entry.command # "none" /\ Dispense(k, entry.command)

\* client.Client fails or times out, or Dispense fails: client.Kill.
MutConnectFails ==
    /\ pc = "connect"
    /\ Fail("plugin")
    /\ UNCHANGED <<exit, file, scanners, certStore, hostVars, serverVars, reqVars>>

ConnectFails ==
    /\ pc = "connect"
    /\ proc' = [proc EXCEPT ![k] = "killed"]
    /\ Fail("plugin")
    /\ UNCHANGED <<exit, file, scanners, certStore, procs, serverVars, reqVars>>

\* The end of dispense; LoadScanner asks the plugin for its name, while the
\* assertion in front of that call in LoadRedactor never holds.
Connect ==
    /\ pc = "connect"
    /\ procs' = Append(procs, k)
    /\ pc' = IF k = 0 THEN "certs" ELSE "info"
    /\ UNCHANGED <<k, exit, buildVars, proc, serverVars, reqVars>>

\* Info returns, with or without an error.
Info ==
    /\ pc = "info"
    /\ scanners' = Append(scanners, entry.name)
    /\ k' = k + 1
    /\ pc' = "scanners"
    /\ UNCHANGED <<exit, file, certStore, cause, hostVars, serverVars, reqVars>>

ScannersBuilt ==
    /\ pc = "scanners" /\ k > Len(cfg.scanners)
    /\ IF scanners = <<>>
       THEN Fail("no scanners")
       ELSE pc' = "redactor" /\ UNCHANGED <<k, cause>>
    /\ UNCHANGED <<exit, file, scanners, certStore, hostVars, serverVars, reqVars>>

LoadRedactor == pc = "redactor" /\ cfg.redactorCommand # "none" /\ Dispense(0, cfg.redactorCommand)

buildRedactor ==
    /\ pc = "redactor" /\ cfg.redactorCommand = "none"
    /\ IF cfg.redactor \in RegisteredRedactors
       THEN pc' = "certs" /\ UNCHANGED <<k, cause>>
       ELSE Fail("unregistered")
    /\ UNCHANGED <<exit, file, scanners, certStore, hostVars, serverVars, reqVars>>

buildScanners == SkipScanner \/ BuiltInScanner \/ UnknownScanner \/ LoadScanner \/ ScannersBuilt

-----------------------------------------------------------------------------
\* buildCertStore, then proxy.New and signal.NotifyContext.
CacheSize == IF cfg.leafCacheSize <= 0 THEN 1024 ELSE cfg.leafCacheSize

buildCertStore ==
    /\ pc = "certs"
    /\ certStore' = IF cfg.mitm THEN CacheSize ELSE 0
    /\ pc' = "listen"
    /\ UNCHANGED <<k, exit, file, scanners, cause, hostVars, serverVars, reqVars>>

\* LoadRoot, or NewStore, returns an error.
CertStoreFails ==
    /\ pc = "certs" /\ cfg.mitm
    /\ Fail("root")
    /\ UNCHANGED <<exit, file, scanners, certStore, hostVars, serverVars, reqVars>>

-----------------------------------------------------------------------------
(***************************************************************************)
(* Server.Start                                                            *)
(***************************************************************************)
Listen ==
    /\ pc = "listen"
    /\ serve' = "serving"
    /\ pc' = "select"
    /\ UNCHANGED <<k, exit, buildVars, hostVars, signalled, graceOver, reqVars>>

\* The address cannot be bound.
ListenFails ==
    /\ pc = "listen"
    /\ Fail("listen")
    /\ UNCHANGED <<exit, file, scanners, certStore, hostVars, serverVars, reqVars>>

\* Serve returns an error other than ErrServerClosed and sends it to errCh.
ServeFails ==
    /\ Alive /\ serve = "serving"
    /\ serve' = "failed"
    /\ UNCHANGED <<pc, k, exit, buildVars, hostVars, signalled, graceOver, reqVars>>

SelectError ==
    /\ pc = "select" /\ serve = "failed"
    /\ Unwind
    /\ UNCHANGED <<exit, buildVars, hostVars, serverVars, reqVars>>

\* ctx.Done: http.Server.Shutdown closes the listener and idle connections.
MutSelectDone ==
    /\ pc = "select" /\ signalled
    /\ serve' = "closed"
    /\ Unwind
    /\ UNCHANGED <<exit, buildVars, hostVars, signalled, graceOver, reqVars>>

SelectDone ==
    /\ pc = "select" /\ signalled
    /\ serve' = "closed"
    /\ pc' = "shutdown"
    /\ UNCHANGED <<k, exit, buildVars, hostVars, signalled, graceOver, reqVars>>

Busy == {r \in Plain : handler[r] \notin {"none", "done"}}

Drained ==
    /\ pc = "shutdown" /\ Busy = {}
    /\ Unwind
    /\ UNCHANGED <<exit, buildVars, hostVars, serverVars, reqVars>>

\* The context of Shutdown expires.
MutGraceExpires == FALSE /\ UNCHANGED vars
GraceExpires ==
    /\ pc = "shutdown" /\ Busy # {}
    /\ graceOver' = TRUE
    /\ Unwind
    /\ UNCHANGED <<exit, buildVars, hostVars, signalled, serve, reqVars>>

-----------------------------------------------------------------------------
(***************************************************************************)
(* Host.Shutdown, the end of run, and what may happen to a process         *)
(***************************************************************************)
KillNext ==
    /\ pc = "deferred" /\ k <= Len(procs)
    /\ proc' = [proc EXCEPT ![procs[k]] = "killed"]
    /\ k' = k + 1
    /\ UNCHANGED <<pc, exit, buildVars, procs, serverVars, reqVars>>

RunReturns ==
    /\ pc = "deferred" /\ k > Len(procs)
    /\ procs' = <<>>
    /\ exit' = "returned"
    /\ pc' = "exited"
    /\ UNCHANGED <<k, buildVars, proc, serverVars, reqVars>>

\* Outside NotifyContext and stop a signal ends the process on the spot.
Signal ==
    /\ Alive
    /\ signalled' = TRUE
    /\ IF pc \in {"listen", "select", "shutdown"}
       THEN UNCHANGED <<exit, pc>>
       ELSE exit' = "signal" /\ pc' = "exited"
    /\ UNCHANGED <<k, buildVars, hostVars, serve, graceOver, reqVars>>

Crash(p) ==
    /\ proc[p] = "running"
    /\ proc' = [proc EXCEPT ![p] = "crashed"]
    /\ UNCHANGED <<pc, k, exit, buildVars, procs, serverVars, reqVars>>

-----------------------------------------------------------------------------
(***************************************************************************)
(* handleHTTP.  Process and Pipe call every plugin; a plugin that is gone  *)
(* is an error, which is logged while the request goes on.                 *)
(***************************************************************************)
At(r, place) == Alive /\ handler[r] = place

Go(r, place) == handler' = [handler EXCEPT ![r] = place]

Reply(r) == replies' = [replies EXCEPT ![r] = @ + 1]

\* The handler returns; the deferred resp.Body.Close.
Finish(r) == Go(r, "done") /\ respBody' = [respBody EXCEPT ![r] = FALSE]

Scanned(r) ==
    starved' = IF \E p \in Plugin : proc[p] = "killed" THEN starved \cup {r} ELSE starved

\* A tracked connection that is open may send a request after Serve failed,
\* and a new one while Shutdown waits.
Begin(r) ==
    /\ At(r, "none")
    /\ \/ r \in Plain /\ (serve \in {"serving", "failed"} \/ pc = "shutdown")
       \/ r \in Intercepted /\ serve # "off" /\ certStore > 0
    /\ Go(r, "read")
    /\ UNCHANGED <<mainVars, replies, respBody, starved>>

\* A URL that is not absolute (400), a body over the limit (413) or that
\* cannot be read, an upstream that cannot be reached (502).
RequestFails(r) ==
    /\ At(r, "read") \/ At(r, "do")
    /\ Reply(r)
    /\ Finish(r)
    /\ UNCHANGED <<mainVars, starved>>

ReadRequest(r) ==
    /\ At(r, "read")
    /\ Go(r, "process")
    /\ UNCHANGED <<mainVars, replies, respBody, starved>>

ProcessRequest(r) ==
    /\ At(r, "process")
    /\ Scanned(r)
    /\ Go(r, "do")
    /\ UNCHANGED <<mainVars, replies, respBody>>

\* client.Do returns a response with a length: its body is read first.
DoBuffered(r) ==
    /\ At(r, "do")
    /\ respBody' = [respBody EXCEPT ![r] = TRUE]
    /\ Go(r, "readResponse")
    /\ UNCHANGED <<mainVars, replies, starved>>

\* isStreamableResponse: the header goes out before the body is read.
DoStreamed(r) ==
    /\ At(r, "do")
    /\ respBody' = [respBody EXCEPT ![r] = TRUE]
    /\ Reply(r)
    /\ Go(r, "pipe")
    /\ UNCHANGED <<mainVars, starved>>

\* One scan of Pipe.
PipeScan(r) == At(r, "pipe") /\ Scanned(r) /\ UNCHANGED <<mainVars, handler, replies, respBody>>

\* Pipe returns; its error is only logged, the status is out already.
MutPipeReturns(r) == At(r, "pipe") /\ Finish(r) /\ Reply(r) /\ UNCHANGED <<mainVars, starved>>
PipeReturns(r) == At(r, "pipe") /\ Finish(r) /\ UNCHANGED <<mainVars, replies, starved>>

ReadResponse(r) ==
    /\ At(r, "readResponse")
    /\ Go(r, "processResponse")
    /\ UNCHANGED <<mainVars, replies, respBody, starved>>

ResponseFails(r) ==
    /\ At(r, "readResponse")
    /\ Reply(r)
    /\ Finish(r)
    /\ UNCHANGED <<mainVars, starved>>

ProcessResponse(r) ==
    /\ At(r, "processResponse")
    /\ Scanned(r)
    /\ Reply(r)
    /\ Finish(r)
    /\ UNCHANGED mainVars

Main ==
    \/ Load \/ buildLogger \/ buildScanners \/ LoadRedactor \/ buildRedactor \/ ConnectFails \/ Connect
    \/ buildCertStore \/ CertStoreFails \/ Listen \/ ListenFails
    \/ SelectError \/ SelectDone \/ Drained \/ GraceExpires \/ KillNext \/ RunReturns

HandleHTTP(r) ==
    \/ RequestFails(r) \/ ReadRequest(r) \/ ProcessRequest(r) \/ DoBuffered(r) \/ DoStreamed(r)
    \/ PipeScan(r) \/ PipeReturns(r) \/ ReadResponse(r) \/ ResponseFails(r) \/ ProcessResponse(r)

Done == ~Alive /\ UNCHANGED vars

Next ==
    \/ Main \/ Info \/ ServeFails \/ Signal
    \/ \E p \in Plugin : Crash(p)
    \/ \E r \in Request : Begin(r) \/ HandleHTTP(r)
    \/ Done

\* The main goroutine runs, and the plugin handshake and Shutdown have
\* timeouts.  Info has none, and requests may hang in an upstream.
Spec == Init /\ [][Next]_vars /\ WF_vars(Main)

-----------------------------------------------------------------------------
(* When run returns, however it does, no plugin it started is running: a   *)
(* plugin that failed to connect is killed at once, the recorded ones by   *)
(* the deferred Host.Shutdown.                                             *)
NoOrphans == exit = "returned" => \A p \in Plugin : proc[p] # "running"

(* Start drains the tracked requests before the plugins are killed: a      *)
(* plain request is scanned without its plugins only after the grace       *)
(* period ran out, or where Serve failed and Shutdown was never called.    *)
DrainedBeforeKill == starved \cap Plain # {} => graceOver \/ serve = "failed"

(* A handler that has returned answered exactly once and closed the        *)
(* upstream body, whichever of its steps failed.                           *)
AnsweredOnce ==
    \A r \in Request :
        /\ replies[r] <= 1
        /\ handler[r] = "done" => replies[r] = 1 /\ ~respBody[r]

(* What Validate accepted, or the defaults, which nobody validates, the    *)
(* builders never refuse for a reason Validate is there to exclude; what   *)
(* is left is a name nobody registered and what lies outside the process.  *)
ValidStarts == cause \notin {"level", "command", "no scanners"}

External == {x \in 1..Len(cfg.scanners) : cfg.scanners[x].enabled /\ cfg.scanners[x].command # "none"}

(* Requests meet the scanners that the configuration enables, in its order *)
(* (the ones the log line of run names), and exactly the plugins it asks   *)
(* for were started and recorded, none of them killed yet.                 *)
ServesAsConfigured ==
    pc \in {"select", "shutdown"} =>
        /\ scanners = EnabledScanners(cfg)
        /\ {procs[x] : x \in DOMAIN procs} = External \cup {p \in {0} : cfg.redactorCommand # "none"}
        /\ \A p \in Plugin : (\E x \in DOMAIN procs : procs[x] = p) <=> proc[p] \in {"running", "crashed"}

(* A signal ends the process, even when a request hangs for ever.          *)
SignalEnds == signalled ~> (exit # "no")
=============================================================================
