# tg-proxy in TLA+

tg-proxy is an explicit HTTP(S) proxy that scans request and response bodies
for secrets and personal data and rewrites what it finds before passing it on.
This directory holds TLA+ models of its core, the TLC runs that check them and
TLAPS proofs of the main results. `PROJECT.json` lists runs, mutants, the map
from definitions to source lines, findings, hazards and theorems.

## Inventory of the system

| component | state it keeps | operations | interacts with |
|---|---|---|---|
| stream processor (`internal/pipeline/stream.go`) | working buffer, chunk, capacity of the buffer | `Pipe`, `flushPrefix`, `flushFinal`, `applyRedactor` | reads the upstream body, calls `ScanWith` and `Redact`, writes and flushes the client's response |
| pipeline (`internal/pipeline/pipeline.go`) | scanner list, transform-aware sublist, redactor; per call: results slice, findings, joined error | `New`, `Scan`, `transformedPass`, `mergeNew`, `ScanWith`, `Process` | one goroutine per scanner and pass; called by the handler once per buffered body |
| body transforms (`decode.go`, `normalize.go`, `base64.go`, `comment_strip.go`, `stitch.go`) | none; each returns a view and its table of offsets | `urlDecode`, `nfkcNormalize`, `base64Decode`, `sqliCommentStrip`, `whitespaceStitch`, `digitStitch` | called by `transformedPass` |
| mask redactor (`internal/redactor/mask`) | placeholder | `Redact` | called by `Process` and `applyRedactor` |
| built-in scanners (`internal/scanner/*`) | compiled rules | `Scan` | called concurrently by `ScanWith` |
| leaf store (`internal/ca/store.go`) | LRU: map, list, capacity; root and leaf key | `LeafFor`, `cacheGet`, `signLeaf`, `cachePut` | called by every MITM handshake, concurrently |
| root CA files (`internal/ca/ca.go`), installers, `tg-proxy ca` | two files on disk; the system trust store | `NewRoot`, `SaveRoot`, `LoadRoot`, `Install`, `Uninstall` | read at startup |
| proxy server (`internal/proxy/proxy.go`) | http.Server, upstream client, options | `Start`, `ServeHTTP`, `handleHTTP`, `streamResponse`, `handleConnect` | one goroutine per client connection |
| TLS interception (`internal/proxy/mitm.go`) | hijacked connection, single-connection listener, inner http.Server | `handleMITMConnect`, `Accept`, `Close` | leaf store, `handleHTTP` |
| plugin host (`internal/plugin/host.go`), SDK (`pkg/plugin`) | list of plugin processes | `LoadScanner`, `LoadRedactor`, `dispense`, `Shutdown` | plugins are scanners and redactors behind gRPC |
| configuration and startup (`internal/config`, `cmd/tg-proxy/main.go`) | configuration record | `Load`, `Validate`, `run`, `build*` | wires everything together |

What is hard about it: the streaming path must give the result of redacting the
whole body although it never holds the whole body, for every way the network
cuts it up; scanners run concurrently, may fail one by one and, as plugins, may
report any offsets; handshakes share one bounded cache; shutdown overlaps
connections that the HTTP server no longer tracks.

What makes each part correct:

* stream processor: every byte is delivered once and in order; slices stay in
  bounds; a window is held back; no match is cut; the output does not depend on
  chunking; memory is bounded; a stream comes to its end.
* pipeline: all scanners are heard; no finding and no error is lost; the result
  does not depend on the order in which goroutines return.
* mask redactor: the output is the data with each chain of overlapping findings
  replaced by one placeholder; what any scanner found is not in it.
* built-in scanners: what they report of a buffer is what they would report of
  the whole body there, as far as the buffer shows it.
* plugin wire: a finding arrives as it was sent; an error is never lost.
* body transforms: a finding in a view maps back to the bytes it was made from;
  only what a transform means to drop is dropped; pre-checks skip nothing.
* leaf store: map and list agree and respect the bound; the right host's
  certificate is returned; eviction is least recently used.
* root CA: certificate and key belong together; nothing is overwritten unasked;
  an uninstalled root is not trusted.
* CONNECT: no connection leaks, no direction is cut, the handler returns.
* configuration: what is accepted can be built, and what is built is what was
  configured.
* process: plugins end with it and not before the requests that need them;
  every request is answered once; a signal ends it.

## Modules

| module | role |
|---|---|
| `StreamProcessor` | one call of `Pipe`, for any scanner |
| `RedactedCopy` | abstract specification: copy a stream, deciding each byte's fate once, from the whole body |
| `StreamGuarantee` | `StreamProcessor` with scanners that report exactly the matches they see whole; refinement of `RedactedCopy` |
| `Scanners` | the four built-in scanners: matching, anchors, entropy, key context, Luhn |
| `MCStreamAnyScanner`, `MCStreamGuarantee`, `MCStreamKeyContext`, `MCStreamDocs` | instances for TLC; the second and the third run `Pipe` on `Scanners` |
| `StreamProcessorProofs`, `StreamGuaranteeProofs` | theorems about the two stream specifications |
| `MaskRedactor` | the filter, sort, merge and copy loops of `Redact` |
| `PluginWire` | what a scanner's and a redactor's call go through when they are plugins |
| `Pipeline`, `MCPipeline` | one call of `Process`: fan-out, views, merging, and the redaction by `MaskRedactor` (instantiated) or a plugin |
| `PipelineProofs` | theorems about `Pipeline` and, inside it, `MaskRedactor` and `PluginWire` |
| `Transforms`, `MCTransforms`, `TransformsProofs` | the six views of a body and their offset tables |
| `LeafStore`, `MCLeafStore`, `LeafStoreProofs` | concurrent `LeafFor` calls on the LRU |
| `RootCA`, `MCRootCA`, `RootCAProofs` | `ca generate`, `install`, `uninstall` and the loading proxy on shared files |
| `Connect`, `MCConnect`, `ConnectProofs` | one CONNECT: tunnel or interception, with its goroutines and peers |
| `Config` | the configuration: defaults, decoding over them, `Validate` |
| `Lifecycle`, `MCLifecycle`, `LifecycleProofs` | `run` from start to exit: configuration, builders, plugin host, server, and `handleHTTP` per request |

### Correspondence

`StreamProcessor`. A byte is its offset in the stream, so `buf` is the interval
`base..got-1`, and the client's view is two sets of offsets, `raw` and `masked`.
`pc` follows the code: `read` (context check and `src.Read`), `scan`, `pull`
(one step per iteration of the loop that moves the boundary), `emit`, `flush`,
`check` (the error of `Read`), `final`, `finalEmit`, `done`. `spare` is
`len(buf) < cap(buf)`: `append` may leave either, `make` leaves none. Findings
keep the code's buffer-relative offsets. The scanners are the operator
`Scans(lo, hi)`, a set of finding lists about which only the type is assumed.
`Covered` is the set of bytes the mask redactor hides; `MaskRedactor` has the
real loops.

`Scanners`. A body is a sequence of symbols, one per byte; a key label is one
symbol. A detector is a sequence of classes with bounds, an anchor on each side
and the checks it asks for; `FindAllIndex` gives the leftmost greedy matches.
Only the data a scanner is given exists for it, so the ends of a buffer are word
boundaries and line ends, and nothing precedes offset 0, as in Go. The entropy
rule is stated without logarithms. The tables have one detector for each shape of
pattern, anchor and check in the code's tables, with the lengths scaled down.

`Pipeline`. `results` and `running` are the slice and the wait group of the
current `ScanWith`; a goroutine's return is one step. `active` is the set of
views whose pre-check fires and whose transform changes the bytes, chosen at the
start. A transform is its table `OrigIdx(v)`. A plugin's answer goes through
`PluginWire`, where offsets wrap around at `OffsetLimit`, or the call fails. After the
scan the variables `step` to `out` are the locals of `mask.Redact`, run by the
actions of `MaskRedactor`; a plugin redactor masks what arrives on its side of
the wire, or fails. `reported` is a history variable.

`MaskRedactor`. The data is its offsets; the output a sequence of offsets and
placeholders. The filter looks at one finding per step. `sort.Slice` is an insertion per step at any place the code's
comparison allows, so that equal ranges end up in either order.

`Transforms`. A body is a sequence of byte classes (what the walks tell apart),
a view the length of its output and its table. Each walk consumes one unit per
step: an escape or a byte, a rune, a base64 candidate, a comment; in a region to
stitch one byte. `findStitchableRegions` runs first, a byte per step. The
regular expressions are given by what they match, NFKC by the length of what it
produces.

`LeafStore`. `cacheGet` and `cachePut` hold the mutex and are single steps;
signing is between them. `order` and `items` are the list and the map. `used`
is a history variable. There is no clock: the store never looks at `NotAfter`,
so a leaf that stays in the cache for longer than `leafValidity` is handed out
expired.

`RootCA`. A root is a number; a file holds a root's part, or is absent, or torn.
`os.WriteFile` is two steps, truncating and writing; `LoadRoot` reads one file
per step. `Abandon` is every error return of `generate` and its being killed.
`since`, `alone`, `mixed`, `calm` and `removed` are history variables that say
what a process could have seen. `LoadRoot` does not compare certificate and key:
outside the premise of `PairMatches` the proxy does start with two halves.

`Connect`. Both handlers share their first steps; `certStore` says which one
runs. Per direction `sent` and `got` count bytes, `fin` and `eof` are the
half-closes of sender and receiver, and `splice` is the copying goroutine. The
inner server is its Accept loop (`serve`), one connection (`conn`) and the
`ConnState` hook on that connection's goroutine. Either peer may speak first:
what the server's reader takes from a client before `Hijack` (`buffered`) is lost,
because both handlers drop the buffered reader that `Hijack` returns.

`Config`. A configuration is a flat record; a file is the fields it sets, or
nothing that decodes (an empty file is an error: the decoder returns `io.EOF`). A
list of scanners replaces the default list as a whole, and an entry that does not
say `enabled` is disabled.

`Lifecycle`. `file` is the argument of `-config`, `cfg` what it loads to. `pc`
follows `run`, the builders, `dispense`, `Start` and `Host.Shutdown`;
`handler[r]` follows `handleHTTP`. A plugin is the index of its scanner entry, 0
for the redactor. The registries are two sets of names. A signal before
`NotifyContext` or after `stop` ends the process at once. A request on a hijacked
connection (one that came through `Connect`) is not tracked by `http.Server`:
`Shutdown` does not wait for it, and it is scanned without plugins until the
process ends. `cause`, `starved` and `graceOver` are history variables.

## Runs

| run | what it asks | bounds |
|---|---|---|
| `stream_any_scanner` | slices, delivery, window and completeness with scanners that may report anything | stream of a few windows, up to two findings per scan with offsets before, inside and past the buffer; reads of every size up to several windows, all failures |
| `stream_guarantee` | the streaming guarantee and the refinement, with the built-in scanners | a body of 26 bytes with seven disjoint matches up to the window of three in length, adjacent, open-ended and at both ends; two orders of the scanners, every chunking. TLC evaluates `HonestScanners`, the premise of the proofs, on `Scanners` for every buffer of that body |
| `pipeline` | waiting, merging, errors, independence of interleaving, what is found is hidden, the redactor's loops and slices, termination | two built-in scanners and a plugin; three views, of which one is empty; each scanner has several answers, failures included; the plugin's lists pair nested, chained, adjacent, repeated and invalid ranges on both sides of the body's ends; body of six bytes and offsets of four bits, the smallest width that holds them (TLC evaluates `OffsetsFit`, the hypothesis of three theorems); no redactor, the mask or a plugin |
| `transforms` | tables ordered and covering, nothing vanishes, pre-checks sound, regions maximal | every body of up to the length at which candidates, comments, regions and padding of each kind occur, per transform over its own alphabet |
| `leaf_store` | consistency, right host, LRU under concurrency | two calls at a time, three hosts (one spelled in two ways), capacity two: hit, double miss, replacement and eviction all happen |
| `root_ca` | no unasked overwrite, matching pair, uninstall | two generators, three roots (one cut short, one racing, one repairing), failures and kills at every step |
| `connect` | leaks, cut data, double close, termination | one CONNECT of either kind; up to three bytes in each direction, early ones included, and two inner requests; every failure |
| `lifecycle` | accepted configurations start and serve as configured, orphans, draining, one answer, a signal ends the process | the defaults, a file per check of `Load` and `Validate`, two that serve (two scanner plugins; a scanner and a redactor plugin with interception), two that fail after a plugin was started; two plain requests, an intercepted one; signals, crashes and failures at any moment |
| `stream_splits_finding`, `stream_flush_skipped`, `stream_key_context`, `transforms_full_groups` | one statement of the code's own comments each, which the code does not keep | smallest instance that shows it; described under "findings" in `PROJECT.json` |

Further limits of the code that the models show when their premises are
dropped, without a run of their own:

* with matches longer than the window the working buffer of `Pipe` grows past
  `MaxBuffer` (stream.go:25 calls it a "hard ceiling");
* `mergeNew` drops a finding of a view that overlaps an earlier one of its type,
  however little;
* a client that sends ahead of the 200 loses those bytes, where proxy.go:43-44
  says that without a certificate store "CONNECT just tunnels bytes through
  unchanged" (`NothingCut` says exactly which bytes: without `buffered` it does
  not hold); an intercepted client that does so cannot shake hands;
* after a kill or a race in `SaveRoot` the proxy may load the certificate of one
  root with the key of another, because `LoadRoot` does not compare them
  (`PairMatches` speaks of undisturbed saves only);
* when `Pipe` fails in the middle of a response the handler logs the error and
  returns, so `net/http` ends a chunked response as if it were complete;
* `Validate` rejects `tls.mitm` without CA paths (config.go:185-189), so the
  fallback to `DefaultCAPaths` in `buildCertStore`, which config.example.yaml
  ("If empty, both paths resolve to os.UserConfigDir()/tg-proxy/ca.{crt,key}")
  and config.go:44 announce, is never reached;
* `leaf_cache_size: 0` is accepted and becomes 1024 in `buildCertStore`, where
  config.example.yaml says "0 disables caching";
* a scanner or redactor name that nobody registered passes `Validate` and fails
  startup only after plugins were started (they are killed: `NoOrphans`);
* `LoadRedactor` asks for an `Info` method with another result type than the
  client's, so a redactor plugin's own name is never fetched.

Fairness. `stream_guarantee` and `BackToRead` assume only that `Pipe` itself
keeps running between two Reads (weak fairness of `Step`): the goroutine is
runnable and the scanners return. Nothing is assumed of the upstream. `pipeline`
assumes that each scanner returns and that the goroutine of `Process` runs:
`wg.Wait` has no deadline of its own, so without the first there is no progress
to promise; a plugin that is gone answers with an error. `connect` assumes that the handler, the copies, the inner server and
its hook run and that the peers close in the end: no goroutine of the code has a
deadline for a peer that does not. `lifecycle` assumes only that the main
goroutine runs: the plugin handshake and `Shutdown` have timeouts. Of `Info`,
which `LoadScanner` calls without a deadline, and of requests, which may hang in
an upstream for ever, nothing is assumed. The other runs check
safety only.

## Proofs

`StreamProcessorProofs` proves, for every stream length, window, cap, chunk
size and scanner, the five invariants of `stream_any_scanner`. They are not
inductive: the inductive invariant adds, per phase, what is known of the
boundary (in `pull` it is at most `bufLen - Window`, and in `emit` positive as
well), that `base` marks exactly what was delivered, and what each result value
says of the last Read. Assumptions: `SizesAssumption` (types of the options)
and `ScansAssumption` (offsets are integers).

`StreamGuaranteeProofs` adds the assumptions that the scanners report exactly
the matches that lie in the window they are given and that matches are disjoint
and no longer than the window, and proves that no match is cut, that the output
is that of redacting the whole body, that the tail is below two windows and that
`Pipe` implements `RedactedCopy`. The argument: a straddling match is at most
`Window` long, so the boundary moves back by less than a window (`HonestShort`)
and, matches being disjoint, once (`CleanBoundary`); so no match ever crosses
`base`, every later scan sees every remaining match whole, and the forced flush
never applies (`NeverForced`).

`stream_splits_finding` shows that the assumption of disjoint matches is needed,
`stream_key_context` that the one of honest scanners is: a detector that looks at
bytes before its match is not honest, since a flush may take them away.
The case of an empty stream (`FinalEmpty`) is outside the runs' instances, which
all have bytes, and covered by the proofs.

`ConnectProofs` proves, for any number of bytes and inner requests, that both
connections are closed when the handler returns, that an undisturbed tunnel
delivers everything but what `Hijack` swallowed, and that the listener's channel
is closed once. The inductive invariant says at which steps of the handler a
connection can be open (`Stage`), what the inner server's loop, its connection
and the Once of the listener know of each other (`Listener`), and per direction
that no more arrives than was sent and that a copy ends only behind the sender's
half-close and last byte (`Tunnel`).

`LifecycleProofs` proves, for every configuration file, list of scanners and
number of requests, that started plugins are killed before `run` returns, that
tracked requests are drained first, that each request is answered once, that what
`Validate` accepts is not refused by a builder for a reason it checks, and that
the proxy serves with what was configured. The inductive invariant follows the
builders entry by entry: the scanners built so far are those of the enabled
entries seen so far. `EnabledScanners` is a loop, written as a recursive function;
what it computes is proved by induction over its index. The library's induction
rules take an operator, which the provers cannot instantiate, so the proofs go
through sets instead: the set of indices where the claim fails would have a least
element (`WFMin` with `NatLessThanWellFounded`), which the loop's step excludes.
`Tracked` says where `Host.Shutdown` will still find each running plugin,
`Draining` which steps leave no tracked request behind. Assumption:
`ProcessAssumption` (a file is missing, undecodable or sets fields, of which the
scanners are a list; plain and intercepted requests are different ones).

`RootCAProofs` proves, for any number of processes and roots, that `generate`
without `-force` overwrites nothing that was there when it looked, that a proxy
which loads after an undisturbed save holds a pair, and that an uninstalled root
is not trusted. The inductive invariant relates the history variables to the two
files: without `-force` a file that exists and that this process did not open was
opened by another one since the check (`Unforced`); a save with no other beside
it has written the certificate it holds, and once it is over the files are one
pair (`Alone`); a bundle is refreshed by an uninstall only after the file is gone,
and only an install under way brings a root back (`Removal`).

`LeafStoreProofs` proves types, the agreement of the LRU's map and list, the
right host and the eviction order, for any number of concurrent calls, hosts and
any capacity. The invariants support each other: the inductive one is their
conjunction with what `Filed` says of the map and of calls between signing and
`cachePut`, and with the history of uses naming no host twice.

`PipelineProofs` proves all invariants of `Pipeline` for any number of scanners
and views, any tables and any reports. The inductive invariant `IInv` has three
groups. `Control`, `History`, `Listened` and `Errors` follow the fan-out: who is
still running, that each scanner reports once in a pass, that all passes behind
the current one were heard in full, and that an error is in `scanErr` or in the
results still to be joined. `Filtering`, `Sorting`, `Merging` and `Copying` are
the loop invariants of `mask.Redact`: after the sort the list is ordered
and holds exactly the usable findings; the merged ranges are disjoint, ordered
and the chains of overlapping findings among those seen (`Chains`); the copy
stands where the reference's walk stands at the same offset. From the last,
`SlicesSafe` and the equality with `Reference` follow. `Kept` and `Fitting` then
follow each finding from the goroutine's return through join, mapping and
merging.
`Sequenced` relates the run to a sequential one: `Sequential` is a function of the
history of reports in which a pass without reports adds nothing, so between passes
the findings are simply its value, during a pass its value on the history before
that pass (`PassAdds` says what the pass adds), and each result is the answer of
its own scanner. Its loops are recursive functions; what they return is proved by
induction over sets, as in `LifecycleProofs`.
`AllHeard`, `ErrorsReach` and `SlicesSafe` need no hypothesis. `FindingsKept`,
`RedactionExact`, `FoundHidden` and `OrderIrrelevant` have one, `OffsetsFit`: raw
findings and tables have offsets that `int32` holds. That is so for bodies below
2 GiB; no code checks it, `FindingToProto` just converts, and past it a plugin's
finding arrives somewhere else.
Assumptions: `PipelineAssumption`, `ReportsAssumption` and `WireAssumption`
(types, and that plugins take no views).

`TransformsProofs` proves the five invariants of `Transforms` for every body,
every minimal run and length. The walks differ in the pieces they add, so the
inductive invariant speaks of pieces: `Table(o, f, lo, hi, G)` says that the
entries `o` and the sources `f` describe the bytes `lo..hi-1`, every one of which
is in a source or among the bytes `G` that may be left out, and that a source lies
between its own entry and the entry of the next unit. Two such pieces that meet
make one (`TableJoins`); a unit, copied bytes, a decoded candidate with or without
padding and a gap are each one. `Walking` says that the view so far is a piece
that ends at `pos`, and at the end one of the whole body. For the scan, `OpenAt`
describes the stretch that may still grow (where it began, that only eligible
bytes and joined spaces are in it, and that at least half of it is eligible) and
`ClosedAt` that none reaches `pos`. `ScanExact` adds that what ends before the
stretch has been decided (`Found`); it has one hypothesis, a ratio of at most 50:
a stretch has no two spaces in a row, so the gate at the code's 50 rejects none,
and a higher ratio would. Assumption: `LimitsAssumption` (the limits are positive,
bodies are finite).

Only model-checked: liveness (`BackToRead`, `ProcessReturns`, `HandlerReturns`,
`SignalEnds`), which is out of the prover's reach, and what `Scanners` computes,
which is recursive.

## Not modelled

* Regular expressions beyond the shapes in `Scanners` (alternation, optional
  groups, case folding) and the individual entries of the detector tables: data
  without state or control.
* Cryptography, gRPC and TLS themselves, the plugin library, header copying, log
  output: external, or without effect on what the models are about.
* Time: certificate expiry in the leaf store, read, write and idle deadlines.
  Where a timeout decides, it is a step that may happen.
* The macOS and Windows trust stores, which hand over to one system command.
* The Python SDK and plugin (other processes; to the proxy a scanner that may
  return any list or an error), packaging scripts and generated code.

See "components" in `PROJECT.json`.

## Plan

Done so far: the streaming path with its proofs and the built-in scanners under
it, the buffered path (pipeline, views, plugin wire, redactor) as one
composition, the certificate side (leaf store, root files), CONNECT, and the life
of the process from its configuration file on; proofs of the invariants of all of
these. Open: the built-in scanners, whose results only TLC compares with what the
stream's proofs assume of them.
