----------------------------- MODULE PluginWire -----------------------------
(***************************************************************************)
(* What a call to a plugin goes through (pkg/plugin): the request and the  *)
(* response are converted to protocol messages and back, on either side of *)
(* a gRPC call.  Only what the models tell apart is kept: a finding's type *)
(* and range, and whether there was an error.                              *)
(***************************************************************************)
EXTENDS Integers, Sequences

\* Start and End are int32 in plugin.proto: -OffsetLimit..OffsetLimit-1 with
\* OffsetLimit = 2^31.
CONSTANT OffsetLimit

ASSUME WireAssumption == OffsetLimit \in Nat \ {0}

\* Go's conversion of an int, which wraps around.
int32(x) == ((x + OffsetLimit) % (2 * OffsetLimit)) - OffsetLimit

FindingToProto(f) == [f EXCEPT !.Start = int32(f.Start), !.End = int32(f.End)]

FindingsToProto(fs) == [k \in DOMAIN fs |-> FindingToProto(fs[k])]

\* int32 to int: nothing changes.
FindingsFromProto(ps) == ps

-----------------------------------------------------------------------------
\* grpcScannerServer.Scan: an error is all that crosses, findings are dropped.
ServerScan(r) ==
    [findings |-> IF r.err THEN <<>> ELSE FindingsToProto(r.findings), err |-> r.err]

\* grpcScannerClient.Scan on the server's answer.
ClientScan(answer) ==
    [findings |-> IF answer.err THEN <<>> ELSE FindingsFromProto(answer.findings), err |-> answer.err]

\* grpcRedactorClient.Redact and grpcRedactorServer.Redact: what the plugin's
\* redactor is given.
ServerRedact(fs) == FindingsFromProto(FindingsToProto(fs))
=============================================================================
