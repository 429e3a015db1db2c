----------------------------- MODULE MCPipeline -----------------------------
(***************************************************************************)
(* Pipeline with two built-in scanners and a plugin on a body of six bytes *)
(* with three views: a decoded one, where three body bytes became one, a   *)
(* stitched one, and one from which everything was stripped.  What the     *)
(* plugin reports ranges over invalid, nested, chained, adjacent and       *)
(* repeated findings, up to the largest offset that fits the wire.         *)
(***************************************************************************)
EXTENDS Pipeline

F(t, a, b) == [Type |-> t, Start |-> a, End |-> b]
Ok(fs) == [findings |-> fs, err |-> FALSE]
Failed(fs) == [findings |-> fs, err |-> TRUE]

MCOrigIdx(v) ==
    CASE v = 1 -> <<0, 1, 4, 5, 6>>
      [] v = 2 -> <<0, 2, 4, 6>>
      [] v = 3 -> <<6>>

\* Lists of up to two findings with offsets on both sides of the body's ends.
Offsets == {-1, 0, 2, 4, 6, 7}
PluginFindings == [Type : {"name"}, Start : Offsets, End : Offsets]
PluginLists == {<<f, g>> : f \in {F("name", 2, 4), F("name", 0, 6)}, g \in PluginFindings}

MCReports(s, v) ==
    CASE s = 1 /\ v = 0 -> {Ok(<<F("email", 0, 2)>>), Failed(<<>>)}
      [] s = 1 /\ v = 1 -> {Ok(<<F("email", 0, 3), F("key", 1, 2)>>)}
      [] s = 1 /\ v = 2 -> {Ok(<<F("key", 0, 1)>>), Ok(<<F("key", 2, 9), F("email", -1, 1)>>)}
      [] s = 2 /\ v = 0 -> {Ok(<<F("key", 3, 5)>>), Failed(<<F("key", 4, 5)>>), Ok(<<>>)}
      [] s = 2 /\ v = 1 -> {Ok(<<F("key", 2, 4)>>), Failed(<<>>)}
      [] s = 2 /\ v = 2 -> {Ok(<<F("email", 1, 3)>>)}
      [] OTHER          -> {Ok(fs) : fs \in PluginLists} \cup {Failed(<<F("name", 1, 3)>>)}

ASSUME FitAssumption == OffsetsFit

=============================================================================
