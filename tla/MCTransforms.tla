---------------------------- MODULE MCTransforms ----------------------------
(***************************************************************************)
(* Every short body over the alphabet of each transform; for base64, runs  *)
(* of up to nine characters with padding, alone and between other bytes.   *)
(***************************************************************************)
EXTENDS Transforms

UpTo(len, S) == UNION {[1..k -> S] : k \in 0..len}

Runs == {Copies(k, "b") \o Copies(p, "=") : k \in {3, 4, 6, 7, 8, 9}, p \in 0..3}

MCBodies(k) ==
    CASE k = "url"     -> UpTo(6, {"%", "h", "x"})
      [] k = "nfkc"    -> UpTo(5, {"a", "c", "n", "w", "l"})
      [] k = "base64"  -> UpTo(4, {"b", "=", "x"}) \cup
                          {<<"x">> \o r \o t : r \in Runs, t \in {<<>>, <<"x">>} \cup {<<"x">> \o q : q \in Runs}}
      [] k = "comment" -> UpTo(7, {"/", "*", "x"})
      [] OTHER         -> UpTo(6, {"l", "d", "s", "x"})
=============================================================================
