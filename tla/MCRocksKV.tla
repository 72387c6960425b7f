------------------------------ MODULE MCRocksKV ------------------------------
(* RocksKV with byte strings over {0, 1}: three keys, two of them under the*)
(* prefix <<0>>, and every string of length up to 2 as a probe, so seeks  *)
(* and bounds fall below, on, between and above the keys.                 *)
EXTENDS RocksKV

MCKeys == {<<0>>, <<0, 1>>, <<1>>}
MCProbes == UNION {[1..n -> {0, 1}] : n \in 0..2}
=============================================================================
