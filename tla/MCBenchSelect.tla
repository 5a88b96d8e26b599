--------------------------- MODULE MCBenchSelect ----------------------------
(* bench_select on small instances; the .cfg files give the constants.      *)
EXTENDS BenchSelect
=============================================================================
