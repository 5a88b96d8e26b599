---------------------------- MODULE MCBenchPoll -----------------------------
(* bench_poll on small instances; the .cfg files give the constants.        *)
EXTENDS BenchPoll
=============================================================================
