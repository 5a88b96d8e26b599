---------------------------- MODULE MCBenchEpoll ----------------------------
(* bench_epoll on small instances; the .cfg files give the constants.       *)
EXTENDS BenchEpoll
=============================================================================
