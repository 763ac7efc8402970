------------------------------ MODULE MCWorkload ------------------------------
(* Two operations one after the other, each on a normal bucket and a fork.   *)
EXTENDS Workload

MCScenarios == <<"normal", "fork-depth-1">>

\* The Go tool takes negative values; zero iterations with a warm-up are left to
\* the run that shows what they do.
MCGoOptions == ({1, 2} \X {0, 2}) \union ({-1, 1} \X {-1}) \union ({-1} \X {0, 2}) \union {<<0, 0>>}
MCTsOptions == {0, 1, 2} \X {0, 2}
MCZeroIterations == {<<0, 2>>}
=============================================================================
