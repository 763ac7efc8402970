---------------------------- MODULE MCTsProvision ----------------------------
(* One run of the TypeScript tool with a chain of three forks.               *)
EXTENDS TsProvision

MCSeedSets == <<{"r1", "r2"}, {"o1"}, {}, {"l1"}>>
MCLocalKeys == {"r1"}
=============================================================================
