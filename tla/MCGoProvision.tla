---------------------------- MODULE MCGoProvision ----------------------------
(* One run of the Go tool: a chain of three forks, each made from the last,  *)
(* one key set of two keys, one of none, and one local key.                   *)
EXTENDS Provision, CleanupOrder

MCSeedSets == <<{"r1", "r2"}, {"o1"}, {}, {"l1"}>>
MCLocalKeys == {"r1"}
MCOnlyPreferredFork == {"createForkSnapshotEnabled"}
=============================================================================
