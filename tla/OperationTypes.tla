---------------------------- MODULE OperationTypes ----------------------------
(***************************************************************************)
(* gobench/types.go and src/types.ts: the operations, in the order that    *)
(* the defaults and Go's report take them.                                 *)
(***************************************************************************)
EXTENDS Sequences

OperationNames ==
  <<"head-shared", "get-shared", "get-local", "list-prefix",
    "put-new", "put-overwrite-seeded", "remove-seeded">>

OperationName == {OperationNames[i] : i \in DOMAIN OperationNames}
=============================================================================
