----------------------------- MODULE ObjectStore -----------------------------
(***************************************************************************)
(* The Tigris service, as far as the tool's calls rely on it: buckets,     *)
(* their objects, snapshots of a bucket and buckets forked from a snapshot.*)
(* It is no part of the repository; each operator is read off the way      *)
(* gobench/tigris.go and src/tigris.ts use the call and its reply.  Can... *)
(* says when the service accepts a call and Do... what the call does.      *)
(***************************************************************************)
EXTENDS Integers, Sequences

CONSTANT
  PinsParents     \* TRUE when a bucket with a live fork cannot be removed

VARIABLES
  live,           \* the buckets that exist
  snapEnabled,    \* the live buckets that were created snapshot-enabled
  parent,         \* parent[b]: the bucket b was forked from, or NoBucket
  objs,           \* objs[b]: the objects of bucket b, as <<key, body>>
  snaps           \* the snapshots taken; a version is an index into snaps

store == <<live, snapEnabled, parent, objs, snaps>>

\* Buckets are numbers; this one is none.
NoBucket == -1

\* Bucket is the set of all the names a run can make up.
StoreInit(Bucket) ==
  /\ live = {}
  /\ snapEnabled = {}
  /\ parent = [b \in Bucket |-> NoBucket]
  /\ objs = [b \in Bucket |-> {}]
  /\ snaps = <<>>

CanCreateBucket(b) == b \notin live

DoCreateBucket(b, enableSnapshot) ==
  /\ live' = live \union {b}
  /\ snapEnabled' = IF enableSnapshot THEN snapEnabled \union {b} ELSE snapEnabled
  /\ UNCHANGED <<parent, objs, snaps>>

CanSnapshot(b) == b \in live /\ b \in snapEnabled

DoSnapshot(b) ==
  /\ snaps' = Append(snaps, [bucket |-> b, objs |-> objs[b]])
  /\ UNCHANGED <<live, snapEnabled, parent, objs>>

CanFork(b, source, version) ==
  /\ b \notin live
  /\ source \in live
  /\ version \in 1 .. Len(snaps)
  /\ snaps[version].bucket = source

\* A fork starts with the objects of the snapshot it is made from.
DoFork(b, source, version, enableSnapshot) ==
  /\ live' = live \union {b}
  /\ snapEnabled' = IF enableSnapshot THEN snapEnabled \union {b} ELSE snapEnabled
  /\ parent' = [parent EXCEPT ![b] = source]
  /\ objs' = [objs EXCEPT ![b] = snaps[version].objs]
  /\ UNCHANGED snaps

CanPut(b) == b \in live

DoPut(b, key, body) ==
  /\ objs' = [objs EXCEPT ![b] = {o \in @ : o[1] # key} \union {<<key, body>>}]
  /\ UNCHANGED <<live, snapEnabled, parent, snaps>>

CanRemove(b) ==
  /\ b \in live
  /\ PinsParents => \A c \in live : parent[c] # b

\* The tool forces the deletion, so the objects go with the bucket.
DoRemove(b) ==
  /\ live' = live \ {b}
  /\ snapEnabled' = snapEnabled \ {b}
  /\ parent' = [parent EXCEPT ![b] = NoBucket]
  /\ objs' = [objs EXCEPT ![b] = {}]
  /\ UNCHANGED snaps
=============================================================================
