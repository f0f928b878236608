--------------------------- MODULE GraphCollections ---------------------------
(***************************************************************************)
(* Creating, updating and removing a collection of graphrag                *)
(* (graphrag/collection.go) over its three backends: the vector database   *)
(* (vector/qdrant/collection.go), the graph database (graph/neo4j/graph.go,*)
(* one database per graph) and the metadata, which is in the Store if one  *)
(* is configured and else a document of the System collection, itself a    *)
(* collection of the vector database made on first use.                    *)
(*                                                                         *)
(* There is no transaction and no lock: an operation is a sequence of      *)
(* backend calls, each of which may fail, and callers interleave between   *)
(* calls.  One collection is modelled; operations on different ones share  *)
(* the System collection only.                                             *)
(***************************************************************************)
EXTENDS Naturals, FiniteSets

CONSTANTS Clients,    \* concurrent callers
          MaxOps,     \* bound: operations begun
          MaxFaults   \* bound: backend calls that fail

ASSUME CollectionAssumption ==
  /\ MaxOps \in Nat /\ MaxFaults \in Nat

VARIABLES
  hasStore, hasGraph, \* the configuration
  system,     \* the System collection exists
  vec,        \* the vector collection: "absent", "bare" (no index yet), "ready"
  graph,      \* the graph database exists
  meta,       \* the fields of the metadata: Bare and the updates it contains, {} if none
  pc,         \* where each client stands
  op,         \* the operation it runs
  read,       \* the metadata an update has read
  failed,     \* a call that the operation reports has failed
  ops, faults,
  \* History, read by no action:
  torn,       \* a call failed, or a Remove overlapped another operation
  crowd,      \* the operation has overlapped another one or a call of it failed
  kept,       \* updates acknowledged that overlapped no other operation
  last        \* the operation that ended last, if nothing overlapped it

config == <<hasStore, hasGraph>>
backends == <<system, vec, graph, meta>>
bounds == <<ops, faults>>
history == <<torn, crowd, kept, last>>
vars == <<config, backends, pc, op, read, failed, bounds, history>>

Init ==
  /\ hasStore \in BOOLEAN /\ hasGraph \in BOOLEAN
  /\ system = FALSE /\ vec = "absent" /\ graph = FALSE /\ meta = {}
  /\ pc = [c \in Clients |-> "idle"] /\ op = [c \in Clients |-> "none"]
  /\ read = [c \in Clients |-> {}] /\ failed = [c \in Clients |-> FALSE]
  /\ ops = 0 /\ faults = 0
  /\ torn = FALSE /\ crowd = [c \in Clients |-> FALSE] /\ kept = {} /\ last = "none"

\* The metadata of a collection that was never updated.
Bare == {"id"}

Idle == \A c \in Clients : pc[c] = "idle"
Busy == {c \in Clients : pc[c] # "idle"}

\* A backend call of client c succeeds, or fails.
Works == UNCHANGED <<faults, torn, crowd>>
Fails(c) ==
  /\ faults < MaxFaults /\ faults' = faults + 1
  /\ torn' = TRUE /\ crowd' = [crowd EXCEPT ![c] = TRUE]

Goto(c, there) == pc' = [pc EXCEPT ![c] = there]
At(c, here) == pc[c] = here /\ UNCHANGED <<config, op, ops>>

-----------------------------------------------------------------------------
(* The beginning and the end of an operation.                              *)

Begin(c, kind) ==
  /\ pc[c] = "idle" /\ ops < MaxOps
  /\ ops' = ops + 1
  /\ op' = [op EXCEPT ![c] = kind]
  /\ Goto(c, IF kind = "remove" THEN "vecCheck" ELSE "check")
  /\ failed' = [failed EXCEPT ![c] = FALSE]
  /\ crowd' = [d \in Clients |-> IF Busy = {} THEN FALSE ELSE d = c \/ d \in Busy \/ crowd[d]]
  /\ torn' = (torn \/ \E d \in Busy : "remove" \in {kind, op[d]})
  /\ last' = "none"
  /\ UNCHANGED <<config, backends, read, faults, kept>>

\* The operation returns; how says whether with an error.
Return(c, how) ==
  /\ Goto(c, "idle")
  /\ last' = IF how = "error" \/ crowd[c] THEN "none" ELSE op[c]

\* Mutation: after a failed call the operation does not return.
GiveUp_stay(c) == Fails(c) /\ Goto(c, "retry") /\ UNCHANGED last

\* A call of an operation that is given up when it fails.
GiveUp(c) == Fails(c) /\ Return(c, "error")

-----------------------------------------------------------------------------
(* CreateCollection, and the test it shares with the updates.              *)

\* CollectionExists: the key in the Store, else the document in the System
\* collection, else, if there is no System collection, the vector collection.
CollectionExists ==
  IF hasStore \/ system THEN meta # {} ELSE vec # "absent"

\* A Store answers without an error, the vector database may fail.  It is asked
\* for the System collection and then for its document: two calls, one step here.
Check(c) ==
  /\ At(c, "check")
  /\ \/ /\ Works
        /\ IF CollectionExists = (op[c] = "update")
           THEN Goto(c, IF op[c] = "update" THEN "read" ELSE "ensure") /\ UNCHANGED last
           ELSE Return(c, "error")
     \/ ~hasStore /\ GiveUp(c)
  /\ UNCHANGED <<backends, read, failed, kept>>

\* ensureSystemCollection looks for the System collection.
Ensure(c) ==
  /\ At(c, "ensure")
  /\ \/ Works /\ Goto(c, IF system THEN "vecCreate" ELSE "sysCreate") /\ UNCHANGED last
     \/ GiveUp(c)
  /\ UNCHANGED <<backends, read, failed, kept>>

\* It creates the System collection, which is an error if another caller has
\* done so meanwhile; if only an index of it fails the collection stays.
EnsureCreate(c) ==
  /\ At(c, "sysCreate")
  /\ \/ Works /\ ~system /\ system' = TRUE /\ Goto(c, "vecCreate") /\ UNCHANGED last
     \/ Works /\ system /\ UNCHANGED system /\ Return(c, "error")
     \/ GiveUp(c) /\ (UNCHANGED system \/ system' = TRUE)
  /\ UNCHANGED <<vec, graph, meta, read, failed, kept>>

\* Mutation: a vector collection that exists is taken over.
VectorCreate_adopt(c) ==
  /\ At(c, "vecCreate")
  /\ \/ Works /\ vec' = (IF vec = "absent" THEN "bare" ELSE vec) /\ Goto(c, "index") /\ UNCHANGED last
     \/ GiveUp(c) /\ UNCHANGED vec
  /\ UNCHANGED <<system, graph, meta, read, failed, kept>>

\* The vector collection is created, an error if it exists, and then its
\* indexes; when one of these fails the collection stays.
VectorCreate(c) ==
  /\ At(c, "vecCreate")
  /\ \/ Works /\ vec = "absent" /\ vec' = "bare" /\ Goto(c, "index") /\ UNCHANGED last
     \/ Works /\ vec # "absent" /\ UNCHANGED vec /\ Return(c, "error")
     \/ GiveUp(c) /\ UNCHANGED vec
  /\ UNCHANGED <<system, graph, meta, read, failed, kept>>

VectorIndex(c) ==
  /\ At(c, "index")
  /\ \/ /\ Works /\ vec # "absent" /\ vec' = "ready"
        /\ Goto(c, IF hasGraph THEN "graphCreate" ELSE "save") /\ UNCHANGED last
     \/ Works /\ vec = "absent" /\ UNCHANGED vec /\ Return(c, "error")
     \/ GiveUp(c) /\ UNCHANGED vec
  /\ UNCHANGED <<system, graph, meta, read, failed, kept>>

\* CREATE DATABASE, an error if it exists; then the vector collection goes.
GraphCreate(c) ==
  /\ At(c, "graphCreate") /\ UNCHANGED last
  /\ \/ Works /\ ~graph /\ graph' = TRUE /\ Goto(c, "save")
     \/ ((Works /\ graph) \/ Fails(c)) /\ UNCHANGED graph /\ Goto(c, "undoVector")
  /\ UNCHANGED <<system, vec, meta, read, failed, kept>>

\* saveCollectionMetadata; a document needs the System collection.
Save(c, next) ==
  /\ hasStore \/ system
  /\ meta' = next

SaveNew(c) ==
  /\ At(c, "save")
  /\ \/ Works /\ Save(c, Bare) /\ Return(c, "ok")
     \/ Fails(c) /\ UNCHANGED <<meta, last>> /\ Goto(c, "undoBoth")
  /\ UNCHANGED <<system, vec, graph, read, failed, kept>>

\* The rollback drops what was created; its own failures are ignored.
UndoVector(c) ==
  /\ pc[c] \in {"undoVector", "undoBoth"} /\ UNCHANGED <<config, op, ops>>
  /\ \/ Works /\ vec' = "absent"
     \/ Fails(c) /\ UNCHANGED vec
  /\ IF pc[c] = "undoBoth" /\ hasGraph
     THEN Goto(c, "undoGraph") /\ UNCHANGED last
     ELSE Return(c, "error")
  /\ UNCHANGED <<system, graph, meta, read, failed, kept>>

UndoGraph(c) ==
  /\ At(c, "undoGraph")
  /\ \/ Works /\ graph' = FALSE
     \/ Fails(c) /\ UNCHANGED graph
  /\ Return(c, "error")
  /\ UNCHANGED <<system, vec, meta, read, failed, kept>>

-----------------------------------------------------------------------------
(* UpdateCollectionMetadata.                                               *)

\* It reads the metadata; if it is gone by now, or the read fails, it goes on
\* from new metadata.
ReadMeta(c) ==
  /\ At(c, "read")
  /\ \/ Works /\ read' = [read EXCEPT ![c] = IF meta = {} THEN Bare ELSE meta]
     \/ Fails(c) /\ read' = [read EXCEPT ![c] = Bare]
  /\ Goto(c, "write")
  /\ UNCHANGED <<backends, failed, kept, last>>

\* Mutation: the new metadata replaces the old.
WriteMeta_replace(c) ==
  /\ At(c, "write")
  /\ Works /\ Save(c, Bare \cup {c}) /\ Return(c, "ok")
  /\ kept' = IF crowd[c] THEN kept ELSE kept \cup {c}
  /\ read' = [read EXCEPT ![c] = {}]
  /\ UNCHANGED <<system, vec, graph, failed>>

\* The merged metadata is saved.
WriteMeta(c) ==
  /\ At(c, "write")
  /\ \/ Works /\ Save(c, read[c] \cup {c}) /\ Return(c, "ok")
        /\ kept' = IF crowd[c] THEN kept ELSE kept \cup {c}
     \/ Works /\ ~hasStore /\ ~system /\ Return(c, "error") /\ UNCHANGED <<meta, kept>>
     \/ GiveUp(c) /\ UNCHANGED <<meta, kept>>
  /\ read' = [read EXCEPT ![c] = {}]
  /\ UNCHANGED <<system, vec, graph, failed>>

-----------------------------------------------------------------------------
(* RemoveCollection: every part is tried, whether there is metadata or not. *)

\* An error of a part is noted, and the next part is tried.
Noted(c, there) ==
  /\ Fails(c) /\ failed' = [failed EXCEPT ![c] = TRUE] /\ Goto(c, there)

\* Mutation: what has no metadata is not looked for.
VectorCheck_known(c) ==
  /\ At(c, "vecCheck")
  /\ \/ /\ Works /\ UNCHANGED failed
        /\ Goto(c, IF meta # {} /\ vec # "absent" THEN "vecDrop" ELSE "graphCheck")
     \/ Noted(c, "graphCheck")
  /\ UNCHANGED <<backends, read, kept, last>>

VectorCheck(c) ==
  /\ At(c, "vecCheck")
  /\ \/ Works /\ UNCHANGED failed /\ Goto(c, IF vec # "absent" THEN "vecDrop" ELSE "graphCheck")
     \/ Noted(c, "graphCheck")
  /\ UNCHANGED <<backends, read, kept, last>>

VectorDrop(c) ==
  /\ At(c, "vecDrop")
  /\ \/ Works /\ vec' = "absent" /\ Goto(c, "graphCheck") /\ UNCHANGED failed
     \/ Noted(c, "graphCheck") /\ UNCHANGED vec
  /\ UNCHANGED <<system, graph, meta, read, kept, last>>

GraphCheck(c) ==
  /\ At(c, "graphCheck")
  /\ \/ Works /\ UNCHANGED failed /\ Goto(c, IF hasGraph /\ graph THEN "graphDrop" ELSE "metaDrop")
     \/ hasGraph /\ Noted(c, "metaDrop")
  /\ UNCHANGED <<backends, read, kept, last>>

\* DROP DATABASE is an error when another caller has dropped it meanwhile.
GraphDrop(c) ==
  /\ At(c, "graphDrop")
  /\ \/ Works /\ graph' = FALSE /\ failed' = [failed EXCEPT ![c] = ~graph] /\ Goto(c, "metaDrop")
     \/ Noted(c, "metaDrop") /\ UNCHANGED graph
  /\ UNCHANGED <<system, vec, meta, read, kept, last>>

\* The metadata is deleted in the Store and the System collection; errors are
\* logged and not returned.
MetaDrop(c) ==
  /\ At(c, "metaDrop")
  /\ \/ Works /\ meta' = {} /\ kept' = {}
     \/ Fails(c) /\ UNCHANGED <<meta, kept>>
  /\ Goto(c, "idle")
  /\ last' = IF crowd'[c] \/ failed[c] THEN "none" ELSE "remove"
  /\ UNCHANGED <<system, vec, graph, read, failed>>

Step(c) ==
  \/ Check(c) \/ Ensure(c) \/ EnsureCreate(c) \/ VectorCreate(c) \/ VectorIndex(c)
  \/ GraphCreate(c) \/ SaveNew(c) \/ UndoVector(c) \/ UndoGraph(c)
  \/ ReadMeta(c) \/ WriteMeta(c)
  \/ VectorCheck(c) \/ VectorDrop(c) \/ GraphCheck(c) \/ GraphDrop(c) \/ MetaDrop(c)

Next ==
  \E c \in Clients :
    \/ \E kind \in {"create", "update", "remove"} : Begin(c, kind)
    \/ Step(c)

Spec == Init /\ [][Next]_vars

-----------------------------------------------------------------------------
(* Properties.                                                             *)

\* Every variable keeps its type.
TypeOK ==
  /\ hasStore \in BOOLEAN /\ hasGraph \in BOOLEAN /\ system \in BOOLEAN
  /\ vec \in {"absent", "bare", "ready"} /\ graph \in BOOLEAN
  /\ meta \subseteq Clients \cup Bare
  /\ pc \in [Clients -> {"idle", "check", "ensure", "sysCreate", "vecCreate", "index",
                         "graphCreate", "save", "undoVector", "undoBoth", "undoGraph",
                         "read", "write",
                         "vecCheck", "vecDrop", "graphCheck", "graphDrop", "metaDrop"}]
  /\ op \in [Clients -> {"none", "create", "update", "remove"}]
  /\ read \in [Clients -> SUBSET (Clients \cup Bare)] /\ failed \in [Clients -> BOOLEAN]
  /\ ops \in 0..MaxOps /\ faults \in 0..MaxFaults
  /\ torn \in BOOLEAN /\ crowd \in [Clients -> BOOLEAN]
  /\ kept \subseteq Clients /\ last \in {"none", "create", "update", "remove"}

\* Whatever creations and updates overlap, and however many fail because
\* another one was first, a collection is there with all its parts or none,
\* once nobody works on it: metadata, indexed vector collection, and graph.
\* Only a backend call that failed, or a removal that overlapped another
\* operation, leaves part of one (collection.go:66-166, 169-279).
NoHalves ==
  Idle /\ ~torn =>
    /\ vec = IF meta # {} THEN "ready" ELSE "absent"
    /\ graph = (hasGraph /\ meta # {})

\* An update that was acknowledged, and overlapped no other operation, stays
\* in the metadata through all later updates, overlapping or not, until the
\* collection is removed (collection.go:629-724).
UpdatesKept == ~torn /\ kept # {} => meta # {} /\ kept \subseteq meta

\* An operation that runs alone puts right what failures and overlaps have left
\* behind: after a removal without a failed call nothing is left, known or
\* orphaned, and a creation that succeeds has made the whole collection
\* (collection.go:201-264).
Heals ==
  /\ last = "remove" => meta = {} /\ vec = "absent" /\ ~graph
  /\ last = "create" => meta # {} /\ vec = "ready" /\ graph = hasGraph
=============================================================================
