---------------------------- MODULE GraphDocuments ----------------------------
(***************************************************************************)
(* The segments of one document of graphrag, from AddFile and AddSegments  *)
(* to their removal (graphrag/document.go, segment_*.go), over the vector  *)
(* database, the graph database with its deduplicated entities             *)
(* (graph/neo4j/save.go) and the Store.                                    *)
(*                                                                         *)
(* A segment is found in the vector database; the entities its text        *)
(* mentions are nodes of the graph that list it as a source.  An entity    *)
(* several segments mention is one node, found by name and changed by      *)
(* reading its sources and writing them back.  An operation is a sequence  *)
(* of calls to the three services, any of which may fail; there is no      *)
(* transaction and no lock, and operations interleave between calls.       *)
(* Relationships list their sources as entities do and are not modelled.   *)
(***************************************************************************)
EXTENDS Naturals, Sequences, FiniteSets

CONSTANTS Clients, Segments, Entities,
          Copies,     \* bound: nodes of one entity that exist or are remembered
          MaxOps,     \* bound: operations begun
          MaxFaults   \* bound: calls that fail

ASSUME DocumentAssumption == MaxOps \in Nat /\ MaxFaults \in Nat

Nodes == Entities \X Copies

VARIABLES
  origin,     \* the Store has the original text of the document
  chunks,     \* the segments in the vector database
  text,       \* the entities that the segment in the vector database mentions
  graph,      \* the source segments of a node; a node without any does not exist
  keys,       \* the segments with a weight or score in the Store
  pc, job,    \* where each client stands, and what it knows
  ops, faults,
  \* History, read by no action:
  torn,       \* segments of operations that failed or overlapped on them
  left,       \* entities that texts of the segment replaced by AddSegments mention
  stale       \* <<s, e>>: a write that had not seen another one decided whether e lists s

backends == <<origin, chunks, text, graph, keys>>
bounds == <<ops, faults>>
vars == <<backends, pc, job, bounds, torn, left, stale>>

\* What a client knows: its operation, the segments of it, those whose entities
\* are still to be saved, the entities extracted, those of the first segment to
\* be looked for and to be created, nodes with the sources read, an error seen.
NoJob == [op |-> "none", segs |-> {}, rest |-> <<>>, want |-> [s \in Segments |-> {}],
          find |-> {}, create |-> {}, held |-> {}, bad |-> FALSE]

Init ==
  /\ origin = FALSE /\ chunks = {} /\ keys = {}
  /\ text = [s \in Segments |-> {}] /\ graph = [n \in Nodes |-> {}]
  /\ pc = [c \in Clients |-> "idle"] /\ job = [c \in Clients |-> NoJob]
  /\ ops = 0 /\ faults = 0
  /\ torn = {} /\ left = [s \in Segments |-> {}] /\ stale = {}

Busy(s) == \E c \in Clients : s \in job[c].segs
Exists(e) == {n \in Nodes : n[1] = e /\ graph[n] # {}}

Works == UNCHANGED <<faults, torn>>
Fails(c) == faults < MaxFaults /\ faults' = faults + 1 /\ torn' = torn \cup job[c].segs

Goto(c, there, j) == pc' = [pc EXCEPT ![c] = there] /\ job' = [job EXCEPT ![c] = j]
Move(c, there) == pc' = [pc EXCEPT ![c] = there] /\ UNCHANGED job
End(c) == Goto(c, "idle", NoJob)
At(c, here) == pc[c] = here /\ UNCHANGED <<ops, left>>

-----------------------------------------------------------------------------
(* The operations begin.                                                   *)

Lists == {<<s>> : s \in Segments} \cup {l \in Segments \X Segments : l[1] # l[2]}

Begin(c, kind, list, there) ==
  LET segs == {list[i] : i \in DOMAIN list} IN
  /\ pc[c] = "idle" /\ ops < MaxOps /\ ops' = ops + 1
  /\ Goto(c, there, [NoJob EXCEPT !.op = kind, !.segs = segs, !.rest = list])
  /\ UNCHANGED <<backends, faults>>
  /\ LET shared == {s \in segs : Busy(s)}
         clean == IF kind \in {"update", "remove"} THEN segs \ shared ELSE {}
         over == IF kind = "add" THEN segs \cap chunks ELSE {}
     IN /\ torn' = (torn \ clean) \cup shared
        /\ left' = [s \in Segments |-> IF s \in clean THEN {}
                                       ELSE IF s \in over THEN left[s] \cup text[s] ELSE left[s]]
        /\ stale' = {p \in stale : p[1] \notin clean}

\* AddFile stores the original text first; the ids of its segments are new uuids.
BeginFile(c) == \E list \in Lists :
  /\ \A i \in DOMAIN list : list[i] \notin chunks
  /\ Begin(c, "file", list, "origin")

\* AddSegments takes the ids it is given, of stored segments too: it does not take
\* these out of the sources of the entities that the text it replaces mentions.
BeginAdd(c) == \E list \in Lists : Begin(c, "add", list, "extract")

\* UpdateSegments takes a segment out of the graph before it adds it again; it
\* does not ask whether it exists.  A list of segments is taken out, and removed,
\* segment by segment; the list has one here.
BeginUpdate(c) == \E s \in Segments : Begin(c, "update", <<s>>, "query")

BeginRemove(c) == \E s \in Segments : Begin(c, "remove", <<s>>, "vectorDelete")

\* RemoveDocs and RemoveSegmentsByDocID.
BeginRemoveAll(c) == \E kind \in {"docs", "bydoc"} : Begin(c, kind, <<>>, "filterDelete")

StoreOrigin(c) ==
  /\ At(c, "origin") /\ Move(c, "extract")
  /\ \/ Works /\ origin' = TRUE
     \/ Fails(c) /\ UNCHANGED origin
  /\ UNCHANGED <<chunks, text, graph, keys, stale>>

-----------------------------------------------------------------------------
(* Adding: extraction, then for each segment its entities.                 *)

\* A call that ends the operation with an error when it fails.
GiveUp(c) == Fails(c) /\ End(c)

\* The extraction result of the next segment, if there is one; else the
\* embedding, unless a result was not saved.
NextResult(c, j) ==
  LET k == [j EXCEPT !.rest = Tail(@), !.create = {}, !.held = {}, !.find = {}] IN
  IF k.rest # <<>>
    THEN Goto(c, "find", [k EXCEPT !.find = k.want[Head(k.rest)]])
    ELSE IF k.bad THEN End(c) ELSE Goto(c, "vectorAdd", k)

\* SaveExtractionResults goes on with the next result after an error.
SkipResult(c) == NextResult(c, [job[c] EXCEPT !.bad = TRUE])

\* ExtractDocuments, an external service: any entities for each segment.
ExtractDocuments(c) ==
  /\ At(c, "extract")
  /\ \/ /\ Works
        /\ \E w \in [job[c].segs -> SUBSET Entities] :
             Goto(c, "find", [job[c] EXCEPT
               !.want = [s \in Segments |-> IF s \in job[c].segs THEN w[s] ELSE {}],
               !.find = w[Head(job[c].rest)]])
     \/ GiveUp(c)
  /\ UNCHANGED <<backends, stale>>

\* findExistingEntity: by name and type, the first of those that match.
FindExisting(c) == \E e \in job[c].find :
  LET j == [job[c] EXCEPT !.find = @ \ {e}] IN
  /\ At(c, "find")
  /\ \/ Works /\ Exists(e) = {} /\ Goto(c, "find", [j EXCEPT !.create = @ \cup {e}])
     \/ Works /\ \E n \in Exists(e) :
          Goto(c, "readSources", [j EXCEPT !.held = {[node |-> n, src |-> {}]}])
     \/ Fails(c) /\ SkipResult(c)
  /\ UNCHANGED <<backends, stale>>

\* Mutation: a node that is gone is taken for one without sources.
ReadSources_blind(c) == \E h \in job[c].held :
  /\ At(c, "readSources")
  /\ \/ /\ Works
        /\ Goto(c, "writeSources", [job[c] EXCEPT !.held = {[h EXCEPT !.src = graph[h.node]]}])
     \/ Fails(c) /\ SkipResult(c)
  /\ UNCHANGED <<backends, stale>>

\* updateEntitySources reads the node; it may be gone.
ReadSources(c) == \E h \in job[c].held :
  /\ At(c, "readSources")
  /\ \/ /\ Works /\ graph[h.node] # {}
        /\ Goto(c, "writeSources", [job[c] EXCEPT !.held = {[h EXCEPT !.src = graph[h.node]]}])
     \/ graph[h.node] = {} /\ UNCHANGED faults /\ torn' = torn \cup job[c].segs /\ SkipResult(c)
     \/ Fails(c) /\ SkipResult(c)
  /\ UNCHANGED <<backends, stale>>

\* An upsert of node n, which makes it if it is gone; right says what the sources
\* should have become.
Upsert(n, sources, right) ==
  /\ graph' = [graph EXCEPT ![n] = sources]
  /\ stale' = stale \cup {<<s, n[1]>> : s \in (sources \ right) \cup (right \ sources)}

\* Mutation: the sources are replaced, not merged.
WriteSources_replace(c) == \E h \in job[c].held :
  LET s == Head(job[c].rest) IN
  /\ At(c, "writeSources")
  /\ \/ Works /\ graph' = [graph EXCEPT ![h.node] = {s}] /\ UNCHANGED stale
        /\ Goto(c, "find", [job[c] EXCEPT !.held = {}])
     \/ Fails(c) /\ SkipResult(c) /\ UNCHANGED <<graph, stale>>
  /\ UNCHANGED <<origin, chunks, text, keys>>

WriteSources(c) == \E h \in job[c].held :
  LET s == Head(job[c].rest) IN
  /\ At(c, "writeSources")
  /\ \/ Works /\ Upsert(h.node, h.src \cup {s}, graph[h.node] \cup {s})
        /\ Goto(c, "find", [job[c] EXCEPT !.held = {}])
     \/ Fails(c) /\ SkipResult(c) /\ UNCHANGED <<graph, stale>>
  /\ UNCHANGED <<origin, chunks, text, keys>>

\* The entities not found are created in one transaction, with new ids.
CreateEntities(c) ==
  LET s == Head(job[c].rest)
      new == {n \in Nodes : n[1] \in job[c].create /\ graph[n] = {}
                            /\ \A d \in Clients : \A h \in job[d].held : h.node # n}
  IN
  /\ At(c, "find") /\ job[c].find = {}
  /\ \/ /\ Works /\ NextResult(c, job[c])
        /\ \E made \in SUBSET new :
             /\ \A e \in job[c].create : \E n \in made : n[1] = e
             /\ Cardinality(made) = Cardinality(job[c].create)
             /\ graph' = [n \in Nodes |-> IF n \in made THEN {s} ELSE graph[n]]
     \/ job[c].create # {} /\ Fails(c) /\ SkipResult(c) /\ UNCHANGED graph
  /\ UNCHANGED <<origin, chunks, text, keys, stale>>

\* The texts are embedded and the segments stored in batches; an error is
\* returned and what has been stored stays.
VectorAdd(c) == \E stored \in SUBSET job[c].segs :
  /\ At(c, "vectorAdd")
  /\ chunks' = chunks \cup stored
  /\ text' = [s \in Segments |-> IF s \in stored THEN job[c].want[s] ELSE text[s]]
  /\ \/ /\ Works /\ stored = job[c].segs
        /\ IF job[c].op = "file" THEN End(c) ELSE Move(c, "keys")
     \/ GiveUp(c)
  /\ UNCHANGED <<origin, graph, keys, stale>>

\* AddSegments stores weight and score, UpdateSegments if it is given some.
StoreKeys(c) ==
  /\ At(c, "keys") /\ End(c)
  /\ \/ Works /\ keys' = keys \cup job[c].segs
     \/ Works /\ job[c].op = "update" /\ UNCHANGED keys
     \/ Fails(c) /\ UNCHANGED keys
  /\ UNCHANGED <<origin, chunks, text, graph, stale>>

-----------------------------------------------------------------------------
(* RemoveSegments: errors are logged and the next part is tried.           *)

VectorDelete(c) ==
  /\ At(c, "vectorDelete") /\ Move(c, "query")
  /\ \/ Works /\ chunks' = chunks \ job[c].segs
     \/ Fails(c) /\ UNCHANGED chunks
  /\ UNCHANGED <<origin, text, graph, keys, stale>>

AfterGraph(c) == IF job[c].op = "update" THEN "extract" ELSE "dropKeys"

\* removeEntitiesAndRelationshipsForSegments reads the nodes that list it.
QuerySources(c) == \E s \in job[c].segs :
  /\ At(c, "query")
  /\ \/ /\ Works
        /\ Goto(c, "rewrite", [job[c] EXCEPT
             !.held = {[node |-> n, src |-> graph[n]] : n \in {m \in Nodes : s \in graph[m]}}])
     \/ Fails(c) /\ Move(c, AfterGraph(c))
  /\ UNCHANGED <<backends, stale>>

\* Mutation: a node whose only source it is stays.
Rewrite_keep(c) == \E h \in job[c].held, s \in job[c].segs :
  /\ At(c, "rewrite")
  /\ Goto(c, "rewrite", [job[c] EXCEPT !.held = @ \ {h}])
  /\ \/ Works /\ h.src = {s} /\ UNCHANGED <<graph, stale>>
     \/ Works /\ h.src # {s} /\ Upsert(h.node, h.src \ {s}, graph[h.node] \ {s})
     \/ Fails(c) /\ UNCHANGED <<graph, stale>>
  /\ UNCHANGED <<origin, chunks, text, keys>>

\* A node whose only source it was is deleted, and the sources of another one
\* are written back without it.
Rewrite(c) == \E h \in job[c].held, s \in job[c].segs :
  /\ At(c, "rewrite")
  /\ Goto(c, "rewrite", [job[c] EXCEPT !.held = @ \ {h}])
  /\ \/ Works /\ Upsert(h.node, h.src \ {s}, graph[h.node] \ {s})
     \/ Fails(c) /\ UNCHANGED <<graph, stale>>
  /\ UNCHANGED <<origin, chunks, text, keys>>

Rewritten(c) ==
  /\ At(c, "rewrite") /\ job[c].held = {} /\ Works /\ Move(c, AfterGraph(c))
  /\ UNCHANGED <<backends, stale>>

DropKeys(c) ==
  /\ At(c, "dropKeys") /\ End(c)
  /\ \/ Works /\ keys' = keys \ job[c].segs
     \/ Fails(c) /\ UNCHANGED keys
  /\ UNCHANGED <<origin, chunks, text, graph, stale>>

-----------------------------------------------------------------------------
(* RemoveDocs and RemoveSegmentsByDocID.  The graph is asked for nodes with *)
(* the document in doc_ids, a property that no code writes: nothing changes *)
(* there, whether the query fails or not.                                  *)

\* convertFilterToQdrant: a string is a condition, a list of strings is not,
\* and a filter without a condition is an error.
Convertible(kind) == kind = "bydoc"

\* The deletion by a filter on doc_id: RemoveSegmentsByDocID filters by one id,
\* RemoveDocs by the list of ids.
FilterDelete(c) ==
  /\ At(c, "filterDelete")
  /\ Move(c, IF job[c].op = "docs" THEN "dropOrigin" ELSE "listKeys")
  /\ \/ /\ Convertible(job[c].op) /\ UNCHANGED faults
        /\ chunks' = {} /\ torn' = torn \cup chunks
     \/ ~Convertible(job[c].op) /\ Works /\ UNCHANGED chunks
     \/ Fails(c) /\ UNCHANGED chunks
  /\ UNCHANGED <<origin, text, graph, keys, stale>>

DropOrigin(c) ==
  /\ At(c, "dropOrigin") /\ Move(c, "listKeys")
  /\ \/ Works /\ origin' = FALSE
     \/ Fails(c) /\ UNCHANGED origin
  /\ UNCHANGED <<chunks, text, graph, keys, stale>>

\* removeAllSegmentMetadataFromStore lists the segments in the vector database.
ListKeys(c) ==
  /\ At(c, "listKeys")
  /\ \/ Works /\ Goto(c, "dropKeys", [job[c] EXCEPT !.segs = chunks])
     \/ GiveUp(c)
  /\ UNCHANGED <<backends, stale>>

Step(c) ==
  \/ StoreOrigin(c) \/ ExtractDocuments(c)
  \/ FindExisting(c) \/ ReadSources(c) \/ WriteSources(c) \/ CreateEntities(c)
  \/ VectorAdd(c) \/ StoreKeys(c)
  \/ VectorDelete(c) \/ QuerySources(c) \/ Rewrite(c) \/ Rewritten(c) \/ DropKeys(c)
  \/ FilterDelete(c) \/ DropOrigin(c) \/ ListKeys(c)

Next ==
  \E c \in Clients :
    \/ BeginFile(c) \/ BeginAdd(c) \/ BeginUpdate(c) \/ BeginRemove(c) \/ BeginRemoveAll(c)
    \/ Step(c)

Spec == Init /\ [][Next]_vars

-----------------------------------------------------------------------------
(* Properties.                                                             *)

\* Every variable keeps its type.
TypeOK ==
  /\ origin \in BOOLEAN /\ chunks \subseteq Segments /\ keys \subseteq Segments
  /\ text \in [Segments -> SUBSET Entities] /\ graph \in [Nodes -> SUBSET Segments]
  /\ pc \in [Clients -> {"idle", "origin", "extract", "find", "readSources", "writeSources",
                         "vectorAdd", "keys", "vectorDelete", "query", "rewrite", "dropKeys",
                         "filterDelete", "dropOrigin", "listKeys"}]
  /\ \A c \in Clients :
       /\ job[c].op \in {"none", "file", "add", "update", "remove", "docs", "bydoc"}
       /\ pc[c] = "idle" <=> job[c].op = "none"
       /\ job[c].segs \subseteq Segments /\ job[c].rest \in Seq(Segments)
       /\ job[c].want \in [Segments -> SUBSET Entities]
       /\ job[c].find \subseteq Entities /\ job[c].create \subseteq Entities
       /\ \A h \in job[c].held : h.node \in Nodes /\ h.src \subseteq Segments
       /\ pc[c] = "writeSources" => \A h \in job[c].held : h.src # {}
       /\ job[c].bad \in BOOLEAN
  /\ ops \in 0..MaxOps /\ faults \in 0..MaxFaults
  /\ torn \subseteq Segments /\ left \in [Segments -> SUBSET Entities]
  /\ stale \subseteq Segments \X Entities

\* The entities that list segment s, as far as no two writes collided.
Sourced(s) == {e \in Entities : \E n \in Nodes : n[1] = e /\ s \in graph[n]}
Settled(s, entities) == \A e \in Entities :
  <<s, e>> \in stale \/ (e \in Sourced(s) <=> e \in entities)

\* The entities that list a segment as a source are those its text in the vector
\* database mentions, whatever other segments, with entities in common, were
\* added, changed or removed meanwhile, and besides these only the ones mentioned
\* by texts that AddSegments has replaced since an update or removal of it.  The
\* exceptions are an entity whose sources two operations wrote at the same time,
\* and a segment on which an operation failed, or two overlapped, and none has
\* succeeded alone since (graph/neo4j/save.go:103-260, segment_add.go:38,
\* segment_remove.go:338-502).
SourcesExact == \A s \in chunks : Busy(s) \/ s \in torn \/ Settled(s, text[s] \cup left[s])

\* A segment that is not in the vector database is nowhere: no entity lists it
\* and the Store has no weight or score of it.  So RemoveSegments removes all of
\* it, also what failed operations before it have left (segment_remove.go:16-67).
RemovalComplete == \A s \in Segments \ chunks :
  Busy(s) \/ s \in torn \/ (s \notin keys /\ Settled(s, {}))
=============================================================================
