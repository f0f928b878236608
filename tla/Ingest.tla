-------------------------------- MODULE Ingest --------------------------------
(***************************************************************************)
(* Adding a file to graphrag (AddFile, graphrag/document.go) over one of   *)
(* its chunkers.  The text is chunked; the callback, which the goroutines  *)
(* of the structured chunker run, appends each chunk to a slice of AddFile *)
(* with no lock.  Entities are extracted from the chunks without parents,  *)
(* one request each, and saved in the graph; all chunks are embedded, one  *)
(* request each; the vectors are stored in batches.  What was done is not  *)
(* undone when a later step fails.  A Store, a graph and an extractor are  *)
(* configured; the conversion of the file is over when a behaviour starts. *)
(* One fault stands for any number of failed requests of a step.           *)
(*                                                                         *)
(* A use whose caller is "user" is a call of Chunk with a callback of the  *)
(* application, which may fail; AddFile's own callback never does.         *)
(***************************************************************************)
EXTENDS SemanticChunker

CONSTANT BatchSize  \* documents in one request to the vector database

ASSUME IngestAssumption == BatchSize \in Nat \ {0}

VARIABLES
  chunks,  \* the slice of AddFile, as a set
  local,   \* the slice as each goroutine inside append has read it
  phase,   \* where AddFile stands, or how it ended
  graph,   \* the extracted entities are saved
  stored,  \* chunks in the vector database
  raced    \* history: an append overwrote another

upsert == <<chunks, local, phase, graph, stored, raced>>
vars == <<chunker, semantic, upsert>>

Init ==
  /\ SemanticInit
  /\ chunks = {} /\ local = <<>> /\ phase = "chunk"
  /\ graph = FALSE /\ stored = 0 /\ raced = FALSE

ByAddFile == use.caller = "AddFile"
Structured == sem = "off"
Calling == {c \in Chunks : tree[c].call = "calling"}
Empty(c) == Structured /\ tree[c].lo = tree[c].hi

\* The chunks without Parents.  Those of the semantic chunker's lowest level have
\* their window for one, unless it was taken as it is.
Roots ==
  {c \in chunks : IF Structured THEN tree[c].parent = 0
                  ELSE pieces[c].parent = 0 /\ (pieces[c].depth < use.levels \/ base[c].orphan)}

\* MakeUpsertCallback, its Chunking function: *chunks = append(*chunks, chunk)
\* reads the slice and writes it back.
Load(c) ==
  /\ ByAddFile /\ Structured /\ c \in Calling \ DOMAIN local
  /\ local' = [k \in DOMAIN local \cup {c} |-> IF k = c THEN chunks ELSE local[k]]
  /\ UNCHANGED <<chunker, semantic, chunks, phase, graph, stored, raced>>

\* Appends that have read the same slice may write the same element of it: the
\* one that is kept is c, or one that came between.
Store(c) ==
  /\ ByAddFile /\ c \in DOMAIN local
  /\ \E k \in {c} \cup (chunks \ local[c]) : chunks' = local[c] \cup {k}
  /\ local' = [k \in DOMAIN local \ {c} |-> local[k]]
  /\ raced' = (raced \/ chunks # local[c])
  /\ Succeed(c)
  /\ UNCHANGED <<semantic, phase, graph, stored>>

\* The application's callback returns.
Return(c) ==
  /\ ~ByAddFile /\ Structured /\ c \in Calling
  /\ Succeed(c) \/ Refuse(c)
  /\ UNCHANGED <<semantic, upsert>>

\* The semantic chunker hands its chunks over one by one, to either callback.
HandOut ==
  \/ Deliver /\ chunks' = (IF ByAddFile THEN chunks \cup {delivered'} ELSE chunks)
     /\ UNCHANGED <<local, phase, graph, stored, raced>>
  \/ ~ByAddFile /\ Stumble /\ UNCHANGED upsert

\* What Chunk has returned.
Result == IF Structured THEN outcome ELSE sem

\* AddFile after Chunk.
Chunked ==
  /\ ByAddFile /\ phase = "chunk" /\ Result \in {"ok", "error"}
  /\ phase' = IF Result = "ok" THEN "extract" ELSE "error"
  /\ UNCHANGED <<chunker, semantic, chunks, local, graph, stored, raced>>

Fault == faults < MaxFaults /\ faults' = faults + 1
Backend == UNCHANGED <<use, tree, frames, cancelled, outcome, semantic>>
Quiet == Backend /\ UNCHANGED faults

\* ExtractDocuments and the loop over its results.  A failed request leaves nil
\* in the results, which AddFile dereferences; only if all failed, an error is
\* returned.  A cancellation may be noticed as such, or as results left out.
Extract ==
  /\ phase = "extract"
  /\ \/ Quiet /\ phase' = IF Roots = {} THEN "embed" ELSE "save"
     \/ Fault /\ Backend /\ phase' = "error" /\ Roots # {}
     \/ Fault /\ Backend /\ phase' = "crashed" /\ Cardinality(Roots) > 1
     \/ cancelled /\ Roots # {} /\ Quiet /\ phase' \in {"error", "crashed"}
  /\ UNCHANGED <<chunks, local, graph, stored, raced>>

\* SaveExtractionResults.
Save ==
  /\ phase = "save"
  /\ \/ Quiet /\ phase' = "embed" /\ graph' = TRUE
     \/ Fault /\ Backend /\ phase' = "error" /\ UNCHANGED graph
     \/ cancelled /\ Quiet /\ phase' = "error" /\ UNCHANGED graph
  /\ UNCHANGED <<chunks, local, stored, raced>>

\* EmbedDocuments: EmbedQuery answers an empty text with neither a result nor an
\* error, and the goroutine reads the result.
Embed ==
  /\ phase = "embed"
  /\ IF \E c \in chunks : Empty(c)
     THEN Quiet /\ phase' = "crashed"
     ELSE \/ Quiet /\ phase' = "store"
          \/ Fault /\ Backend /\ phase' = "error"
          \/ cancelled /\ Quiet /\ phase' = "error"
  /\ UNCHANGED <<chunks, local, graph, stored, raced>>

\* AddDocuments: chunks first, then entities; the batches before the one that
\* fails stay.
StoreAll ==
  /\ phase = "store"
  /\ \/ Quiet /\ phase' = "ok" /\ stored' = Cardinality(chunks)
     \/ /\ Fault \/ (cancelled /\ UNCHANGED faults)
        /\ Backend /\ phase' = "error"
        /\ stored' \in {Min({k * BatchSize, Cardinality(chunks)}) : k \in 0..Cardinality(chunks)}
  /\ UNCHANGED <<chunks, local, graph, raced>>

Ended == IF ByAddFile THEN phase \in {"ok", "error", "crashed"}
                      ELSE Result \in {"ok", "error"}

Worker(c) ==
  \/ Load(c) \/ Store(c) \/ Return(c)
  \/ (Collect(c) \/ Answer(c) \/ Fallback(c)) /\ UNCHANGED upsert

AddFile ==
  \/ Main /\ UNCHANGED <<semantic, upsert>>
  \/ Segmenter /\ UNCHANGED upsert
  \/ HandOut \/ Chunked \/ Extract \/ Save \/ Embed \/ StoreAll

GiveUp == ~Ended /\ Cancel /\ UNCHANGED <<semantic, upsert>>

\* A panic ends the process; otherwise goroutines go on after AddFile has returned.
Next ==
  /\ phase # "crashed"
  /\ AddFile \/ GiveUp \/ \E c \in Chunks : Worker(c)

\* Goroutines are scheduled, callbacks and requests return.
Fairness == WF_vars(AddFile) /\ WF_vars(phase # "crashed" /\ \E c \in Chunks : Worker(c))

Spec == Init /\ [][Next]_vars /\ Fairness

-----------------------------------------------------------------------------
\* Types; the levels in progress are nested, each cut from a chunk of the one
\* above, and MaxConcurrent bounds the callbacks of a level that run at a time
\* (processCurrentLevel: "Limit concurrent goroutines").
TypeOK ==
  /\ tree \in Seq([lo : 0..Max(use.cuts), hi : 0..Max(use.cuts), parent : 0..Len(tree),
                   depth : 1..use.maxDepth, leaf : BOOLEAN,
                   status : {"pending", "processing", "completed", "failed"},
                   call : {"new", "calling", "done", "refused"}])
  /\ chunks \subseteq (IF Structured THEN Chunks ELSE 1..delivered) /\ DOMAIN local \subseteq Calling
  /\ \A c \in DOMAIN local : local[c] \subseteq Chunks
  /\ {cancelled, graph, raced} \subseteq BOOLEAN
  /\ outcome \in {"new", "running", "ok", "error"} /\ faults \in 0..MaxFaults
  /\ stored \in 0..Cardinality(chunks)
  /\ phase \in {"chunk", "extract", "save", "embed", "store", "ok", "error", "crashed"}
  /\ sem \in {"off", "windows", "segment", "acquire", "output", "ok", "error"}
  /\ window \in 1..Len(tree) + 1 /\ delivered \in 0..Len(pieces)
  /\ asked \subseteq 1..window - 1 /\ (Structured \/ Cardinality(asked) <= use.asks)
  /\ asked \cup DOMAIN answers = 1..window - 1 /\ asked \cap DOMAIN answers = {}
  /\ pieces \in Seq([first : Nat, last : Nat, depth : 1..use.levels, parent : 0..Len(pieces)])
  /\ \A i \in DOMAIN frames :
       /\ \A c \in frames[i].first..frames[i].last : tree[c].depth = i
       /\ i > 1 => tree[frames[i].first].parent = frames[i - 1].next - 1
       /\ Cardinality(Calling \cap frames[i].first..frames[i].last) <= use.concurrent

\* What the statuses say when Chunk has returned.  After success every chunk of
\* every level was handed to the callback and is completed, the cut ones through
\* the last of their leaves (checkParentCompletion).  After an error the failed
\* chunks are those whose callback failed and the ones being cut above them.  A
\* cancelled call says less: callbacks that still run go on to complete parents.
Above[c \in 0..Len(tree)] == IF c = 0 THEN {} ELSE {c} \cup Above[tree[c].parent]

StatusTells ==
  /\ outcome = "ok" => \A c \in Chunks : tree[c].call = "done" /\ tree[c].status = "completed"
  /\ outcome = "error" /\ ~cancelled =>
       {c \in Chunks : tree[c].status = "failed"} =
         UNION {Above[c] : c \in {k \in Chunks : tree[k].call = "refused"}}

\* What AddFile has stored is the whole text: each byte is in a leaf and, with the
\* structured chunker, in a chunk entities were extracted from.  Windows are trimmed
\* to whole characters: no character may be wider than the overlap can catch; no
\* append may have overwritten another; and the language model's answers, to those
\* windows it had answers for, must leave nothing out (fixUTF8Chunk,
\* generateStreamChunksWithLines; "This ensures we don't lose any content",
\* semantic.go:232).
Caught ==
  \A j, k \in use.cuts : j < k /\ (\A i \in use.cuts : i <= j \/ k <= i) => k - j <= use.overlap + 1
Bytes(cs) == UNION {c.lo + 1..c.hi : c \in cs}
All == 1..Max(use.cuts)
Complete == \A w \in DOMAIN answers :
  Bytes({tree[w]}) = UNION {s[1] + 1..s[2] : s \in ToSet(answers[w].segments)}

TextKept ==
  phase = "ok" /\ ~raced /\ Caught /\ Complete =>
    IF Structured
    THEN /\ stored = Len(tree)
         /\ Bytes({tree[c] : c \in {k \in chunks : tree[k].leaf}}) = All
         /\ Bytes({tree[c] : c \in Roots}) = All
    ELSE stored = Len(pieces) /\ Bytes(ToSet(base)) = All

\* The levels that the semantic chunker has handed out when it succeeds: each has
\* every segment of the lowest one, once and in order, and every chunk below the
\* top has a parent in the level above.  That parent is the chunk its text went
\* into, unless the text of some chunk of the level is also part of another chunk
\* above, since parents are found by their texts (updateChildrenParents).  And so
\* AddFile extracts from the whole text if there is more than one level.
TopLevel == Min({pieces[i].depth : i \in DOMAIN pieces})
Holds(p, c) == pieces[p].first <= pieces[c].first /\ pieces[c].last <= pieces[p].last
Plain(d) == \A c \in LevelOf(d + 1), p \in LevelOf(d) :
  HasText(pieces[p], pieces[c]) => Holds(p, c)

Hierarchy ==
  sem = "ok" =>
    /\ \A d \in TopLevel..use.levels :
         /\ UNION {pieces[i].first..pieces[i].last : i \in LevelOf(d)} = DOMAIN base
         /\ \A i, j \in LevelOf(d) : i < j => pieces[i].last < pieces[j].first
    /\ \A d \in TopLevel..use.levels - 1 : \A c \in LevelOf(d + 1) :
         /\ pieces[c].parent \in LevelOf(d)
         /\ Plain(d) => Holds(pieces[c].parent, c)
    /\ phase = "ok" /\ TopLevel < use.levels =>
         UNION {pieces[c].first..pieces[c].last : c \in Roots} = DOMAIN base

\* Every call ends, and so do the goroutines that the chunkers have started for
\* it, unless the process does (the semaphores and wait groups of
\* processCurrentLevel and processSemanticChunks).
AddFileEnds == <>(phase = "crashed" \/ (Ended /\ Calling = {} /\ asked = {}))

\* "Chunk %d has empty text" (chunking/structured_test.go:222): no chunk that is
\* handed to the callback is empty.
NoEmptyChunk == \A c \in Chunks : tree[c].call = "done" => ~Empty(c)
=============================================================================
