--------------------------- MODULE StructuredChunker ---------------------------
(***************************************************************************)
(* The structured chunker of graphrag (graphrag/chunking/structured.go).   *)
(* A text is cut into overlapping windows; every window that is larger     *)
(* than the windows of the next level is cut again, down to MaxDepth.  The *)
(* chunks of one level are handed to the callback by a goroutine each, at  *)
(* most MaxConcurrent at a time; the level below starts when the whole     *)
(* level has returned, one chunk after the other, depth first.  The        *)
(* ChunkManager keeps the tree and the status of every chunk.              *)
(*                                                                         *)
(* A text is the set of its character boundaries, counted in bytes: 0, its *)
(* length, and the ends of its characters between.  A chunk is the piece   *)
(* lo..hi of the text.                                                     *)
(***************************************************************************)
EXTENDS Integers, FiniteSets, SequencesExt

CONSTANTS Uses,      \* texts with the options and the caller they come from
          MaxFaults  \* bound: callbacks and calls of other services that fail

ASSUME ChunkerAssumption ==
  /\ MaxFaults \in Nat
  /\ \A u \in Uses : /\ 0 \in u.cuts /\ u.cuts \subseteq Nat /\ IsFiniteSet(u.cuts)
                     /\ u.size \in Nat \ {0} /\ u.overlap \in Nat
                     /\ {u.maxDepth, u.multiplier, u.concurrent} \subseteq Int

VARIABLES use,       \* the text and its options, as validated
          tree,      \* the ChunkManager: chunks in the order they were added
          frames,    \* the levels in progress, the outermost first
          cancelled, \* the context
          outcome,   \* new, running, ok or error: what Chunk has returned
          faults

chunker == <<use, tree, frames, cancelled, outcome, faults>>

\* validateAndFixOptions, and the default of processCurrentLevel.
Fixed(u) ==
  [u EXCEPT !.maxDepth = Max({1, Min({5, u.maxDepth})}),
            !.multiplier = IF u.multiplier <= 0 THEN 3 ELSE u.multiplier,
            !.concurrent = IF u.concurrent <= 0 THEN 10 ELSE u.concurrent]

\* calculateSubSize and calculateSubOverlap.
Scaled(base, d) ==
  IF d >= use.maxDepth THEN base ELSE base * (use.maxDepth - d) * use.multiplier

\* fixUTF8Chunk: the whole characters of lo..hi, maybe none.
Whole(lo, hi) ==
  LET kept == {k \in use.cuts : lo <= k /\ k <= hi}
  IN IF kept = {} THEN <<lo, lo>> ELSE <<Min(kept), Max(kept)>>

\* A chunk of depth d over the piece w, as it is added to the manager.  It is a
\* leaf exactly if processStreamLevels will not cut it again.
Chunk(w, p, d) ==
  LET leaf == d >= use.maxDepth \/ w[2] - w[1] <= Scaled(use.size, d + 1)
  IN [lo |-> w[1], hi |-> w[2], parent |-> p, depth |-> d, leaf |-> leaf,
      status |-> IF leaf THEN "completed" ELSE "pending", call |-> "new"]

\* Mutation: the last window is dropped, as with a loop that stops a step early.
Level_short(lo, hi, p, d) ==
  LET size == Scaled(use.size, d)
      step == size - Scaled(use.overlap, d)
      From(k) == lo + (k - 1) * step
      count == IF hi - lo <= size THEN 1 ELSE (hi - lo - 1) \div size + 1
  IN [k \in 1..count |-> Chunk(Whole(From(k), Min({From(k) + size, hi})), p, d)]

\* generateStreamChunksWithLines: the windows of lo..hi; the last may lie inside
\* the one before.
Level(lo, hi, p, d) ==
  LET size == Scaled(use.size, d)
      step == size - Scaled(use.overlap, d)
      From(k) == lo + (k - 1) * step
      count == IF hi - lo <= size THEN 1 ELSE (hi - lo - 1) \div step + 1
  IN [k \in 1..count |-> Chunk(Whole(From(k), Min({From(k) + size, hi})), p, d)]

Frame(first, last) ==
  [first |-> first, last |-> last, next |-> first, at |-> "loop", err |-> FALSE]

Chunks == DOMAIN tree
Top == frames[Len(frames)]
At(where) == outcome = "running" /\ Top.at = where
Running == {c \in Top.first..Top.last : tree[c].call = "calling"}
SetTop(f) == frames' = [frames EXCEPT ![Len(frames)] = f]
Below(p) == {c \in Chunks : tree[c].parent = p}

\* checkParentCompletion: what is completed once c is: c, and its parent if all
\* the other children are completed, and so on.
CompletedBy[c \in Chunks] ==
  LET p == tree[c].parent
  IN IF p = 0 \/ \E k \in Below(p) \ {c} : tree[k].status # "completed"
     THEN {c} ELSE {c} \cup CompletedBy[p]

ChunkerInit(uses) ==
  /\ use \in {Fixed(u) : u \in uses}
  /\ tree = <<>> /\ frames = <<>>
  /\ cancelled = FALSE /\ outcome = "new" /\ faults = 0

\* Chunk and ChunkStream: the first level is cut.
Begin ==
  /\ outcome = "new" /\ outcome' = "running"
  /\ tree' = Level(0, Max(use.cuts), 0, 1)
  /\ frames' = <<Frame(1, Len(tree'))>>
  /\ UNCHANGED <<use, cancelled, faults>>

\* processCurrentLevel, the head of its loop: the context is looked at, then the
\* semaphore is waited for and the chunk's goroutine started.
Check ==
  /\ At("loop") /\ Top.next <= Top.last
  /\ SetTop([Top EXCEPT !.at = IF cancelled THEN "raise" ELSE "acquire"])
  /\ UNCHANGED <<use, tree, cancelled, outcome, faults>>

\* Mutation: no semaphore.
Acquire_free ==
  /\ At("acquire")
  /\ tree' = [tree EXCEPT ![Top.next].call = "calling"]
  /\ SetTop([Top EXCEPT !.at = "loop", !.next = @ + 1])
  /\ UNCHANGED <<use, cancelled, outcome, faults>>

\* Mutation: the semaphore is waited for before the goroutine has room for itself.
Acquire_spare ==
  /\ At("acquire") /\ Cardinality(Running) + 1 < use.concurrent
  /\ tree' = [tree EXCEPT ![Top.next].call = "calling"]
  /\ SetTop([Top EXCEPT !.at = "loop", !.next = @ + 1])
  /\ UNCHANGED <<use, cancelled, outcome, faults>>

Acquire ==
  /\ At("acquire") /\ Cardinality(Running) < use.concurrent
  /\ tree' = [tree EXCEPT ![Top.next].call = "calling"]
  /\ SetTop([Top EXCEPT !.at = "loop", !.next = @ + 1])
  /\ UNCHANGED <<use, cancelled, outcome, faults>>

\* wg.Wait, then the first error of the level is returned.
Join ==
  /\ At("loop") /\ Top.next > Top.last /\ Running = {}
  /\ SetTop([Top EXCEPT !.at = IF Top.err THEN "raise" ELSE "descend",
                        !.next = Top.first])
  /\ UNCHANGED <<use, tree, cancelled, outcome, faults>>

\* processStreamLevels and processTextLevelsWithLines after their level: the next
\* chunk that is large enough is cut.
Large == {c \in Top.next..Top.last : ~tree[c].leaf}

\* createChunksWithLines: the windows of the text of a chunk.
Cut(c) == Level(tree[c].lo, tree[c].hi, c, tree[c].depth + 1)

Descend ==
  /\ At("descend") /\ Large # {}
  /\ LET c == Min(Large)
         level == Cut(c)
     IN /\ tree' = [tree EXCEPT ![c].status = "processing"] \o level
        /\ frames' = Append([frames EXCEPT ![Len(frames)].next = c + 1],
                            Frame(Len(tree) + 1, Len(tree) + Len(level)))
  /\ UNCHANGED <<use, cancelled, outcome, faults>>

\* The level is done: back to the level above, or out of Chunk.
Leave ==
  /\ At("descend") /\ Large = {}
  /\ frames' = Front(frames)
  /\ outcome' = IF Len(frames) = 1 THEN "ok" ELSE outcome
  /\ UNCHANGED <<use, tree, cancelled, faults>>

\* An error passes up: the chunk that was being cut has failed.
Raise ==
  /\ At("raise")
  /\ IF Len(frames) = 1
     THEN frames' = <<>> /\ outcome' = "error" /\ UNCHANGED tree
     ELSE /\ frames' = [Front(frames) EXCEPT ![Len(frames) - 1].at = "raise"]
          /\ tree' = [tree EXCEPT ![tree[Top.first].parent].status = "failed"]
          /\ UNCHANGED outcome
  /\ UNCHANGED <<use, cancelled, faults>>

\* Mutation: completion is passed to the parent only.
Succeed_once(c) ==
  /\ tree' = [k \in Chunks |->
       [tree[k] EXCEPT !.call = IF k = c THEN "done" ELSE @,
                       !.status = IF tree[c].leaf /\ k \in CompletedBy[c] \cap {c, tree[c].parent}
                                  THEN "completed" ELSE @]]
  /\ UNCHANGED <<use, frames, cancelled, outcome, faults>>

\* The callback of c has returned and its goroutine ends; if the level was left on
\* cancellation, nobody waits for it any more.
Succeed(c) ==
  /\ tree' = [k \in Chunks |->
       [tree[k] EXCEPT !.call = IF k = c THEN "done" ELSE @,
                       !.status = IF tree[c].leaf /\ k \in CompletedBy[c]
                                  THEN "completed" ELSE @]]
  /\ UNCHANGED <<use, frames, cancelled, outcome, faults>>

Refuse(c) ==
  /\ faults < MaxFaults /\ faults' = faults + 1
  /\ tree' = [tree EXCEPT ![c].call = "refused", ![c].status = "failed"]
  /\ IF outcome = "running" /\ c \in Top.first..Top.last
     THEN SetTop([Top EXCEPT !.err = TRUE]) ELSE UNCHANGED frames
  /\ UNCHANGED <<use, cancelled, outcome>>

Cancel ==
  /\ ~cancelled /\ cancelled' = TRUE
  /\ UNCHANGED <<use, tree, frames, outcome, faults>>

\* Steps of the goroutine that called Chunk.
Main == Begin \/ Check \/ Acquire \/ Join \/ Descend \/ Leave \/ Raise
=============================================================================
