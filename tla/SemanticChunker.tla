---------------------------- MODULE SemanticChunker ----------------------------
(***************************************************************************)
(* The semantic chunker of graphrag (graphrag/chunking/semantic.go).  The  *)
(* structured chunker cuts the text into large windows; a language model   *)
(* is asked for the segments of each, at most MaxConcurrent windows at a   *)
(* time and each over and over until it answers or MaxRetry is exhausted,  *)
(* when the window itself is taken; the segments, in the order of the      *)
(* windows, are handed to the callback one after the other, and above them *)
(* the levels of the hierarchy, made by joining groups of the level below. *)
(*                                                                         *)
(* A segment of the lowest level is a piece of the text; the text of any   *)
(* other one is the texts of a range of these, joined by newlines.  Texts  *)
(* whose windows and segments are not blank are modelled, and different    *)
(* pieces of a text are taken to differ.                                   *)
(***************************************************************************)
EXTENDS StructuredChunker

CONSTANT MaxAnswer  \* bound: segments in an answer of the language model

VARIABLES
  sem,       \* where Chunk stands, "off" if the structured chunker is used alone
  window,    \* the next window to ask for
  asked,     \* windows whose goroutine runs
  answers,   \* what each window has become
  base,      \* the segments of all windows: where each is, and if its Parents is empty
  pieces,    \* the chunks made, level by level from the lowest
  delivered  \* how many of them the callback has had

semantic == <<sem, window, asked, answers, base, pieces, delivered>>
progress == <<window, asked, answers, base>>

\* validateAndPrepareOptions and getStructuredChunks: one level of windows.
Prepared(u) ==
  IF u.kind # "semantic" THEN u
  ELSE [u EXCEPT !.overlap = IF @ <= 0 \/ @ > u.unit THEN 50 ELSE @,
                 !.size = IF u.context <= 0 THEN u.unit * u.levels * 3 ELSE u.context,
                 !.maxDepth = 1,
                 !.asks = IF @ <= 0 THEN 4 ELSE @]

\* An Overlap of Size or more makes the loop over windows go nowhere.
ASSUME SemanticAssumption ==
  /\ MaxAnswer \in Nat \ {0}
  /\ Uses \subseteq [kind : {"structured", "semantic"}, caller : {"AddFile", "user"},
                      cuts : SUBSET Nat, size : Int, overlap : Int, maxDepth : Int,
                      multiplier : Int, concurrent : Int, unit : Int, levels : Int,
                      context : Int, asks : Int]
  /\ \A u \in Uses : Prepared(u).overlap < Prepared(u).size
  /\ \A u \in Uses : u.kind = "semantic" => u.levels \in Nat \ {0} /\ u.unit \in Nat \ {0}

SemanticInit ==
  /\ ChunkerInit({Prepared(u) : u \in Uses})
  /\ sem = IF use.kind = "semantic" THEN "windows" ELSE "off"
  /\ window = 1 /\ asked = {} /\ answers = <<>> /\ base = <<>>
  /\ pieces = <<>> /\ delivered = 0

\* The callback of getStructuredChunks, which takes a lock.
Collect(c) ==
  /\ sem # "off" /\ c \in Chunks /\ tree[c].call = "calling"
  /\ Succeed(c) /\ UNCHANGED semantic

Collected ==
  /\ sem = "windows" /\ outcome \in {"ok", "error"}
  /\ sem' = IF outcome = "ok" THEN "segment" ELSE "error"
  /\ UNCHANGED <<chunker, progress, pieces, delivered>>

-----------------------------------------------------------------------------
(* processSemanticChunks.                                                  *)

\* The head of the loop looks at the context and then waits for the semaphore.
Look ==
  /\ sem = "segment" /\ window <= Len(tree)
  /\ sem' = IF cancelled THEN "error" ELSE "acquire"
  /\ UNCHANGED <<chunker, progress, pieces, delivered>>

Ask ==
  /\ sem = "acquire" /\ Cardinality(asked) < use.asks
  /\ sem' = "segment" /\ window' = window + 1 /\ asked' = asked \cup {window}
  /\ UNCHANGED <<chunker, answers, base, pieces, delivered>>

\* What becomes of window w: segments at these places, and whether they have
\* the window for a parent, which a window taken as it is has not.
Become(w, segments, fallback) ==
  /\ asked' = asked \ {w}
  /\ answers' = [x \in DOMAIN answers \cup {w} |->
       IF x = w THEN [segments |-> segments, fallback |-> fallback] ELSE answers[x]]
  /\ UNCHANGED <<use, tree, frames, cancelled, outcome, sem, window, base, pieces, delivered>>

\* ValidatePositions: any segments of whole characters, in any order.
Valid(w) ==
  {p \in use.cuts \X use.cuts : tree[w].lo <= p[1] /\ p[1] < p[2] /\ p[2] <= tree[w].hi}

\* The language model answers; no segments stand for the whole window.
Answer(w) ==
  /\ w \in asked /\ UNCHANGED faults
  /\ \E n \in 1..MaxAnswer : \E l \in [1..n -> Valid(w)] : Become(w, l, FALSE)

\* The last attempt fails as well, which the end of the context makes sure of.
Fallback(w) ==
  /\ w \in asked
  /\ \/ cancelled /\ UNCHANGED faults
     \/ faults < MaxFaults /\ faults' = faults + 1
  /\ Become(w, <<(<<tree[w].lo, tree[w].hi>>)>>, TRUE)

\* A chunk over the segments first..last of the lowest level.
Piece(first, last, depth, parent) ==
  [first |-> first, last |-> last, depth |-> depth, parent |-> parent]

\* wg.Wait and mergeSemanticChunksInOrder: in the order of the windows.
Merge ==
  /\ sem = "segment" /\ window > Len(tree) /\ asked = {}
  /\ sem' = "output"
  /\ base' = FlattenSeq([w \in 1..Len(tree) |->
       [k \in DOMAIN answers[w].segments |->
         [lo |-> answers[w].segments[k][1], hi |-> answers[w].segments[k][2],
          orphan |-> answers[w].fallback]]])
  /\ pieces' = [k \in 1..Len(base') |-> Piece(k, k, use.levels, 0)]
  /\ UNCHANGED <<chunker, window, asked, answers, delivered>>

-----------------------------------------------------------------------------
(* buildHierarchyAndOutput.                                                *)

\* The chunks of a level; the level that was made last.
LevelOf(d) == {i \in DOMAIN pieces : pieces[i].depth = d}
Depth == IF pieces = <<>> THEN use.levels ELSE pieces[Len(pieces)].depth

Width(first, last) ==
  last - first + FoldSet(LAMBDA k, sum : sum + base[k].hi - base[k].lo, 0, first..last)

\* createNextLevelChunks, the groups of two or more: pairs, or more in higher
\* levels; one that is left over joins the last group, if that is not too long.
\* Each parent is given by the last chunk it is made of.
Groups(d, level) ==
  LET n == Cardinality(level)
      size == Max({2, use.levels - d + 1})
      target == use.unit * (use.levels - d + 2)
      all == (n - 1) \div size + 1
      lowest == Min(level)
      Span(g) == <<pieces[lowest + (g - 1) * size].first,
                   pieces[lowest + Min({g * size, n}) - 1].last>>
      joins == /\ n % size = 1 /\ all > 1
               /\ LET s == Span(all - 1) t == Span(all)
                  IN Width(s[1], s[2]) + Width(t[1], t[2]) <= target * 2
  IN IF n <= 1 THEN <<>>
     ELSE IF joins
          THEN [g \in 1..all - 1 |-> IF g = all - 1 THEN <<Span(g)[1], Span(all)[2]>> ELSE Span(g)]
          ELSE [g \in 1..all |-> Span(g)]

NextLevel(d) ==
  LET g == Groups(d, LevelOf(d + 1))
  IN [k \in DOMAIN g |-> Piece(g[k][1], g[k][2], d, 0)]

\* strings.Contains of the texts of two chunks.
HasText(p, c) ==
  LET n == c.last - c.first
  IN \E i \in p.first..p.last - n : \A k \in 0..n :
       LET big == base[i + k] small == base[c.first + k] IN
       /\ big.lo <= small.lo /\ small.hi <= big.hi
       /\ k > 0 => big.lo = small.lo
       /\ k < n => big.hi = small.hi

\* The callback has the next chunk of the level, or fails.
Deliver ==
  /\ sem = "output" /\ delivered < Len(pieces)
  /\ delivered' = delivered + 1
  /\ UNCHANGED <<chunker, sem, progress, pieces>>

Stumble ==
  /\ sem = "output" /\ delivered < Len(pieces)
  /\ faults < MaxFaults /\ faults' = faults + 1 /\ sem' = "error"
  /\ UNCHANGED <<use, tree, frames, cancelled, outcome, progress, pieces, delivered>>

\* The children of the level above that is out which have no parent yet, and the
\* parents whose turn has not been.
Waiting == {c \in LevelOf(Depth + 1) : pieces[c].parent = 0}
Turn == {p \in LevelOf(Depth) : \A c \in DOMAIN pieces : pieces[c].parent < p}
LevelOut == sem = "output" /\ delivered = Len(pieces)

\* Mutation: only the next child is looked at.
Adopt_one ==
  /\ LevelOut /\ Waiting # {} /\ Turn # {}
  /\ pieces' = [pieces EXCEPT ![Min(Waiting)].parent = Min(Turn)]
  /\ UNCHANGED <<chunker, sem, progress, delivered>>

\* updateChildrenParents: each parent in its turn takes the children that come next
\* as long as its text contains theirs; if not even the first, it takes a share.
Adopt ==
  /\ LevelOut /\ Waiting # {} /\ Turn # {}
  /\ LET p == Min(Turn)
         fit == {c \in Waiting : \A k \in Waiting : k <= c => HasText(pieces[p], pieces[k])}
         share == Max({1, Cardinality(Waiting) \div Cardinality(LevelOf(Depth))})
         taken == IF fit # {} THEN fit ELSE {c \in Waiting : c < Min(Waiting) + share}
     IN pieces' = [c \in DOMAIN pieces |->
          IF c \in taken THEN [pieces[c] EXCEPT !.parent = p] ELSE pieces[c]]
  /\ UNCHANGED <<chunker, sem, progress, delivered>>

\* The next level is made, if there is one.
Ascend ==
  /\ LevelOut /\ (Waiting = {} \/ Turn = {})
  /\ LET next == IF Depth = 1 \/ cancelled THEN <<>> ELSE NextLevel(Depth - 1)
     IN /\ pieces' = pieces \o next
        /\ sem' = IF Depth > 1 /\ cancelled THEN "error"
                  ELSE IF next = <<>> THEN "ok" ELSE "output"
  /\ UNCHANGED <<chunker, progress, delivered>>

Segmenter == Collected \/ Look \/ Ask \/ Merge \/ Adopt \/ Ascend
=============================================================================
