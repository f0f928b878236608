---------------------------- MODULE IngestProofs ----------------------------
(***************************************************************************)
(* What holds of Ingest for all texts, options, answers and numbers of     *)
(* failing calls: what the statuses of the chunks say when Chunk has       *)
(* returned (StatusTells), the types and the nesting of the levels         *)
(* (TypeOK), that a success stores the whole text (TextKept), and the      *)
(* levels of the semantic chunker (Hierarchy).  The first follows from the *)
(* inductive invariant IInv, the others from IInv with TextInv.            *)
(***************************************************************************)
EXTENDS Ingest, WellFoundedInduction, FiniteSetTheorems, TLAPS

-----------------------------------------------------------------------------
(* The inductive invariant.                                                *)

StatusSet == {"pending", "processing", "completed", "failed"}
CallSet == {"new", "calling", "done", "refused"}
ChunkType == [lo : Int, hi : Int, parent : Nat, depth : Nat, leaf : BOOLEAN,
              status : StatusSet, call : CallSet]
FrameType == [first : Nat, last : Nat, next : Nat,
              at : {"loop", "acquire", "descend", "raise"}, err : BOOLEAN]

\* Options as validated.
Usable ==
  /\ 0 \in use.cuts /\ use.cuts \subseteq Nat /\ IsFiniteSet(use.cuts)
  /\ use.size \in Nat \ {0} /\ use.overlap \in Nat /\ use.overlap < use.size
  /\ use.maxDepth \in Nat /\ use.multiplier \in Nat \ {0}

Typed ==
  /\ Usable
  /\ tree \in Seq(ChunkType) /\ frames \in Seq(FrameType)
  /\ cancelled \in BOOLEAN /\ outcome \in {"new", "running", "ok", "error"}

\* A goroutine inside AddFile's callback is one of the structured chunker's.
Inside ==
  /\ DOMAIN local \subseteq Calling
  /\ DOMAIN local # {} => ByAddFile /\ Structured

\* The levels in progress; the chunks of one, and the chunk it was cut from.
Levels == DOMAIN frames
Row(i) == frames[i].first..frames[i].last
Parent(i) == IF i = 1 THEN 0 ELSE frames[i - 1].next - 1

\* Chunks come after the chunk they were cut from; levels are not empty, come one
\* after the other and have all the chunks cut from their parent; a level is cut
\* further when all its chunks are handed out, chunk after chunk.
Ranges ==
  \A i \in Levels :
    /\ 1 <= frames[i].first /\ frames[i].first <= frames[i].last /\ frames[i].last <= Len(tree)
    /\ frames[i].first <= frames[i].next /\ frames[i].next <= frames[i].last + 1
    /\ frames[i].at = "acquire" => frames[i].next <= frames[i].last
Ordered == \A i, j \in Levels : i < j => frames[i].last < frames[j].first
Descents == \A c \in Chunks : tree[c].parent < c
Family == \A i \in Levels : \A c \in Chunks : c \in Row(i) <=> tree[c].parent = Parent(i)
Inner ==
  \A i \in Levels : i < Len(frames) =>
    /\ frames[i].at = "descend" /\ frames[i].first < frames[i].next
    /\ ~tree[frames[i].next - 1].leaf
Fresh(i, c) ==
  \/ frames[i].at \in {"loop", "acquire"}
  \/ frames[i].at = "descend" /\ frames[i].next <= c
Uncut ==
  \A i \in Levels : \A c \in Row(i) : Fresh(i, c) => \A k \in Chunks : tree[k].parent # c
Stages == (frames = <<>> <=> outcome # "running") /\ (outcome = "new" => tree = <<>>)

Shape == Ranges /\ Ordered /\ Descents /\ Family /\ Inner /\ Uncut /\ Stages

\* An error is on its way up, or out; after a cancellation it may have left
\* goroutines behind, of which nothing is said.
Raising == outcome = "running" /\ Top.at = "raise"
Failing == outcome = "error" \/ Raising
Clean == ~(cancelled /\ Failing)

Failed == {c \in Chunks : tree[c].status = "failed"}
Refused == {c \in Chunks : tree[c].call = "refused"}

\* How far the callbacks of a level have come.
Calls ==
  \A i \in Levels : \A c \in Row(i) :
    /\ frames[i].at \in {"loop", "acquire"} => (tree[c].call = "new" <=> frames[i].next <= c)
    /\ frames[i].at = "descend" => tree[c].call = "done"
Errs ==
  \A i \in Levels : frames[i].at \in {"loop", "acquire"} =>
    (frames[i].err <=> \E c \in Row(i) : tree[c].call = "refused")

\* The chunks of a level that was cut so far are completed, but for the one in
\* progress.
Cuts ==
  \A i \in Levels : \A c \in Row(i) :
    frames[i].at = "descend" /\ c < frames[i].next
      /\ (i = Len(frames) \/ c # frames[i].next - 1) => tree[c].status = "completed"

Statuses ==
  \A c \in Chunks :
    /\ tree[c].leaf /\ tree[c].call # "refused" => tree[c].status = "completed"
    /\ ~tree[c].leaf /\ tree[c].status = "completed" => \E k \in Chunks : tree[k].parent = c
    /\ tree[c].call = "refused" => tree[c].status = "failed"

\* The chunk being cut is completed as soon as its children are.
Passed ==
  \A i \in Levels \ {1} :
    (\A c \in Row(i) : tree[c].status = "completed") /\ (\E c \in Row(i) : tree[c].call = "done")
      => tree[Parent(i)].status = "completed"

\* While all is well, nothing has failed but a callback of a level in progress, and
\* what was left is completed.
Well ==
  ~Failing =>
    /\ Failed = Refused
    /\ \A c \in Chunks : \/ \E i \in Levels : c \in Row(i)
                         \/ tree[c].call = "done" /\ tree[c].status = "completed"

\* An error has failed, or is going to fail, what is above a failed callback.
Blamed == Failed \cup {Parent(i) : i \in Levels \ {1}}
Ill ==
  Failing =>
    /\ Calling = {}
    /\ Refused \subseteq Blamed
    /\ \A c \in Blamed : tree[c].parent \in Blamed \cup {0}
    /\ \A c \in Blamed \ Refused : \E k \in Blamed : tree[k].parent = c

Sound == Clean => Calls /\ Errs /\ Cuts /\ Statuses /\ Passed /\ Well /\ Ill

IInv == Typed /\ Inside /\ Shape /\ Sound

-----------------------------------------------------------------------------
(* Numbers and sets of numbers.                                            *)

LEMMA Least ==
  ASSUME NEW T \in SUBSET Nat, T # {}
  PROVE  \E x \in T : \A y \in T : x <= y
  <1> DEFINE R == OpToRel(<, Nat)
  <1>1. IsWellFoundedOn(R, Nat)
    BY NatLessThanWellFounded
  <1>2. \A x, y \in Nat : y < x => <<y, x>> \in R
    BY DEF OpToRel
  <1> HIDE DEF R
  <1>3. PICK x \in T : \A y \in T : <<y, x>> \notin R
    BY <1>1, WFMin
  <1>4. ASSUME NEW y \in T PROVE x <= y
    <2>1. x \in Nat /\ y \in Nat /\ ~(y < x)
      BY <1>2, <1>3
    <2> QED
      BY <2>1
  <1> QED
    BY <1>4

LEMMA MinIsLeast ==
  ASSUME NEW T \in SUBSET Nat, T # {}
  PROVE  Min(T) \in T /\ \A y \in T : Min(T) <= y
  <1>1. \E x \in T : \A y \in T : x <= y
    BY Least
  <1> QED
    BY <1>1 DEF Min

\* A finite set of numbers is bounded.
LEMMA Bounded ==
  ASSUME NEW S \in SUBSET Nat, IsFiniteSet(S)
  PROVE  \E b \in Nat : \A s \in S : s <= b
  <1>1. PICK n \in Nat : ExistsBijection(1..n, S)
    BY FS_NatBijection
  <1>2. PICK f \in [1..n -> S] : \A s \in S : \E k \in 1..n : f[k] = s
    BY <1>1 DEF ExistsBijection, Bijection, Surjection
  <1> DEFINE Bound(k, b) == \A j \in 1..k : f[j] <= b
             T == {k \in Nat : k <= n /\ \A b \in Nat : ~Bound(k, b)}
  <1>3. T = {}
    <2> SUFFICES ASSUME T # {} PROVE FALSE
      OBVIOUS
    <2>1. PICK k \in T : \A j \in T : k <= j
      <3>1. T \in SUBSET Nat
        OBVIOUS
      <3> HIDE DEF T
      <3> QED
        BY <3>1, Least
    <2>2. k \in Nat /\ k <= n
      OBVIOUS
    <2>3. \A b \in Nat : ~Bound(k, b)
      OBVIOUS
    <2>4. k # 0
      <3>1. Bound(0, 0)
        OBVIOUS
      <3> HIDE DEF Bound, T
      <3> QED
        BY <2>3, <3>1
    <2>5. k - 1 \in Nat /\ k - 1 <= n /\ k - 1 \notin T /\ k \in 1..n
      <3> HIDE DEF T
      <3> QED
        BY <2>1, <2>2, <2>4
    <2>6. PICK b \in Nat : Bound(k - 1, b)
      <3> HIDE DEF Bound
      <3> QED
        BY <2>5
    <2> HIDE DEF T
    <2>7. f[k] \in Nat
      BY <2>5
    <2>8. \E d \in Nat : b <= d /\ f[k] <= d
      <3>1. CASE b <= f[k]
        BY <3>1, <2>7
      <3>2. CASE ~(b <= f[k])
        BY <3>2, <2>7
      <3> QED
        BY <3>1, <3>2
    <2>9. PICK d \in Nat : b <= d /\ f[k] <= d
      BY <2>8
    <2>10. Bound(k, d)
      <3> SUFFICES ASSUME NEW j \in 1..k PROVE f[j] <= d
        OBVIOUS
      <3>1. CASE j = k
        BY <3>1, <2>9
      <3>2. CASE j # k
        <4>1. j \in 1..k - 1 /\ j \in 1..n
          BY <3>2, <2>2
        <4>2. f[j] <= b /\ f[j] \in Nat
          BY <4>1, <2>6
        <4> QED
          BY <4>2, <2>9
      <3> QED
        BY <3>1, <3>2
    <2> HIDE DEF Bound
    <2> QED
      BY <2>3, <2>10
  <1>4. \E b \in Nat : Bound(n, b)
    <2>1. n \notin T
      <3> HIDE DEF T
      <3> QED
        BY <1>3
    <2> HIDE DEF Bound
    <2> QED
      BY <2>1
  <1>5. PICK b \in Nat : Bound(n, b)
    BY <1>4
  <1> QED
    BY <1>2, <1>5

LEMMA MaxIsGreatest ==
  ASSUME NEW S \in SUBSET Nat, IsFiniteSet(S), S # {}
  PROVE  Max(S) \in S /\ \A s \in S : s <= Max(S)
  <1> DEFINE T == {b \in Nat : \A s \in S : s <= b}
  <1>1. PICK b \in T : \A d \in T : b <= d
    <2>1. T # {}
      BY Bounded
    <2> QED
      BY <2>1, Least
  <1>2. b \in S
    <2> SUFFICES ASSUME b \notin S PROVE FALSE
      OBVIOUS
    <2>1. \A s \in S : s \in Nat /\ s <= b /\ s # b
      BY <1>1
    <2>2. b \in Nat /\ b # 0
      <3>1. PICK s \in S : TRUE
        OBVIOUS
      <3>2. s \in Nat /\ s <= b /\ s # b /\ b \in Nat
        BY <2>1
      <3> QED
        BY <3>2
    <2>3. b - 1 \in T
      BY <2>1, <2>2
    <2> QED
      BY <1>1, <2>2, <2>3
  <1>3. \E x \in S : \A s \in S : x >= s
    BY <1>1, <1>2
  <1>4. Max(S) \in S /\ \A s \in S : Max(S) >= s
    BY <1>3 DEF Max
  <1> QED
    BY <1>4

LEMMA Multiplied ==
  ASSUME NEW x \in Nat, NEW y \in Nat, NEW k \in Nat \ {0}, x < y
  PROVE  x * k < y * k /\ x * k \in Nat /\ y * k \in Nat
  <1>1. y * k = x * k + (y - x) * k
    OBVIOUS
  <1>2. (y - x) * k > 0
    OBVIOUS
  <1>3. x * k \in Nat /\ y * k \in Nat /\ (y - x) * k \in Int
    OBVIOUS
  <1> QED
    BY <1>1, <1>2, <1>3

LEMMA Quotient ==
  ASSUME NEW a \in Nat, NEW b \in Nat \ {0}
  PROVE  a \div b \in Nat
  OBVIOUS

-----------------------------------------------------------------------------
(* The levels that are cut.                                                *)

LEMMA ScaledType ==
  ASSUME Usable, NEW d \in Nat
  PROVE  /\ Scaled(use.size, d) \in Nat \ {0} /\ Scaled(use.overlap, d) \in Nat
         /\ Scaled(use.overlap, d) < Scaled(use.size, d)
  <1>1. CASE d >= use.maxDepth
    BY <1>1 DEF Usable, Scaled
  <1>2. CASE ~(d >= use.maxDepth)
    <2> DEFINE a == use.maxDepth - d
    <2>1. a \in Nat \ {0} /\ use.multiplier \in Nat \ {0} /\ use.overlap \in Nat
          /\ use.size \in Nat /\ use.overlap < use.size
      BY <1>2 DEF Usable
    <2>2. Scaled(use.size, d) = use.size * a * use.multiplier
          /\ Scaled(use.overlap, d) = use.overlap * a * use.multiplier
      BY <1>2 DEF Scaled
    <2> HIDE DEF a
    <2>3. use.overlap * a < use.size * a /\ use.overlap * a \in Nat /\ use.size * a \in Nat
      BY <2>1, Multiplied
    <2> DEFINE x == use.overlap * a
               y == use.size * a
    <2>4. x \in Nat /\ y \in Nat /\ x < y
      BY <2>3
    <2> HIDE DEF x, y
    <2>5. x * use.multiplier < y * use.multiplier
          /\ x * use.multiplier \in Nat /\ y * use.multiplier \in Nat
      BY <2>1, <2>4, Multiplied
    <2>6. Scaled(use.size, d) = y * use.multiplier
          /\ Scaled(use.overlap, d) = x * use.multiplier
      BY <2>2 DEF x, y
    <2> QED
      BY <2>5, <2>6
  <1> QED
    BY <1>1, <1>2

LEMMA WholeType ==
  ASSUME Usable, NEW lo \in Int, NEW hi \in Int
  PROVE  \E x, y \in Int : Whole(lo, hi) = <<x, y>>
  <1> DEFINE kept == {k \in use.cuts : lo <= k /\ k <= hi}
  <1>1. CASE kept = {}
    BY <1>1 DEF Whole
  <1>2. CASE kept # {}
    <2>1. kept \in SUBSET Nat /\ kept \in SUBSET use.cuts /\ IsFiniteSet(use.cuts)
      BY DEF Usable
    <2>2. Whole(lo, hi) = <<Min(kept), Max(kept)>>
      BY <1>2 DEF Whole
    <2> HIDE DEF kept
    <2>3. IsFiniteSet(kept)
      BY <2>1, FS_Subset
    <2>4. Min(kept) \in kept /\ Max(kept) \in kept
      BY <1>2, <2>1, <2>3, MinIsLeast, MaxIsGreatest
    <2>5. Min(kept) \in Int /\ Max(kept) \in Int
      BY <2>1, <2>4
    <2> QED
      BY <2>2, <2>5
  <1> QED
    BY <1>1, <1>2

LEMMA ChunkTyped ==
  ASSUME NEW x \in Int, NEW y \in Int, NEW p \in Nat, NEW d \in Nat
  PROVE  LET c == Chunk(<<x, y>>, p, d) IN
         /\ c \in ChunkType /\ c.parent = p /\ c.call = "new"
         /\ c.status = (IF c.leaf THEN "completed" ELSE "pending")
  <1> DEFINE leaf == d >= use.maxDepth \/ y - x <= Scaled(use.size, d + 1)
  <1>1. leaf \in BOOLEAN
    OBVIOUS
  <1>2. Chunk(<<x, y>>, p, d) =
          [lo |-> x, hi |-> y, parent |-> p, depth |-> d, leaf |-> leaf,
           status |-> IF leaf THEN "completed" ELSE "pending", call |-> "new"]
    BY DEF Chunk
  <1> HIDE DEF leaf
  <1> QED
    BY <1>1, <1>2 DEF ChunkType, StatusSet, CallSet

\* generateStreamChunksWithLines returns at least one window; all are chunks whose
\* callback is still to come.
NewLevel(L, p) ==
  /\ L \in Seq(ChunkType) /\ Len(L) \in Nat \ {0}
  /\ \A k \in 1..Len(L) : /\ L[k].parent = p /\ L[k].call = "new"
                          /\ L[k].status = (IF L[k].leaf THEN "completed" ELSE "pending")

LEMMA LevelTyped ==
  ASSUME Usable, NEW lo \in Int, NEW hi \in Int, NEW p \in Nat, NEW d \in Nat
  PROVE  NewLevel(Level(lo, hi, p, d), p)
  <1> DEFINE size == Scaled(use.size, d)
             step == size - Scaled(use.overlap, d)
             From(k) == lo + (k - 1) * step
             count == IF hi - lo <= size THEN 1 ELSE (hi - lo - 1) \div step + 1
             Window(k) == Whole(From(k), Min({From(k) + size, hi}))
  <1>1. size \in Nat \ {0} /\ step \in Nat \ {0}
    BY ScaledType
  <1>2. count \in Nat \ {0}
    <2>1. CASE hi - lo <= size
      BY <2>1
    <2>2. CASE ~(hi - lo <= size)
      <3> HIDE DEF size, step
      <3>1. hi - lo - 1 \in Nat
        BY <2>2, <1>1
      <3>2. (hi - lo - 1) \div step \in Nat
        BY <3>1, <1>1, Quotient
      <3> QED
        BY <2>2, <3>2
    <2> QED
      BY <2>1, <2>2
  <1>3. Level(lo, hi, p, d) = [k \in 1..count |-> Chunk(Window(k), p, d)]
    BY DEF Level
  <1>4. ASSUME NEW k \in 1..count
        PROVE  LET c == Chunk(Window(k), p, d) IN
               /\ c \in ChunkType /\ c.parent = p /\ c.call = "new"
               /\ c.status = (IF c.leaf THEN "completed" ELSE "pending")
    <2>1. From(k) \in Int
      <3> HIDE DEF size, step
      <3>1. k - 1 \in Int
        BY <1>2
      <3> QED
        BY <1>1, <3>1
    <2>2. Min({From(k) + size, hi}) \in Int
      <3> DEFINE a == From(k) + size
      <3>1. a \in Int
        BY <1>1, <2>1
      <3> HIDE DEF a
      <3>2. \E x \in {a, hi} : \A y \in {a, hi} : x <= y
        BY <3>1
      <3>3. Min({a, hi}) \in {a, hi}
        BY <3>2 DEF Min
      <3> QED
        BY <3>1, <3>3 DEF a
    <2> HIDE DEF From, size
    <2>3. PICK x, y \in Int : Window(k) = <<x, y>>
      BY <2>1, <2>2, WholeType
    <2> HIDE DEF Window
    <2> QED
      BY <2>3, ChunkTyped
  <1> HIDE DEF count, Window
  <1>5. [k \in 1..count |-> Chunk(Window(k), p, d)] \in Seq(ChunkType)
    BY <1>2, <1>4
  <1>6. Len(Level(lo, hi, p, d)) = count
    BY <1>2, <1>3
  <1> QED
    BY <1>2, <1>3, <1>4, <1>5, <1>6 DEF NewLevel

-----------------------------------------------------------------------------
(* Parents.                                                                *)

\* The recursive functions of the model are well defined since a chunk comes after
\* its parent.
CompletedBody(f, c) ==
  LET p == tree[c].parent
  IN IF p = 0 \/ \E k \in Below(p) \ {c} : tree[k].status # "completed"
     THEN {c} ELSE {c} \cup f[p]

AboveBody(f, c) == IF c = 0 THEN {} ELSE {c} \cup f[tree[c].parent]

LEMMA ChunkFields ==
  ASSUME tree \in Seq(ChunkType), NEW c \in Chunks
  PROVE  /\ tree[c] \in ChunkType /\ c \in 1..Len(tree) /\ c \in Nat
         /\ tree[c].parent \in Nat /\ tree[c].depth \in Nat /\ tree[c].leaf \in BOOLEAN
         /\ tree[c].lo \in Int /\ tree[c].hi \in Int
  <1>1. tree[c] \in ChunkType /\ c \in 1..Len(tree)
    BY DEF Chunks
  <1> QED
    BY <1>1 DEF ChunkType

LEMMA CompletedByUnfolds ==
  ASSUME tree \in Seq(ChunkType), Descents
  PROVE  \A c \in Chunks : CompletedBy[c] = CompletedBody(CompletedBy, c)
  <1> DEFINE T == {n \in Nat : n <= Len(tree) /\
                     ~\E f : f = [c \in 1..n |-> CompletedBody(f, c)]}
  <1>1. Len(tree) \in Nat /\ Chunks = 1..Len(tree)
    BY DEF Chunks
  <1>2. \A c \in Chunks : tree[c].parent \in Nat /\ tree[c].parent < c
    BY ChunkFields DEF Descents
  <1>3. T = {}
    <2> SUFFICES ASSUME T # {} PROVE FALSE
      OBVIOUS
    <2>1. PICK n \in T : \A m \in T : n <= m
      <3>1. T \in SUBSET Nat
        OBVIOUS
      <3> HIDE DEF T
      <3> QED
        BY <3>1, Least
    <2>2. n \in Nat /\ n <= Len(tree) /\ ~\E f : f = [c \in 1..n |-> CompletedBody(f, c)]
      OBVIOUS
    <2>3. n # 0
      <3> SUFFICES ASSUME n = 0 PROVE FALSE
        OBVIOUS
      <3> DEFINE f == [c \in {} |-> {}]
      <3>1. f = [c \in 1..n |-> CompletedBody(f, c)]
        OBVIOUS
      <3> QED
        BY <2>2, <3>1
    <2>4. n - 1 \in Nat /\ n - 1 <= Len(tree) /\ n - 1 \notin T
      <3> HIDE DEF T
      <3> QED
        BY <2>1, <2>2, <2>3, <1>1
    <2>5. PICK f : f = [c \in 1..n - 1 |-> CompletedBody(f, c)]
      BY <2>4
    <2> HIDE DEF T
    <2> DEFINE g == [c \in 1..n |-> CompletedBody(f, c)]
    <2>6. \A c \in 1..n - 1 : g[c] = f[c]
      BY <2>2, <2>5
    <2>7. ASSUME NEW c \in 1..n PROVE CompletedBody(g, c) = CompletedBody(f, c)
      <3>1. tree[c].parent = 0 \/ tree[c].parent \in 1..n - 1
        BY <1>1, <1>2, <2>2
      <3>2. tree[c].parent = 0 \/ g[tree[c].parent] = f[tree[c].parent]
        BY <3>1, <2>6
      <3> HIDE DEF g
      <3> QED
        BY <3>2 DEF CompletedBody
    <2>8. g = [c \in 1..n |-> CompletedBody(g, c)]
      <3>1. g = [c \in 1..n |-> CompletedBody(f, c)]
        OBVIOUS
      <3> HIDE DEF g
      <3> QED
        BY <3>1, <2>7
    <2> QED
      BY <2>2, <2>8
  <1>4. PICK f : f = [c \in Chunks |-> CompletedBody(f, c)]
    BY <1>1, <1>3
  <1>5. CompletedBy = [c \in Chunks |-> CompletedBody(CompletedBy, c)]
    BY <1>4, Zenon DEF CompletedBy, CompletedBody
  <1> QED
    BY <1>5

LEMMA AboveUnfolds ==
  ASSUME tree \in Seq(ChunkType), Descents
  PROVE  \A c \in 0..Len(tree) : Above[c] = AboveBody(Above, c)
  <1> DEFINE T == {n \in Nat : n <= Len(tree) /\
                     ~\E f : f = [c \in 0..n |-> AboveBody(f, c)]}
  <1>1. Len(tree) \in Nat /\ Chunks = 1..Len(tree)
    BY DEF Chunks
  <1>2. \A c \in Chunks : tree[c].parent \in Nat /\ tree[c].parent < c
    BY ChunkFields DEF Descents
  <1>3. T = {}
    <2> SUFFICES ASSUME T # {} PROVE FALSE
      OBVIOUS
    <2>1. PICK n \in T : \A m \in T : n <= m
      <3>1. T \in SUBSET Nat
        OBVIOUS
      <3> HIDE DEF T
      <3> QED
        BY <3>1, Least
    <2>2. n \in Nat /\ n <= Len(tree) /\ ~\E f : f = [c \in 0..n |-> AboveBody(f, c)]
      OBVIOUS
    <2>3. n # 0
      <3> SUFFICES ASSUME n = 0 PROVE FALSE
        OBVIOUS
      <3> DEFINE f == [c \in {0} |-> {}]
      <3>1. 0..n = {0}
        OBVIOUS
      <3>2. f = [c \in 0..n |-> AboveBody(f, c)]
        BY <3>1 DEF AboveBody
      <3> QED
        BY <2>2, <3>2
    <2>4. n - 1 \in Nat /\ n - 1 <= Len(tree) /\ n - 1 \notin T
      <3> HIDE DEF T
      <3> QED
        BY <2>1, <2>2, <2>3, <1>1
    <2>5. PICK f : f = [c \in 0..n - 1 |-> AboveBody(f, c)]
      BY <2>4
    <2> HIDE DEF T
    <2> DEFINE g == [c \in 0..n |-> AboveBody(f, c)]
    <2>6. \A c \in 0..n - 1 : g[c] = f[c]
      BY <2>2, <2>5
    <2>7. ASSUME NEW c \in 0..n PROVE AboveBody(g, c) = AboveBody(f, c)
      <3>1. c = 0 \/ tree[c].parent \in 0..n - 1
        BY <1>1, <1>2, <2>2
      <3>2. c = 0 \/ g[tree[c].parent] = f[tree[c].parent]
        BY <3>1, <2>6
      <3> HIDE DEF g
      <3> QED
        BY <3>2 DEF AboveBody
    <2>8. g = [c \in 0..n |-> AboveBody(g, c)]
      <3>1. g = [c \in 0..n |-> AboveBody(f, c)]
        OBVIOUS
      <3> HIDE DEF g
      <3> QED
        BY <3>1, <2>7
    <2> QED
      BY <2>2, <2>8
  <1>4. PICK f : f = [c \in 0..Len(tree) |-> AboveBody(f, c)]
    BY <1>1, <1>3
  <1>5. Above = [c \in 0..Len(tree) |-> AboveBody(Above, c)]
    BY <1>4, Zenon DEF Above, AboveBody
  <1> QED
    BY <1>5

LEMMA CompletedByWithin ==
  ASSUME tree \in Seq(ChunkType), Descents, NEW c \in Chunks, NEW S, c \in S,
         \A k \in Chunks : k \in S => tree[k].parent \in S \cup {0}
  PROVE  CompletedBy[c] \subseteq S
  <1> DEFINE T == {k \in Chunks : k \in S /\ ~(CompletedBy[k] \subseteq S)}
  <1>1. T = {}
    <2> SUFFICES ASSUME T # {} PROVE FALSE
      OBVIOUS
    <2>1. PICK k \in T : \A j \in T : k <= j
      <3>1. T \in SUBSET Nat
        BY ChunkFields
      <3> HIDE DEF T
      <3> QED
        BY <3>1, Least
    <2>2. k \in Chunks /\ k \in S /\ ~(CompletedBy[k] \subseteq S)
      OBVIOUS
    <2>3. CompletedBy[k] = CompletedBody(CompletedBy, k)
      BY <2>2, CompletedByUnfolds
    <2> DEFINE p == tree[k].parent
    <2>4. p \in S \cup {0} /\ p \in Nat /\ p < k /\ k \in 1..Len(tree)
      BY <2>2, ChunkFields DEF Descents
    <2>5. p # 0 /\ CompletedBy[k] = {k} \cup CompletedBy[p]
      BY <2>2, <2>3, Zenon DEF CompletedBody
    <2>6. p \in Chunks /\ p \in S
      <3>1. p \in 1..Len(tree) /\ p \in S
        BY <2>4, <2>5
      <3> QED
        BY <3>1 DEF Chunks
    <2>7. p \in T
      BY <2>2, <2>5, <2>6
    <2> HIDE DEF T
    <2> QED
      BY <2>1, <2>2, <2>4, <2>7
  <1> QED
    BY <1>1

LEMMA CompletedBySelf ==
  ASSUME tree \in Seq(ChunkType), Descents, NEW c \in Chunks
  PROVE  c \in CompletedBy[c]
  BY CompletedByUnfolds DEF CompletedBody

\* checkParentCompletion goes on to the parent if the other children are completed.
LEMMA CompletedByPasses ==
  ASSUME tree \in Seq(ChunkType), Descents, NEW c \in Chunks, NEW k \in CompletedBy[c],
         tree[k].parent # 0,
         \A j \in Chunks : tree[j].parent = tree[k].parent /\ j # k => tree[j].status = "completed"
  PROVE  tree[k].parent \in CompletedBy[c]
  <1> DEFINE T == {d \in Chunks : k \in CompletedBy[d] /\ tree[k].parent \notin CompletedBy[d]}
  <1>1. T = {}
    <2> SUFFICES ASSUME T # {} PROVE FALSE
      OBVIOUS
    <2>1. PICK d \in T : \A j \in T : d <= j
      <3>1. T \in SUBSET Nat
        BY ChunkFields
      <3> HIDE DEF T
      <3> QED
        BY <3>1, Least
    <2>2. d \in Chunks /\ k \in CompletedBy[d] /\ tree[k].parent \notin CompletedBy[d]
      OBVIOUS
    <2> HIDE DEF T
    <2>3. CompletedBy[d] = CompletedBody(CompletedBy, d)
      BY <2>2, CompletedByUnfolds
    <2> DEFINE p == tree[d].parent
    <2>4. p \in Nat /\ p < d /\ d \in 1..Len(tree)
      BY <2>2, ChunkFields DEF Descents
    <2>5. CASE k = d
      <3>1. p # 0
        BY <2>5
      <3>2. \A j \in Below(p) \ {d} : tree[j].status = "completed"
        BY <2>5 DEF Below
      <3>3. CompletedBy[d] = {d} \cup CompletedBy[p]
        BY <2>3, <3>1, <3>2, Zenon DEF CompletedBody
      <3>4. p \in Chunks
        <4>1. p \in 1..Len(tree)
          BY <2>4, <3>1
        <4> QED
          BY <4>1 DEF Chunks
      <3>5. p \in CompletedBy[p]
        BY <3>4, CompletedBySelf
      <3> QED
        BY <2>2, <2>5, <3>3, <3>5
    <2>6. CASE k # d
      <3>1. p # 0 /\ CompletedBy[d] = {d} \cup CompletedBy[p]
        BY <2>2, <2>3, <2>6, Zenon DEF CompletedBody
      <3>2. p \in Chunks
        <4>1. p \in 1..Len(tree)
          BY <2>4, <3>1
        <4> QED
          BY <4>1 DEF Chunks
      <3>3. p \in T
        BY <2>2, <2>6, <3>1, <3>2 DEF T
      <3> QED
        BY <2>1, <2>4, <3>3, ChunkFields, <2>2
    <2> QED
      BY <2>5, <2>6
  <1> QED
    BY <1>1

LEMMA AboveWithin ==
  ASSUME tree \in Seq(ChunkType), Descents, NEW c \in Chunks, NEW S, c \in S,
         \A k \in Chunks : k \in S => tree[k].parent \in S \cup {0}
  PROVE  Above[c] \subseteq S
  <1> DEFINE T == {k \in Chunks : k \in S /\ ~(Above[k] \subseteq S)}
  <1>1. T = {}
    <2> SUFFICES ASSUME T # {} PROVE FALSE
      OBVIOUS
    <2>1. PICK k \in T : \A j \in T : k <= j
      <3>1. T \in SUBSET Nat
        BY ChunkFields
      <3> HIDE DEF T
      <3> QED
        BY <3>1, Least
    <2>2. k \in Chunks /\ k \in S /\ ~(Above[k] \subseteq S)
      OBVIOUS
    <2> DEFINE p == tree[k].parent
    <2>3. p \in S \cup {0} /\ p \in Nat /\ p < k /\ k \in 1..Len(tree)
      BY <2>2, ChunkFields DEF Descents
    <2>4. Above[k] = {k} \cup Above[p]
      <3>1. k \in 0..Len(tree) /\ k # 0
        BY <2>3
      <3>2. Above[k] = AboveBody(Above, k)
        BY <3>1, AboveUnfolds
      <3> QED
        BY <3>1, <3>2, Zenon DEF AboveBody
    <2>5. p # 0
      <3> SUFFICES ASSUME p = 0 PROVE FALSE
        OBVIOUS
      <3>1. 0 \in 0..Len(tree)
        BY <2>3
      <3>2. Above[0] = {}
        BY <3>1, AboveUnfolds DEF AboveBody
      <3> QED
        BY <2>2, <2>4, <3>2
    <2>6. p \in Chunks /\ p \in S
      <3>1. p \in 1..Len(tree) /\ p \in S
        BY <2>3, <2>5
      <3> QED
        BY <3>1 DEF Chunks
    <2>7. p \in T
      BY <2>2, <2>4, <2>6
    <2> HIDE DEF T
    <2> QED
      BY <2>1, <2>2, <2>3, <2>7
  <1> QED
    BY <1>1

LEMMA AboveStep ==
  ASSUME tree \in Seq(ChunkType), Descents, NEW c \in Chunks
  PROVE  /\ Above[c] = {c} \cup Above[tree[c].parent]
         /\ tree[c].parent = 0 => Above[tree[c].parent] = {}
         /\ tree[c].parent # 0 => tree[c].parent \in Chunks
  <1>1. c \in 0..Len(tree) /\ c # 0 /\ 0 \in 0..Len(tree)
    BY ChunkFields
  <1>2. Above[c] = AboveBody(Above, c) /\ Above[0] = AboveBody(Above, 0)
    BY <1>1, AboveUnfolds
  <1>3. Above[c] = {c} \cup Above[tree[c].parent]
    BY <1>1, <1>2, Zenon DEF AboveBody
  <1>4. Above[0] = {}
    BY <1>2, Zenon DEF AboveBody
  <1>5. ASSUME tree[c].parent # 0 PROVE tree[c].parent \in Chunks
    <2>1. tree[c].parent \in Nat /\ tree[c].parent < c /\ c \in 1..Len(tree)
      BY ChunkFields DEF Descents
    <2>2. tree[c].parent \in 1..Len(tree)
      BY <1>5, <2>1
    <2> QED
      BY <2>2 DEF Chunks
  <1> QED
    BY <1>3, <1>4, <1>5

LEMMA AboveGoesUp ==
  ASSUME tree \in Seq(ChunkType), Descents, NEW c \in Chunks, NEW k \in Chunks, k \in Above[c]
  PROVE  tree[k].parent \in Above[c] \cup {0}
  <1> DEFINE T == {d \in Chunks : k \in Above[d] /\ tree[k].parent \notin Above[d] \cup {0}}
  <1>1. T = {}
    <2> SUFFICES ASSUME T # {} PROVE FALSE
      OBVIOUS
    <2>1. PICK d \in T : \A j \in T : d <= j
      <3>1. T \in SUBSET Nat
        BY ChunkFields
      <3> HIDE DEF T
      <3> QED
        BY <3>1, Least
    <2>2. d \in Chunks /\ k \in Above[d] /\ tree[k].parent \notin Above[d] \cup {0}
      OBVIOUS
    <2> HIDE DEF T
    <2> DEFINE p == tree[d].parent
    <2>3. Above[d] = {d} \cup Above[p] /\ (p = 0 => Above[p] = {}) /\ (p # 0 => p \in Chunks)
      BY <2>2, AboveStep
    <2>4. CASE k = d
      <3>1. p # 0 /\ p \in Chunks
        BY <2>2, <2>3, <2>4
      <3>2. p \in Above[p]
        BY <3>1, AboveStep
      <3> QED
        BY <2>2, <2>3, <2>4, <3>2
    <2>5. CASE k # d
      <3>1. p # 0 /\ p \in Chunks /\ p \in T
        BY <2>2, <2>3, <2>5 DEF T
      <3>2. p \in Nat /\ p < d /\ d \in Nat
        BY <2>2, ChunkFields DEF Descents
      <3> QED
        BY <2>1, <3>1, <3>2
    <2> QED
      BY <2>4, <2>5
  <1> QED
    BY <1>1

\* A set of chunks that is closed under parents, and each of which is a failed
\* callback's or has a child in it, is what is above the failed callbacks.
LEMMA AboveRefused ==
  ASSUME tree \in Seq(ChunkType), Descents, NEW F \in SUBSET Chunks, Refused \subseteq F,
         \A c \in F : tree[c].parent \in F \cup {0},
         \A c \in F \ Refused : \E k \in F : tree[k].parent = c
  PROVE  F = UNION {Above[c] : c \in Refused}
  <1>1. ASSUME NEW c \in Refused PROVE Above[c] \subseteq F
    <2>1. c \in Chunks /\ c \in F
      BY DEF Refused
    <2> QED
      BY <2>1, AboveWithin
  <1> DEFINE In(k) == \E c \in Refused : k \in Above[c]
             Rank(k) == Len(tree) - k
             T == {n \in Nat : \E k \in F : Rank(k) = n /\ ~In(k)}
  <1>2. T = {}
    <2> SUFFICES ASSUME T # {} PROVE FALSE
      OBVIOUS
    <2>1. PICK n \in T : \A m \in T : n <= m
      <3>1. T \in SUBSET Nat
        OBVIOUS
      <3> HIDE DEF T
      <3> QED
        BY <3>1, Least
    <2>2. PICK k \in F : Rank(k) = n /\ ~In(k)
      OBVIOUS
    <2> HIDE DEF T
    <2>3. k \in Chunks /\ k \in 1..Len(tree)
      BY ChunkFields
    <2>4. CASE k \in Refused
      <3>1. k \in Above[k]
        BY <2>3, AboveStep
      <3> QED
        BY <2>2, <2>4, <3>1
    <2>5. CASE k \notin Refused
      <3>1. PICK j \in F : tree[j].parent = k
        BY <2>5
      <3>2. j \in Chunks /\ j \in 1..Len(tree) /\ k < j
        BY <3>1, ChunkFields DEF Descents
      <3>3. Rank(j) \in Nat /\ Rank(j) < n /\ Len(tree) \in Nat
        BY <2>2, <2>3, <3>2
      <3> HIDE DEF Rank
      <3>4. In(j)
        <4> SUFFICES ASSUME ~In(j) PROVE FALSE
          OBVIOUS
        <4>1. Rank(j) \in T
          <5> HIDE DEF In
          <5> QED
            BY <3>3 DEF T
        <4>2. n \in Nat
          BY DEF T
        <4> QED
          BY <2>1, <3>3, <4>1, <4>2
      <3>5. PICK c \in Refused : j \in Above[c]
        BY <3>4
      <3>6. c \in Chunks
        BY DEF Refused
      <3>7. k \in Above[c]
        <4>1. tree[j].parent \in Above[c] \cup {0}
          BY <3>2, <3>5, <3>6, AboveGoesUp
        <4> QED
          BY <2>3, <3>1, <4>1
      <3> QED
        BY <2>2, <3>5, <3>7
    <2> QED
      BY <2>4, <2>5
  <1>3. ASSUME NEW k \in F PROVE In(k)
    <2>1. k \in 1..Len(tree) /\ Len(tree) \in Nat
      BY ChunkFields
    <2>2. Rank(k) \in Nat
      BY <2>1
    <2> HIDE DEF In, Rank
    <2> QED
      BY <1>2, <2>2
  <1> QED
    BY <1>1, <1>3

-----------------------------------------------------------------------------
(* Steps.                                                                  *)

LEMMA RowFacts ==
  ASSUME Typed, Shape, NEW i \in Levels
  PROVE  /\ i \in 1..Len(frames) /\ Len(frames) \in Nat /\ Len(tree) \in Nat
         /\ frames[i] \in FrameType
         /\ frames[i].first \in Nat /\ frames[i].last \in Nat /\ frames[i].next \in Nat
         /\ Row(i) \subseteq Chunks /\ Row(i) \subseteq Nat /\ frames[i].first \in Row(i)
         /\ \A c \in Row(i) : tree[c].parent = Parent(i)
         /\ \A c \in Chunks : tree[c].parent = Parent(i) => c \in Row(i)
  <1>1. i \in 1..Len(frames) /\ Len(frames) \in Nat /\ Len(tree) \in Nat /\ frames[i] \in FrameType
    BY DEF Typed, Levels
  <1>2. frames[i].first \in Nat /\ frames[i].last \in Nat /\ frames[i].next \in Nat
    BY <1>1 DEF FrameType
  <1>3. 1 <= frames[i].first /\ frames[i].first <= frames[i].last /\ frames[i].last <= Len(tree)
    BY DEF Shape, Ranges
  <1>4. Row(i) \subseteq 1..Len(tree) /\ frames[i].first \in Row(i)
    BY <1>1, <1>2, <1>3 DEF Row
  <1>5. Chunks = 1..Len(tree)
    BY DEF Typed, Chunks
  <1>6. \A c \in Chunks : c \in Row(i) <=> tree[c].parent = Parent(i)
    BY DEF Shape, Family
  <1> QED
    BY <1>1, <1>2, <1>4, <1>5, <1>6

LEMMA ParentFacts ==
  ASSUME Typed, Shape, NEW i \in Levels, i # 1
  PROVE  /\ i - 1 \in Levels /\ i - 1 < Len(frames) /\ Parent(i) = frames[i - 1].next - 1
         /\ Parent(i) \in Row(i - 1) /\ Parent(i) \in Chunks /\ Parent(i) # 0
         /\ Parent(i) < frames[i - 1].next
         /\ frames[i - 1].at = "descend" /\ ~tree[Parent(i)].leaf
         /\ tree[Parent(i)].parent = Parent(i - 1)
  <1>1. i - 1 \in Levels /\ i - 1 < Len(frames)
    <2>1. i \in 1..Len(frames) /\ Len(frames) \in Nat
      BY RowFacts
    <2>2. i - 1 \in 1..Len(frames)
      BY <2>1
    <2> QED
      BY <2>1, <2>2 DEF Typed, Levels
  <1> DEFINE f == frames[i - 1]
  <1>2. f.at = "descend" /\ f.first < f.next /\ ~tree[f.next - 1].leaf
    BY <1>1 DEF Shape, Inner
  <1>3. f.first \in Nat /\ f.last \in Nat /\ f.next \in Nat
    BY <1>1, RowFacts
  <1>4. f.next <= f.last + 1
    BY <1>1 DEF Shape, Ranges
  <1>5. Parent(i) = f.next - 1
    BY DEF Parent
  <1>6. f.next - 1 \in f.first..f.last
    BY <1>2, <1>3, <1>4
  <1>7. Parent(i) \in Row(i - 1)
    BY <1>5, <1>6 DEF Row
  <1>8. Parent(i) \in Chunks /\ tree[Parent(i)].parent = Parent(i - 1)
    BY <1>1, <1>7, RowFacts
  <1>9. Parent(i) # 0 /\ Parent(i) < f.next
    <2>1. Parent(i) \in 1..Len(tree)
      BY <1>8, ChunkFields DEF Typed
    <2> QED
      BY <2>1, <1>5, <1>3
  <1> QED
    BY <1>1, <1>2, <1>5, <1>7, <1>8, <1>9

LEMMA RowsApart ==
  ASSUME Typed, Shape, NEW i \in Levels, NEW j \in Levels, NEW c \in Row(i), c \in Row(j)
  PROVE  i = j
  <1> SUFFICES ASSUME i # j PROVE FALSE
    OBVIOUS
  <1>1. i \in Nat /\ j \in Nat
    BY RowFacts
  <1>2. frames[i].first \in Nat /\ frames[i].last \in Nat /\ frames[j].first \in Nat
        /\ frames[j].last \in Nat
    BY RowFacts
  <1>3. frames[i].first <= c /\ c <= frames[i].last /\ frames[j].first <= c /\ c <= frames[j].last
        /\ c \in Nat
    BY <1>2 DEF Row
  <1>4. CASE i < j
    <2>1. frames[i].last < frames[j].first
      BY <1>4 DEF Shape, Ordered
    <2> QED
      BY <2>1, <1>2, <1>3
  <1>5. CASE j < i
    <2>1. frames[j].last < frames[i].first
      BY <1>5 DEF Shape, Ordered
    <2> QED
      BY <2>1, <1>2, <1>3
  <1> QED
    BY <1>1, <1>4, <1>5

\* A step is one of Chunk, of a goroutine whose callback returns, a cancellation,
\* or of something else.
LEMMA StepCases ==
  ASSUME Inside, [Next]_vars
  PROVE  \/ UNCHANGED <<use, tree, frames, cancelled, outcome>>
         \/ Main
         \/ Cancel
         \/ \E c \in Calling : Succeed(c) \/ Refuse(c)
  <1>1. CASE UNCHANGED vars
    BY <1>1 DEF vars, chunker
  <1>2. CASE AddFile
    <2>1. CASE Main /\ UNCHANGED <<semantic, upsert>>
      BY <2>1
    <2>2. CASE Segmenter /\ UNCHANGED upsert
      BY <2>2 DEF Segmenter, Collected, Look, Ask, Merge, Adopt, Ascend, chunker
    <2>3. CASE HandOut
      BY <2>3 DEF HandOut, Deliver, Stumble, chunker
    <2>4. CASE Chunked \/ Extract \/ Save \/ Embed \/ StoreAll
      BY <2>4 DEF Chunked, Extract, Save, Embed, StoreAll, Quiet, Backend, chunker
    <2> QED
      BY <1>2, <2>1, <2>2, <2>3, <2>4 DEF AddFile
  <1>3. CASE GiveUp
    BY <1>3 DEF GiveUp
  <1>4. ASSUME NEW c \in Chunks, Worker(c)
        PROVE  \/ UNCHANGED <<use, tree, frames, cancelled, outcome>>
               \/ \E k \in Calling : Succeed(k) \/ Refuse(k)
    <2>1. CASE Load(c)
      BY <2>1 DEF Load, chunker
    <2>2. CASE Store(c)
      BY <2>2 DEF Store, Inside
    <2>3. CASE Return(c)
      BY <2>3 DEF Return
    <2>4. CASE Collect(c)
      BY <2>4 DEF Collect, Calling
    <2>5. CASE Answer(c) \/ Fallback(c)
      BY <2>5 DEF Answer, Fallback, Become
    <2> QED
      BY <1>4, <2>1, <2>2, <2>3, <2>4, <2>5 DEF Worker
  <1> QED
    BY <1>1, <1>2, <1>3, <1>4 DEF Next

LEMMA StatusUpdate ==
  ASSUME NEW r \in ChunkType, NEW s \in StatusSet
  PROVE  LET e == [r EXCEPT !.status = s] IN
         e \in ChunkType /\ e.parent = r.parent /\ e.leaf = r.leaf /\ e.status = s
         /\ e.call = r.call
  BY DEF ChunkType, StatusSet

LEMMA CallUpdate ==
  ASSUME NEW r \in ChunkType, NEW a \in CallSet
  PROVE  LET e == [r EXCEPT !.call = a] IN
         e \in ChunkType /\ e.parent = r.parent /\ e.leaf = r.leaf /\ e.call = a
         /\ e.status = r.status
  BY DEF ChunkType, CallSet

LEMMA SucceedTree ==
  ASSUME Typed, NEW c \in Chunks, Succeed(c)
  PROVE  /\ tree' \in Seq(ChunkType) /\ Len(tree') = Len(tree) /\ Chunks' = Chunks
         /\ \A k \in Chunks :
              /\ tree'[k].parent = tree[k].parent /\ tree'[k].leaf = tree[k].leaf
              /\ tree'[k].call = (IF k = c THEN "done" ELSE tree[k].call)
              /\ tree'[k].status =
                   (IF tree[c].leaf /\ k \in CompletedBy[c] THEN "completed" ELSE tree[k].status)
  <1> DEFINE New(k) ==
        [tree[k] EXCEPT !.call = IF k = c THEN "done" ELSE @,
                        !.status = IF tree[c].leaf /\ k \in CompletedBy[c]
                                   THEN "completed" ELSE @]
  <1>1. tree' = [k \in Chunks |-> New(k)]
    BY DEF Succeed
  <1>2. Chunks = 1..Len(tree) /\ Len(tree) \in Nat
    BY DEF Typed, Chunks
  <1>3. ASSUME NEW k \in Chunks
        PROVE  /\ New(k) \in ChunkType
               /\ New(k).parent = tree[k].parent /\ New(k).leaf = tree[k].leaf
               /\ New(k).call = (IF k = c THEN "done" ELSE tree[k].call)
               /\ New(k).status =
                   (IF tree[c].leaf /\ k \in CompletedBy[c] THEN "completed" ELSE tree[k].status)
    <2> DEFINE st == IF tree[c].leaf /\ k \in CompletedBy[c] THEN "completed" ELSE tree[k].status
               ca == IF k = c THEN "done" ELSE tree[k].call
    <2>1. tree[k] \in ChunkType
      BY ChunkFields DEF Typed
    <2>2. st \in StatusSet /\ ca \in CallSet
      <3>1. tree[k].status \in StatusSet /\ tree[k].call \in CallSet
        BY <2>1 DEF ChunkType
      <3> QED
        BY <3>1 DEF StatusSet, CallSet
    <2>3. New(k) = [tree[k] EXCEPT !.call = ca, !.status = st]
      OBVIOUS
    <2> HIDE DEF New, st, ca
    <2>4. /\ New(k) \in ChunkType /\ New(k).parent = tree[k].parent
          /\ New(k).leaf = tree[k].leaf /\ New(k).status = st /\ New(k).call = ca
      <3>1. PICK q \in ChunkType : q = tree[k]
        BY <2>1
      <3>2. New(k) = [q EXCEPT !.call = ca, !.status = st]
        BY <2>3, <3>1
      <3> QED
        BY <2>2, <3>1, <3>2 DEF ChunkType, StatusSet, CallSet
    <2> QED
      BY <2>4 DEF st, ca
  <1> HIDE DEF New
  <1>4. tree' \in Seq(ChunkType) /\ Len(tree') = Len(tree)
    BY <1>1, <1>2, <1>3
  <1>5. Chunks' = Chunks
    BY <1>1 DEF Chunks
  <1> QED
    BY <1>1, <1>3, <1>4, <1>5

LEMMA RefuseTree ==
  ASSUME Typed, NEW c \in Chunks, Refuse(c)
  PROVE  /\ tree' \in Seq(ChunkType) /\ Len(tree') = Len(tree) /\ Chunks' = Chunks
         /\ \A k \in Chunks :
              /\ tree'[k].parent = tree[k].parent /\ tree'[k].leaf = tree[k].leaf
              /\ tree'[k].call = (IF k = c THEN "refused" ELSE tree[k].call)
              /\ tree'[k].status = (IF k = c THEN "failed" ELSE tree[k].status)
  <1>1. tree' = [tree EXCEPT ![c] = [@ EXCEPT !.call = "refused", !.status = "failed"]]
    BY DEF Refuse
  <1>2. Chunks = 1..Len(tree) /\ Len(tree) \in Nat
    BY DEF Typed, Chunks
  <1> DEFINE r == [tree[c] EXCEPT !.call = "refused", !.status = "failed"]
  <1>3. tree[c] \in ChunkType
    BY ChunkFields DEF Typed
  <1>4. "failed" \in StatusSet /\ "refused" \in CallSet
    BY DEF StatusSet, CallSet
  <1>5. r \in ChunkType /\ r.parent = tree[c].parent /\ r.leaf = tree[c].leaf
        /\ r.call = "refused" /\ r.status = "failed"
    <2>1. PICK q \in ChunkType : q = tree[c]
      BY <1>3
    <2>2. r = [q EXCEPT !.call = "refused", !.status = "failed"]
      BY <2>1
    <2> HIDE DEF r
    <2> QED
      BY <2>1, <2>2 DEF ChunkType, StatusSet, CallSet
  <1>6. tree' = [tree EXCEPT ![c] = r]
    BY <1>1
  <1> HIDE DEF r
  <1>8. tree \in Seq(ChunkType)
    BY DEF Typed
  <1>9. tree' \in Seq(ChunkType) /\ Len(tree') = Len(tree)
    BY <1>2, <1>5, <1>6, <1>8
  <1>10. Chunks' = Chunks
    BY <1>6 DEF Chunks
  <1>11. \A k \in Chunks : tree'[k] = IF k = c THEN r ELSE tree[k]
    BY <1>6 DEF Chunks
  <1> QED
    BY <1>5, <1>9, <1>10, <1>11

\* The fields of the chunk x whose status or call is set to v.
LEMMA StatusTree ==
  ASSUME Typed, NEW x \in Chunks, NEW v \in StatusSet
  PROVE  LET t == [tree EXCEPT ![x].status = v] IN
         /\ t \in Seq(ChunkType) /\ Len(t) = Len(tree) /\ DOMAIN t = Chunks
         /\ \A k \in Chunks :
              /\ t[k].parent = tree[k].parent /\ t[k].leaf = tree[k].leaf
              /\ t[k].call = tree[k].call
              /\ t[k].status = (IF k = x THEN v ELSE tree[k].status)
  <1> DEFINE r == [tree[x] EXCEPT !.status = v]
             t == [tree EXCEPT ![x].status = v]
  <1>1. tree[x] \in ChunkType /\ tree \in Seq(ChunkType)
    BY ChunkFields DEF Typed
  <1>2. r \in ChunkType /\ r.parent = tree[x].parent /\ r.leaf = tree[x].leaf
        /\ r.status = v /\ r.call = tree[x].call
    BY <1>1, StatusUpdate
  <1>3. t = [tree EXCEPT ![x] = r]
    OBVIOUS
  <1> HIDE DEF r, t
  <1>5. t \in Seq(ChunkType) /\ Len(t) = Len(tree) /\ DOMAIN t = Chunks
    BY <1>1, <1>2, <1>3 DEF Chunks
  <1>6. \A k \in Chunks : t[k] = IF k = x THEN r ELSE tree[k]
    BY <1>3 DEF Chunks
  <1>7. /\ t \in Seq(ChunkType) /\ Len(t) = Len(tree) /\ DOMAIN t = Chunks
        /\ \A k \in Chunks :
              /\ t[k].parent = tree[k].parent /\ t[k].leaf = tree[k].leaf
              /\ t[k].call = tree[k].call
              /\ t[k].status = (IF k = x THEN v ELSE tree[k].status)
    BY <1>2, <1>5, <1>6
  <1> QED
    BY <1>7 DEF t

LEMMA CallTree ==
  ASSUME Typed, NEW x \in Chunks, NEW v \in CallSet
  PROVE  LET t == [tree EXCEPT ![x].call = v] IN
         /\ t \in Seq(ChunkType) /\ Len(t) = Len(tree) /\ DOMAIN t = Chunks
         /\ \A k \in Chunks :
              /\ t[k].parent = tree[k].parent /\ t[k].leaf = tree[k].leaf
              /\ t[k].status = tree[k].status
              /\ t[k].call = (IF k = x THEN v ELSE tree[k].call)
  <1> DEFINE r == [tree[x] EXCEPT !.call = v]
             t == [tree EXCEPT ![x].call = v]
  <1>1. tree[x] \in ChunkType /\ tree \in Seq(ChunkType)
    BY ChunkFields DEF Typed
  <1>2. r \in ChunkType /\ r.parent = tree[x].parent /\ r.leaf = tree[x].leaf
        /\ r.call = v /\ r.status = tree[x].status
    BY <1>1, CallUpdate
  <1>3. t = [tree EXCEPT ![x] = r]
    OBVIOUS
  <1> HIDE DEF r, t
  <1>5. t \in Seq(ChunkType) /\ Len(t) = Len(tree) /\ DOMAIN t = Chunks
    BY <1>1, <1>2, <1>3 DEF Chunks
  <1>6. \A k \in Chunks : t[k] = IF k = x THEN r ELSE tree[k]
    BY <1>3 DEF Chunks
  <1>7. /\ t \in Seq(ChunkType) /\ Len(t) = Len(tree) /\ DOMAIN t = Chunks
        /\ \A k \in Chunks :
              /\ t[k].parent = tree[k].parent /\ t[k].leaf = tree[k].leaf
              /\ t[k].status = tree[k].status
              /\ t[k].call = (IF k = x THEN v ELSE tree[k].call)
    BY <1>2, <1>5, <1>6
  <1> QED
    BY <1>7 DEF t

LEMMA TopFacts ==
  ASSUME Typed, Shape, outcome = "running"
  PROVE  /\ frames # <<>> /\ Len(frames) \in Levels /\ Len(frames) \in Nat /\ 1 \in Levels
         /\ Top = frames[Len(frames)] /\ Top \in FrameType
         /\ Top.first \in Nat /\ Top.last \in Nat /\ Top.next \in Nat /\ Top.err \in BOOLEAN
         /\ Top.first <= Top.last /\ Top.last <= Len(tree) /\ 1 <= Top.first
         /\ Top.first <= Top.next /\ Top.next <= Top.last + 1
         /\ Top.first..Top.last = Row(Len(frames))
         /\ \A i \in Levels : i <= Len(frames) /\ 1 <= i /\ i \in Nat
  <1>1. frames # <<>>
    BY DEF Shape, Stages
  <1>2. Len(frames) \in Levels /\ Len(frames) \in Nat /\ 1 \in Levels
        /\ \A i \in Levels : i <= Len(frames) /\ 1 <= i /\ i \in Nat
    BY <1>1 DEF Typed, Levels
  <1>3. Top = frames[Len(frames)] /\ Top.first..Top.last = Row(Len(frames))
    BY DEF Top, Row
  <1>4. Top \in FrameType
    BY <1>2, <1>3, RowFacts
  <1>5. Top.first \in Nat /\ Top.last \in Nat /\ Top.next \in Nat /\ Top.err \in BOOLEAN
    BY <1>4 DEF FrameType
  <1>6. Top.first <= Top.last /\ Top.last <= Len(tree) /\ 1 <= Top.first
        /\ Top.first <= Top.next /\ Top.next <= Top.last + 1
    BY <1>2, <1>3 DEF Shape, Ranges
  <1> QED
    BY <1>1, <1>2, <1>3, <1>4, <1>5, <1>6

LEMMA SetTopFacts ==
  ASSUME Typed, Shape, outcome = "running", NEW f \in FrameType, SetTop(f)
  PROVE  /\ frames' \in Seq(FrameType) /\ Len(frames') = Len(frames) /\ Levels' = Levels
         /\ frames' # <<>> /\ Top' = f /\ frames'[Len(frames)] = f
         /\ \A i \in Levels : i # Len(frames) => frames'[i] = frames[i]
         /\ \A i \in Levels : Parent(i)' = Parent(i)
  <1>1. Len(frames) \in Levels /\ Len(frames) \in Nat /\ frames \in Seq(FrameType)
    BY TopFacts DEF Typed
  <1>2. frames' = [frames EXCEPT ![Len(frames)] = f]
    BY DEF SetTop
  <1>3. frames' \in Seq(FrameType) /\ Len(frames') = Len(frames) /\ DOMAIN frames' = DOMAIN frames
    <2> DEFINE n == Len(frames)
    <2>1. frames \in [1..n -> FrameType] /\ n \in 1..n /\ n \in Nat
      BY <1>1 DEF Levels
    <2>2. frames' = [frames EXCEPT ![n] = f]
      BY <1>2
    <2> HIDE DEF n
    <2>3. frames' \in [1..n -> FrameType]
      BY <2>1, <2>2
    <2>4. frames' \in Seq(FrameType) /\ Len(frames') = n /\ DOMAIN frames' = 1..n
      BY <2>1, <2>3
    <2> QED
      BY <2>1, <2>4 DEF n
  <1>4. frames'[Len(frames)] = f /\ \A i \in Levels : i # Len(frames) => frames'[i] = frames[i]
    BY <1>1, <1>2 DEF Levels
  <1>5. ASSUME NEW i \in Levels PROVE Parent(i)' = Parent(i)
    <2>1. CASE i = 1
      BY <2>1 DEF Parent
    <2>2. CASE i # 1
      <3>1. i - 1 \in Levels /\ i - 1 < Len(frames)
        BY <2>2, ParentFacts
      <3>2. frames'[i - 1] = frames[i - 1]
        BY <3>1, <1>1, <1>4
      <3> QED
        BY <2>2, <3>2 DEF Parent
    <2> QED
      BY <2>1, <2>2
  <1>6. frames' # <<>>
    BY <1>1, <1>3 DEF Levels
  <1>7. Top' = f
    BY <1>3, <1>4 DEF Top
  <1> QED
    BY <1>3, <1>4, <1>5, <1>6, <1>7 DEF Levels

\* A step that cuts nothing and stays in the level in progress.
LEMMA ShapeKept ==
  ASSUME Typed, Shape, Typed', Chunks' = Chunks, Len(tree') = Len(tree),
         \A k \in Chunks : tree'[k].parent = tree[k].parent /\ tree'[k].leaf = tree[k].leaf,
         Levels' = Levels, Len(frames') = Len(frames), outcome' = outcome,
         frames = <<>> <=> frames' = <<>>,
         \A i \in Levels : Parent(i)' = Parent(i),
         \A i \in Levels : i # Len(frames) => frames'[i] = frames[i],
         NEW f, frames # <<>> => frames'[Len(frames)] = f
           /\ f.first = Top.first /\ f.last = Top.last
           /\ f.first <= f.next /\ f.next <= f.last + 1 /\ (f.at = "acquire" => f.next <= f.last)
           /\ \A c \in Row(Len(frames)) : Fresh(Len(frames), c)' => Fresh(Len(frames), c)
  PROVE  Shape'
  <1> DEFINE n == Len(frames)
  <1>1. \A i \in Levels : frames # <<>> /\ n \in Levels
    BY DEF Levels, Typed
  <1>2. \A i \in Levels : frames'[i].first = frames[i].first /\ frames'[i].last = frames[i].last
    <2> SUFFICES ASSUME NEW i \in Levels
                 PROVE  frames'[i].first = frames[i].first /\ frames'[i].last = frames[i].last
      OBVIOUS
    <2>1. CASE i = n
      BY <1>1, <2>1 DEF Top
    <2>2. CASE i # n
      BY <2>2
    <2> QED
      BY <2>1, <2>2
  <1>3. \A i \in Levels : Row(i)' = Row(i)
    BY <1>2 DEF Row
  <1>4. Ranges'
    <2> SUFFICES ASSUME NEW i \in Levels
                 PROVE  /\ 1 <= frames'[i].first /\ frames'[i].first <= frames'[i].last
                        /\ frames'[i].last <= Len(tree')
                        /\ frames'[i].first <= frames'[i].next
                        /\ frames'[i].next <= frames'[i].last + 1
                        /\ frames'[i].at = "acquire" => frames'[i].next <= frames'[i].last
      BY DEF Ranges
    <2>1. /\ 1 <= frames[i].first /\ frames[i].first <= frames[i].last
          /\ frames[i].last <= Len(tree)
          /\ frames[i].first <= frames[i].next /\ frames[i].next <= frames[i].last + 1
          /\ frames[i].at = "acquire" => frames[i].next <= frames[i].last
      BY DEF Shape, Ranges
    <2>2. CASE i = n
      BY <1>1, <1>2, <2>1, <2>2
    <2>3. CASE i # n
      BY <2>1, <2>3
    <2> QED
      BY <2>2, <2>3
  <1>5. Ordered'
    BY <1>2 DEF Shape, Ordered
  <1>6. Descents'
    BY DEF Shape, Descents
  <1>7. Family'
    BY <1>3 DEF Shape, Family
  <1>8. Inner'
    <2> SUFFICES ASSUME NEW i \in Levels, i < Len(frames)
                 PROVE  /\ frames'[i].at = "descend" /\ frames'[i].first < frames'[i].next
                        /\ ~tree'[frames'[i].next - 1].leaf
      BY DEF Inner
    <2>1. i + 1 \in Levels /\ i + 1 # 1 /\ i + 1 - 1 = i /\ i # Len(frames)
      BY DEF Levels, Typed
    <2>2. frames[i].at = "descend" /\ frames[i].first < frames[i].next
          /\ ~tree[frames[i].next - 1].leaf
      BY DEF Shape, Inner
    <2>3. frames[i].next - 1 \in Chunks
      <3> DEFINE j == i + 1
      <3>1. j \in Levels /\ j # 1 /\ j - 1 = i
        <4>1. i \in Nat /\ 1 <= i
          BY DEF Levels, Typed
        <4> QED
          BY <2>1, <4>1
      <3> HIDE DEF j
      <3>2. Parent(j) = frames[j - 1].next - 1 /\ Parent(j) \in Chunks
        BY <3>1, ParentFacts
      <3> QED
        BY <3>1, <3>2
    <2>4. frames'[i] = frames[i]
      BY <2>1
    <2> QED
      BY <2>2, <2>3, <2>4
  <1>9. Uncut'
    <2> SUFFICES ASSUME NEW i \in Levels, NEW c \in Row(i), Fresh(i, c)'
                 PROVE  \A k \in Chunks : tree'[k].parent # c
      BY <1>3 DEF Uncut
    <2>1. Fresh(i, c)
      <3>1. CASE i = n
        BY <1>1, <3>1
      <3>2. CASE i # n
        BY <3>2 DEF Fresh
      <3> QED
        BY <3>1, <3>2
    <2> QED
      BY <2>1 DEF Shape, Uncut
  <1>10. Stages'
    <2>1. outcome = "new" => tree = <<>>
      BY DEF Shape, Stages
    <2>2. tree = <<>> => tree' = <<>>
      BY DEF Typed
    <2> QED
      BY <2>1, <2>2 DEF Shape, Stages
  <1> QED
    BY <1>4, <1>5, <1>6, <1>7, <1>8, <1>9, <1>10 DEF Shape

LEMMA AtUpdate ==
  ASSUME NEW f \in FrameType, NEW a \in {"loop", "acquire", "descend", "raise"}
  PROVE  LET e == [f EXCEPT !.at = a] IN
         e \in FrameType /\ e.first = f.first /\ e.last = f.last /\ e.next = f.next /\ e.at = a
         /\ e.err = f.err
  BY DEF FrameType

\* Check, Acquire and Join: what they make of the level in progress.
LEMMA CheckTop ==
  ASSUME Typed, Shape, Check
  PROVE  \E f \in FrameType :
           /\ SetTop(f) /\ f.first = Top.first /\ f.last = Top.last /\ f.next = Top.next
           /\ f.err = Top.err /\ f.at = (IF cancelled THEN "raise" ELSE "acquire")
           /\ outcome = "running" /\ Top.at = "loop" /\ Top.next <= Top.last
  <1>1. outcome = "running" /\ Top.at = "loop" /\ Top.next <= Top.last
    BY DEF Check, At
  <1> DEFINE a == IF cancelled THEN "raise" ELSE "acquire"
  <1>2. Top \in FrameType
    BY <1>1, TopFacts
  <1>3. SetTop([Top EXCEPT !.at = a])
    BY DEF Check
  <1>4. a \in {"loop", "acquire", "descend", "raise"}
    OBVIOUS
  <1> HIDE DEF a
  <1>5. PICK q \in FrameType : q = Top
    BY <1>2
  <1> DEFINE f == [q EXCEPT !.at = a]
  <1>6. f \in FrameType /\ f.first = q.first /\ f.last = q.last /\ f.next = q.next /\ f.at = a
         /\ f.err = q.err
    BY <1>4, AtUpdate
  <1>7. SetTop(f)
    BY <1>3, <1>5
  <1> HIDE DEF f
  <1> QED
    BY <1>1, <1>5, <1>6, <1>7 DEF a

LEMMA AcquireTop ==
  ASSUME Typed, Shape, Acquire
  PROVE  \E f \in FrameType :
           /\ SetTop(f) /\ f.first = Top.first /\ f.last = Top.last /\ f.next = Top.next + 1
           /\ f.err = Top.err /\ f.at = "loop"
           /\ outcome = "running" /\ Top.at = "acquire" /\ Top.next <= Top.last
  <1>1. outcome = "running" /\ Top.at = "acquire"
    BY DEF Acquire, At
  <1>2. Top \in FrameType /\ Top.next + 1 \in Nat /\ Top.next <= Top.last
    BY <1>1, TopFacts DEF Shape, Ranges
  <1>3. SetTop([Top EXCEPT !.at = "loop", !.next = Top.next + 1])
    BY DEF Acquire
  <1>4. PICK q \in FrameType : q = Top
    BY <1>2
  <1> DEFINE x == Top.next + 1
             f == [q EXCEPT !.at = "loop", !.next = x]
  <1>5. x \in Nat
    BY <1>2
  <1>6. SetTop(f)
    BY <1>3, <1>4
  <1> HIDE DEF x
  <1>7. f \in FrameType /\ f.first = q.first /\ f.last = q.last /\ f.next = x /\ f.at = "loop"
         /\ f.err = q.err
    BY <1>5 DEF FrameType
  <1> HIDE DEF f
  <1> QED
    BY <1>1, <1>2, <1>4, <1>6, <1>7 DEF x

LEMMA JoinTop ==
  ASSUME Typed, Shape, Join
  PROVE  \E f \in FrameType :
           /\ SetTop(f) /\ f.first = Top.first /\ f.last = Top.last /\ f.next = Top.first
           /\ f.err = Top.err /\ f.at = (IF Top.err THEN "raise" ELSE "descend")
           /\ outcome = "running" /\ Top.at = "loop" /\ Top.next > Top.last
  <1>1. outcome = "running" /\ Top.at = "loop" /\ Top.next > Top.last
    BY DEF Join, At
  <1>2. Top \in FrameType /\ Top.first \in Nat
    BY <1>1, TopFacts
  <1> DEFINE a == IF Top.err THEN "raise" ELSE "descend"
             x == Top.first
  <1>3. SetTop([Top EXCEPT !.at = a, !.next = x])
    BY DEF Join
  <1>4. PICK q \in FrameType : q = Top
    BY <1>2
  <1>5. x \in Nat /\ a \in {"loop", "acquire", "descend", "raise"}
    BY <1>2
  <1> HIDE DEF a, x
  <1> DEFINE f == [q EXCEPT !.at = a, !.next = x]
  <1>6. SetTop(f)
    BY <1>3, <1>4
  <1>7. f \in FrameType /\ f.first = q.first /\ f.last = q.last /\ f.next = x /\ f.at = a
         /\ f.err = q.err
    BY <1>5 DEF FrameType
  <1> HIDE DEF f
  <1> QED
    BY <1>1, <1>4, <1>6, <1>7 DEF a, x

LEMMA CheckShape ==
  ASSUME Typed, Shape, Check
  PROVE  Typed' /\ Shape'
  <1>1. UNCHANGED <<use, tree, cancelled, outcome>>
    BY DEF Check
  <1>2. PICK f \in FrameType :
           /\ SetTop(f) /\ f.first = Top.first /\ f.last = Top.last /\ f.next = Top.next
           /\ f.err = Top.err /\ f.at = (IF cancelled THEN "raise" ELSE "acquire")
           /\ outcome = "running" /\ Top.at = "loop" /\ Top.next <= Top.last
    BY CheckTop
  <1>3. Typed'
    BY <1>1, <1>2, SetTopFacts DEF Typed, Usable
  <1>4. /\ frames # <<>> /\ frames' # <<>> /\ frames'[Len(frames)] = f
        /\ Levels' = Levels /\ Len(frames') = Len(frames) /\ Top = frames[Len(frames)]
        /\ \A i \in Levels : Parent(i)' = Parent(i)
        /\ \A i \in Levels : i # Len(frames) => frames'[i] = frames[i]
        /\ Top.first <= Top.next /\ Top.next <= Top.last + 1
    BY <1>2, SetTopFacts, TopFacts
  <1>5. \A c \in Row(Len(frames)) : Fresh(Len(frames), c)' => Fresh(Len(frames), c)
    BY <1>2, <1>4 DEF Fresh
  <1>6. Chunks' = Chunks
    BY <1>1 DEF Chunks
  <1>7. Shape'
    BY <1>1, <1>2, <1>3, <1>4, <1>5, <1>6, ShapeKept
  <1> QED
    BY <1>3, <1>7

LEMMA JoinShape ==
  ASSUME Typed, Shape, Join
  PROVE  Typed' /\ Shape'
  <1>1. UNCHANGED <<use, tree, cancelled, outcome>>
    BY DEF Join
  <1>2. PICK f \in FrameType :
           /\ SetTop(f) /\ f.first = Top.first /\ f.last = Top.last /\ f.next = Top.first
           /\ f.err = Top.err /\ f.at = (IF Top.err THEN "raise" ELSE "descend")
           /\ outcome = "running" /\ Top.at = "loop" /\ Top.next > Top.last
    BY JoinTop
  <1>3. Typed'
    BY <1>1, <1>2, SetTopFacts DEF Typed, Usable
  <1>4. /\ frames # <<>> /\ frames' # <<>> /\ frames'[Len(frames)] = f
        /\ Levels' = Levels /\ Len(frames') = Len(frames) /\ Top = frames[Len(frames)]
        /\ \A i \in Levels : Parent(i)' = Parent(i)
        /\ \A i \in Levels : i # Len(frames) => frames'[i] = frames[i]
        /\ Top.first <= Top.last + 1 /\ Top.first <= Top.first
    BY <1>2, SetTopFacts, TopFacts
  <1>5. \A c \in Row(Len(frames)) : Fresh(Len(frames), c)' => Fresh(Len(frames), c)
    BY <1>2, <1>4 DEF Fresh
  <1>6. Chunks' = Chunks
    BY <1>1 DEF Chunks
  <1>7. Shape'
    BY <1>1, <1>2, <1>3, <1>4, <1>5, <1>6, ShapeKept
  <1> QED
    BY <1>3, <1>7

LEMMA AcquireTree ==
  ASSUME Typed, Shape, Acquire
  PROVE  /\ Top.next \in Row(Len(frames)) /\ Top.next \in Chunks
         /\ tree' \in Seq(ChunkType) /\ Len(tree') = Len(tree) /\ Chunks' = Chunks
         /\ \A k \in Chunks :
              /\ tree'[k].parent = tree[k].parent /\ tree'[k].leaf = tree[k].leaf
              /\ tree'[k].status = tree[k].status
              /\ tree'[k].call = (IF k = Top.next THEN "calling" ELSE tree[k].call)
  <1>1. outcome = "running" /\ Top.next <= Top.last
    BY AcquireTop
  <1>2. Top.next \in Row(Len(frames)) /\ Top.next \in Chunks
    BY <1>1, TopFacts, RowFacts
  <1>3. tree' = [tree EXCEPT ![Top.next].call = "calling"]
    BY DEF Acquire
  <1>4. "calling" \in CallSet
    BY DEF CallSet
  <1> DEFINE x == Top.next
  <1>5. x \in Chunks /\ tree' = [tree EXCEPT ![x].call = "calling"]
    BY <1>2, <1>3
  <1> HIDE DEF x
  <1>6. /\ tree' \in Seq(ChunkType) /\ Len(tree') = Len(tree) /\ DOMAIN tree' = Chunks
        /\ \A k \in Chunks :
              /\ tree'[k].parent = tree[k].parent /\ tree'[k].leaf = tree[k].leaf
              /\ tree'[k].status = tree[k].status
              /\ tree'[k].call = (IF k = x THEN "calling" ELSE tree[k].call)
    BY <1>4, <1>5, CallTree
  <1> QED
    BY <1>2, <1>6 DEF x, Chunks

LEMMA AcquireShape ==
  ASSUME Typed, Shape, Acquire
  PROVE  Typed' /\ Shape'
  <1>1. UNCHANGED <<use, cancelled, outcome>>
    BY DEF Acquire
  <1>2. PICK f \in FrameType :
           /\ SetTop(f) /\ f.first = Top.first /\ f.last = Top.last /\ f.next = Top.next + 1
           /\ f.err = Top.err /\ f.at = "loop"
           /\ outcome = "running" /\ Top.at = "acquire" /\ Top.next <= Top.last
    BY AcquireTop
  <1>3. Typed'
    BY <1>1, <1>2, SetTopFacts, AcquireTree DEF Typed, Usable
  <1>4. /\ frames # <<>> /\ frames' # <<>> /\ frames'[Len(frames)] = f
        /\ Levels' = Levels /\ Len(frames') = Len(frames) /\ Top = frames[Len(frames)]
        /\ \A i \in Levels : Parent(i)' = Parent(i)
        /\ \A i \in Levels : i # Len(frames) => frames'[i] = frames[i]
        /\ Top.first <= Top.next + 1 /\ Top.next + 1 <= Top.last + 1
    BY <1>2, SetTopFacts, TopFacts
  <1>5. \A c \in Row(Len(frames)) : Fresh(Len(frames), c)' => Fresh(Len(frames), c)
    BY <1>2, <1>4 DEF Fresh
  <1>7. Shape'
    BY <1>1, <1>2, <1>3, <1>4, <1>5, AcquireTree, ShapeKept
  <1> QED
    BY <1>3, <1>7

LEMMA SucceedShape ==
  ASSUME Typed, Shape, NEW c \in Chunks, Succeed(c)
  PROVE  Typed' /\ Shape'
  <1>1. UNCHANGED <<use, frames, cancelled, outcome>>
    BY DEF Succeed
  <1>2. /\ tree' \in Seq(ChunkType) /\ Len(tree') = Len(tree) /\ Chunks' = Chunks
        /\ \A k \in Chunks : tree'[k].parent = tree[k].parent /\ tree'[k].leaf = tree[k].leaf
    BY SucceedTree
  <1>3. Typed'
    BY <1>1, <1>2 DEF Typed, Usable
  <1>4. /\ Levels' = Levels /\ Len(frames') = Len(frames)
        /\ \A i \in Levels : Parent(i)' = Parent(i)
    BY <1>1 DEF Levels, Parent
  <1>5. \A i, k : Fresh(i, k)' => Fresh(i, k)
    BY <1>1 DEF Fresh
  <1>6. frames # <<>> => /\ frames'[Len(frames)] = Top
           /\ Top.first <= Top.next /\ Top.next <= Top.last + 1
           /\ (Top.at = "acquire" => Top.next <= Top.last)
    <2> SUFFICES ASSUME frames # <<>>
                 PROVE  /\ frames'[Len(frames)] = Top
                        /\ Top.first <= Top.next /\ Top.next <= Top.last + 1
                        /\ (Top.at = "acquire" => Top.next <= Top.last)
      OBVIOUS
    <2>1. outcome = "running"
      BY DEF Shape, Stages
    <2> QED
      BY <2>1, <1>1, TopFacts DEF Shape, Ranges
  <1>7. Shape'
    BY <1>1, <1>2, <1>3, <1>4, <1>5, <1>6, ShapeKept
  <1> QED
    BY <1>3, <1>7

\* What a failing callback makes of the level in progress.
LEMMA RefuseTop ==
  ASSUME Typed, Shape, NEW c \in Chunks, Refuse(c)
  PROVE  /\ frames' \in Seq(FrameType) /\ Len(frames') = Len(frames) /\ Levels' = Levels
         /\ frames = <<>> <=> frames' = <<>>
         /\ \A i \in Levels :
              /\ Parent(i)' = Parent(i)
              /\ frames'[i].first = frames[i].first /\ frames'[i].last = frames[i].last
              /\ frames'[i].next = frames[i].next /\ frames'[i].at = frames[i].at
              /\ i # Len(frames) => frames'[i] = frames[i]
              /\ frames'[i].err = (frames[i].err \/ (i = Len(frames) /\ c \in Row(i)))
  <1>1. CASE outcome = "running" /\ c \in Top.first..Top.last
    <2>1. SetTop([Top EXCEPT !.err = TRUE])
      BY <1>1 DEF Refuse
    <2>2. PICK q \in FrameType : q = Top
      BY <1>1, TopFacts
    <2> DEFINE f == [q EXCEPT !.err = TRUE]
    <2>3. SetTop(f)
      BY <2>1, <2>2
    <2>4. f \in FrameType /\ f.first = q.first /\ f.last = q.last /\ f.next = q.next
          /\ f.at = q.at /\ f.err = TRUE
      BY DEF FrameType
    <2> HIDE DEF f
    <2>5. /\ frames' \in Seq(FrameType) /\ Len(frames') = Len(frames) /\ Levels' = Levels
          /\ frames' # <<>> /\ frames # <<>> /\ frames'[Len(frames)] = f
          /\ \A i \in Levels : i # Len(frames) => frames'[i] = frames[i]
          /\ \A i \in Levels : Parent(i)' = Parent(i)
      BY <1>1, <2>3, <2>4, SetTopFacts, TopFacts
    <2>6. Top = frames[Len(frames)] /\ Top.first..Top.last = Row(Len(frames))
      BY <1>1, TopFacts
    <2>7. \A i \in Levels : frames[i].err \in BOOLEAN
      BY RowFacts DEF FrameType
    <2>8. ASSUME NEW i \in Levels
          PROVE  /\ frames'[i].first = frames[i].first /\ frames'[i].last = frames[i].last
                 /\ frames'[i].next = frames[i].next /\ frames'[i].at = frames[i].at
                 /\ frames'[i].err = (frames[i].err \/ (i = Len(frames) /\ c \in Row(i)))
      <3>1. CASE i = Len(frames)
        BY <1>1, <2>2, <2>4, <2>5, <2>6, <3>1
      <3>2. CASE i # Len(frames)
        <4>1. frames'[i] = frames[i]
          BY <2>5, <3>2
        <4>2. frames[i].err = (frames[i].err \/ (i = Len(frames) /\ c \in Row(i)))
          BY <2>7, <3>2
        <4> QED
          BY <4>1, <4>2
      <3> QED
        BY <3>1, <3>2
    <2> QED
      BY <2>5, <2>8
  <1>2. CASE ~(outcome = "running" /\ c \in Top.first..Top.last)
    <2>1. frames' = frames
      BY <1>2 DEF Refuse
    <2>2. ASSUME NEW i \in Levels
          PROVE  frames'[i].err = (frames[i].err \/ (i = Len(frames) /\ c \in Row(i)))
      <3>1. outcome = "running"
        BY DEF Shape, Stages, Levels, Typed
      <3>2. ~(i = Len(frames) /\ c \in Row(i))
        BY <1>2, <3>1, TopFacts
      <3>3. frames[i].err \in BOOLEAN
        BY RowFacts DEF FrameType
      <3> QED
        BY <2>1, <3>2, <3>3
    <2> QED
      BY <2>1, <2>2 DEF Typed, Levels, Parent
  <1> QED
    BY <1>1, <1>2

LEMMA RefuseShape ==
  ASSUME Typed, Shape, NEW c \in Chunks, Refuse(c)
  PROVE  Typed' /\ Shape'
  <1>1. UNCHANGED <<use, cancelled, outcome>>
    BY DEF Refuse
  <1>2. /\ tree' \in Seq(ChunkType) /\ Len(tree') = Len(tree) /\ Chunks' = Chunks
        /\ \A k \in Chunks : tree'[k].parent = tree[k].parent /\ tree'[k].leaf = tree[k].leaf
    BY RefuseTree
  <1>3. Typed'
    BY <1>1, <1>2, RefuseTop DEF Typed, Usable
  <1>4. \A i \in Levels : frames'[i].next = frames[i].next /\ frames'[i].at = frames[i].at
    BY RefuseTop
  <1>5. \A i \in Levels : \A k : Fresh(i, k)' => Fresh(i, k)
    BY <1>4 DEF Fresh
  <1> DEFINE f == frames'[Len(frames)]
  <1>6. frames # <<>> => /\ f.first = Top.first /\ f.last = Top.last /\ Len(frames) \in Levels
           /\ f.first <= f.next /\ f.next <= f.last + 1
           /\ (f.at = "acquire" => f.next <= f.last)
    <2> SUFFICES ASSUME frames # <<>>
                 PROVE  /\ f.first = Top.first /\ f.last = Top.last /\ Len(frames) \in Levels
                        /\ f.first <= f.next /\ f.next <= f.last + 1
                        /\ (f.at = "acquire" => f.next <= f.last)
      OBVIOUS
    <2>1. outcome = "running"
      BY DEF Shape, Stages
    <2>2. Len(frames) \in Levels /\ Top = frames[Len(frames)]
          /\ Top.first <= Top.next /\ Top.next <= Top.last + 1
      BY <2>1, TopFacts
    <2>3. Top.at = "acquire" => Top.next <= Top.last
      BY <2>2 DEF Shape, Ranges
    <2>4. f.first = Top.first /\ f.last = Top.last /\ f.next = Top.next /\ f.at = Top.at
      BY <2>2, RefuseTop
    <2> QED
      BY <2>2, <2>3, <2>4
  <1>7. Shape'
    <2> HIDE DEF f
    <2>1. frames # <<>> => frames'[Len(frames)] = f
      BY DEF f
    <2> QED
      BY <1>1, <1>2, <1>3, <1>5, <1>6, <2>1, RefuseTop, ShapeKept
  <1> QED
    BY <1>3, <1>7

\* The first level.
LEMMA BeginFacts ==
  ASSUME Typed, Shape, Begin
  PROVE  /\ UNCHANGED <<use, cancelled>> /\ outcome' = "running" /\ tree = <<>> /\ frames = <<>>
         /\ tree' \in Seq(ChunkType) /\ Len(tree') \in Nat \ {0} /\ Chunks' = 1..Len(tree')
         /\ \A k \in Chunks' :
              /\ tree'[k].parent = 0 /\ tree'[k].call = "new"
              /\ tree'[k].status = (IF tree'[k].leaf THEN "completed" ELSE "pending")
         /\ frames' = <<Frame(1, Len(tree'))>>
  <1>1. UNCHANGED <<use, cancelled>> /\ outcome' = "running" /\ tree = <<>> /\ frames = <<>>
        /\ frames' = <<Frame(1, Len(tree'))>>
    BY DEF Begin, Shape, Stages
  <1>2. Usable
    BY DEF Typed
  <1>3. Max(use.cuts) \in Int
    BY <1>2, MaxIsGreatest DEF Usable
  <1> DEFINE L == Level(0, Max(use.cuts), 0, 1)
  <1>4. NewLevel(L, 0)
    <2>1. 0 \in Int /\ 0 \in Nat /\ 1 \in Nat
      OBVIOUS
    <2> QED
      BY <1>2, <1>3, <2>1, LevelTyped
  <1>5. tree' = L
    BY DEF Begin
  <1> HIDE DEF L
  <1>6. Chunks' = 1..Len(tree')
    BY <1>4, <1>5 DEF Chunks, NewLevel
  <1> QED
    BY <1>1, <1>4, <1>5, <1>6 DEF NewLevel

LEMMA BeginShape ==
  ASSUME Typed, Shape, Begin
  PROVE  Typed' /\ Shape'
  <1> DEFINE N == Len(tree')
             f == Frame(1, N)
  <1>1. /\ UNCHANGED <<use, cancelled>> /\ outcome' = "running"
        /\ tree' \in Seq(ChunkType) /\ N \in Nat \ {0} /\ Chunks' = 1..N
        /\ \A k \in Chunks' : tree'[k].parent = 0
        /\ frames' = <<f>>
    BY BeginFacts
  <1>2. f = [first |-> 1, last |-> N, next |-> 1, at |-> "loop", err |-> FALSE]
    BY DEF Frame
  <1> HIDE DEF f
  <1>3. f \in FrameType
    BY <1>1, <1>2 DEF FrameType
  <1>4. frames' \in Seq(FrameType) /\ Len(frames') = 1 /\ DOMAIN frames' = {1} /\ frames'[1] = f
    BY <1>1, <1>3
  <1>5. Typed'
    BY <1>1, <1>4 DEF Typed, Usable
  <1>6. Levels' = {1} /\ Row(1)' = 1..N /\ Parent(1)' = 0
    BY <1>2, <1>4 DEF Levels, Row, Parent
  <1>7. Ranges'
    BY <1>1, <1>2, <1>4, <1>6 DEF Ranges
  <1>8. Ordered'
    BY <1>6 DEF Ordered
  <1>9. Descents'
    BY <1>1 DEF Descents
  <1>10. Family'
    <2> SUFFICES ASSUME NEW c \in Chunks' PROVE c \in Row(1)' <=> tree'[c].parent = Parent(1)'
      BY <1>6 DEF Family
    <2> QED
      BY <1>1, <1>6
  <1>11. Inner'
    BY <1>4, <1>6 DEF Inner
  <1>12. Uncut'
    <2> SUFFICES ASSUME NEW c \in Row(1)', NEW k \in Chunks' PROVE tree'[k].parent # c
      BY <1>6 DEF Uncut
    <2> QED
      BY <1>1, <1>6
  <1>13. Stages'
    BY <1>1, <1>4 DEF Stages
  <1> QED
    BY <1>5, <1>7, <1>8, <1>9, <1>10, <1>11, <1>12, <1>13 DEF Shape

\* The level in progress is left.
LEMMA FrontFacts ==
  ASSUME Typed, Shape, outcome = "running"
  PROVE  /\ Front(frames) \in Seq(FrameType) /\ Len(Front(frames)) = Len(frames) - 1
         /\ DOMAIN Front(frames) = 1..Len(frames) - 1
         /\ \A i \in 1..Len(frames) - 1 : i \in Levels /\ Front(frames)[i] = frames[i]
  <1>1. Len(frames) \in Nat \ {0} /\ frames \in Seq(FrameType) /\ Levels = 1..Len(frames)
    BY TopFacts DEF Typed, Levels
  <1> DEFINE n == Len(frames)
             g == SubSeq(frames, 1, n - 1)
  <1>2. Front(frames) = g
    BY DEF Front
  <1>3. g = [i \in 1..n - 1 |-> frames[i]]
    BY <1>1
  <1>4. n \in Nat \ {0} /\ Levels = 1..n /\ \A i \in 1..n : frames[i] \in FrameType
    BY <1>1
  <1> HIDE DEF g, n
  <1>5. g \in Seq(FrameType) /\ Len(g) = n - 1 /\ DOMAIN g = 1..n - 1
        /\ \A i \in 1..n - 1 : i \in Levels /\ g[i] = frames[i]
    BY <1>3, <1>4
  <1> QED
    BY <1>2, <1>5 DEF n

LEMMA LeaveFacts ==
  ASSUME Typed, Shape, Leave
  PROVE  /\ UNCHANGED <<use, tree, cancelled>> /\ outcome = "running"
         /\ outcome' = (IF Len(frames) = 1 THEN "ok" ELSE "running")
         /\ frames' \in Seq(FrameType) /\ Len(frames') = Len(frames) - 1
         /\ Levels' = 1..Len(frames) - 1 /\ Levels' \subseteq Levels
         /\ \A i \in Levels' : /\ frames'[i] = frames[i] /\ Row(i)' = Row(i)
                               /\ Parent(i)' = Parent(i) /\ i # Len(frames)
  <1>1. UNCHANGED <<use, tree, cancelled>> /\ outcome = "running" /\ frames' = Front(frames)
        /\ outcome' = (IF Len(frames) = 1 THEN "ok" ELSE "running")
    BY DEF Leave, At
  <1>2. frames' \in Seq(FrameType) /\ Len(frames') = Len(frames) - 1
         /\ Levels' = 1..Len(frames) - 1 /\ Levels' \subseteq Levels
         /\ \A i \in Levels' : frames'[i] = frames[i]
    BY <1>1, FrontFacts DEF Levels
  <1>3. Len(frames) \in Nat \ {0}
    BY <1>1, TopFacts
  <1>4. ASSUME NEW i \in Levels'
        PROVE  Row(i)' = Row(i) /\ Parent(i)' = Parent(i) /\ i # Len(frames)
    <2>1. Row(i)' = Row(i)
      BY <1>2 DEF Row
    <2>2. i # Len(frames) /\ (i = 1 \/ i - 1 \in Levels')
      BY <1>2, <1>3
    <2>3. Parent(i)' = Parent(i)
      BY <1>2, <2>2 DEF Parent
    <2> QED
      BY <2>1, <2>2, <2>3
  <1> QED
    BY <1>1, <1>2, <1>4

LEMMA LeaveShape ==
  ASSUME Typed, Shape, Leave
  PROVE  Typed' /\ Shape'
  <1>1. /\ UNCHANGED <<use, tree, cancelled>> /\ outcome = "running"
        /\ outcome' = (IF Len(frames) = 1 THEN "ok" ELSE "running")
        /\ frames' \in Seq(FrameType) /\ Len(frames') = Len(frames) - 1
        /\ Levels' = 1..Len(frames) - 1 /\ Levels' \subseteq Levels
        /\ \A i \in Levels' : /\ frames'[i] = frames[i] /\ Row(i)' = Row(i)
                              /\ Parent(i)' = Parent(i)
    BY LeaveFacts
  <1>2. Len(frames) \in Nat \ {0}
    BY <1>1, TopFacts
  <1>3. Chunks' = Chunks
    BY <1>1 DEF Chunks
  <1>4. Typed'
    BY <1>1 DEF Typed, Usable
  <1>5. Ranges'
    BY <1>1 DEF Shape, Ranges
  <1>6. Ordered'
    BY <1>1 DEF Shape, Ordered
  <1>7. Descents'
    BY <1>1, <1>3 DEF Shape, Descents
  <1>8. Family'
    BY <1>1, <1>3 DEF Shape, Family
  <1>9. Inner'
    <2>1. \A i \in Levels' : i < Len(frames') => i < Len(frames)
      BY <1>1, <1>2
    <2> QED
      BY <1>1, <2>1 DEF Shape, Inner
  <1>10. Uncut'
    BY <1>1, <1>3 DEF Shape, Uncut, Fresh
  <1>11. Stages'
    <2>1. frames' = <<>> <=> Len(frames') = 0
      BY <1>1
    <2>2. Len(frames') = 0 <=> Len(frames) = 1
      BY <1>1, <1>2
    <2> QED
      BY <1>1, <2>1, <2>2 DEF Stages
  <1> QED
    BY <1>4, <1>5, <1>6, <1>7, <1>8, <1>9, <1>10, <1>11 DEF Shape

\* An error is passed to the level above.
LEMMA RaiseFacts ==
  ASSUME Typed, Shape, Raise, Len(frames) # 1
  PROVE  /\ UNCHANGED <<use, cancelled, outcome>> /\ outcome = "running" /\ Top.at = "raise"
         /\ Len(frames) \in Levels \ {1}
         /\ frames' \in Seq(FrameType) /\ Len(frames') = Len(frames) - 1 /\ frames' # <<>>
         /\ Levels' = 1..Len(frames) - 1 /\ Levels' \subseteq Levels
         /\ \A i \in Levels' :
              /\ frames'[i].first = frames[i].first /\ frames'[i].last = frames[i].last
              /\ frames'[i].next = frames[i].next /\ frames'[i].err = frames[i].err
              /\ frames'[i].at = (IF i = Len(frames) - 1 THEN "raise" ELSE frames[i].at)
              /\ Row(i)' = Row(i) /\ Parent(i)' = Parent(i)
         /\ tree' \in Seq(ChunkType) /\ Len(tree') = Len(tree) /\ Chunks' = Chunks
         /\ \A k \in Chunks :
              /\ tree'[k].parent = tree[k].parent /\ tree'[k].leaf = tree[k].leaf
              /\ tree'[k].call = tree[k].call
              /\ tree'[k].status =
                   (IF k = Parent(Len(frames)) THEN "failed" ELSE tree[k].status)
  <1> DEFINE n == Len(frames)
  <1>1. outcome = "running" /\ Top.at = "raise" /\ UNCHANGED <<use, cancelled, outcome>>
        /\ frames' = [Front(frames) EXCEPT ![n - 1].at = "raise"]
        /\ tree' = [tree EXCEPT ![tree[Top.first].parent].status = "failed"]
    BY DEF Raise, At
  <1>2. n \in Levels \ {1} /\ n \in Nat \ {0, 1} /\ Top = frames[n]
    <2>1. n \in Levels /\ n \in Nat /\ 1 \in Levels /\ \A i \in Levels : 1 <= i /\ i <= n
      BY <1>1, TopFacts
    <2> QED
      BY <2>1, <1>1, TopFacts
  <1>3. tree[Top.first].parent = Parent(n) /\ Parent(n) \in Chunks
    BY <1>2, RowFacts, ParentFacts
  <1>4. /\ tree' \in Seq(ChunkType) /\ Len(tree') = Len(tree) /\ Chunks' = Chunks
        /\ \A k \in Chunks :
              /\ tree'[k].parent = tree[k].parent /\ tree'[k].leaf = tree[k].leaf
              /\ tree'[k].call = tree[k].call
              /\ tree'[k].status = (IF k = Parent(n) THEN "failed" ELSE tree[k].status)
    <2> DEFINE x == Parent(n)
    <2>1. x \in Chunks /\ tree' = [tree EXCEPT ![x].status = "failed"]
      BY <1>1, <1>3
    <2>2. "failed" \in StatusSet
      BY DEF StatusSet
    <2> HIDE DEF x
    <2>3. /\ tree' \in Seq(ChunkType) /\ Len(tree') = Len(tree) /\ DOMAIN tree' = Chunks
          /\ \A k \in Chunks :
              /\ tree'[k].parent = tree[k].parent /\ tree'[k].leaf = tree[k].leaf
              /\ tree'[k].call = tree[k].call
              /\ tree'[k].status = (IF k = x THEN "failed" ELSE tree[k].status)
      BY <2>1, <2>2, StatusTree
    <2> QED
      BY <2>3 DEF x, Chunks
  <1> DEFINE g == Front(frames)
             m == n - 1
  <1>5. /\ g \in [1..m -> FrameType] /\ m \in 1..m /\ m \in Nat
        /\ \A i \in 1..m : i \in Levels /\ g[i] = frames[i]
    <2>1. /\ g \in Seq(FrameType) /\ Len(g) = m
          /\ \A i \in 1..m : i \in Levels /\ g[i] = frames[i]
      BY <1>1, FrontFacts
    <2> HIDE DEF g
    <2>2. m \in Nat /\ m \in 1..m
      <3>1. n \in Nat /\ n # 0 /\ n # 1
        BY <1>2
      <3> HIDE DEF n
      <3> QED
        BY <3>1
    <2> QED
      BY <2>1, <2>2
  <1>6. frames' = [g EXCEPT ![m].at = "raise"]
    BY <1>1
  <1>7. PICK q \in FrameType : q = g[m]
    BY <1>5
  <1> HIDE DEF g, m
  <1> DEFINE r == [q EXCEPT !.at = "raise"]
  <1>8. frames' = [g EXCEPT ![m] = r]
    BY <1>6, <1>7
  <1>9. r \in FrameType /\ r.first = q.first /\ r.last = q.last /\ r.next = q.next
        /\ r.at = "raise" /\ r.err = q.err
    BY AtUpdate
  <1> HIDE DEF r
  <1>10. frames' \in [1..m -> FrameType]
    BY <1>5, <1>8, <1>9
  <1>11. frames' \in Seq(FrameType) /\ Len(frames') = m /\ DOMAIN frames' = 1..m
    BY <1>5, <1>10
  <1>12. ASSUME NEW i \in 1..m
         PROVE  /\ frames'[i].first = frames[i].first /\ frames'[i].last = frames[i].last
                /\ frames'[i].next = frames[i].next /\ frames'[i].err = frames[i].err
                /\ frames'[i].at = (IF i = m THEN "raise" ELSE frames[i].at)
    <2>1. frames[i] = g[i]
      BY <1>5
    <2>2. frames'[i] = IF i = m THEN r ELSE g[i]
      BY <1>5, <1>8
    <2>3. CASE i = m
      BY <1>7, <1>9, <2>1, <2>2, <2>3
    <2>4. CASE i # m
      BY <2>1, <2>2, <2>4
    <2> QED
      BY <2>3, <2>4
  <1>13. ASSUME NEW i \in 1..m PROVE Row(i)' = Row(i) /\ Parent(i)' = Parent(i)
    <2>1. Row(i)' = Row(i)
      BY <1>12 DEF Row
    <2>2. i = 1 \/ i - 1 \in 1..m
      BY <1>5
    <2>3. Parent(i)' = Parent(i)
      BY <1>12, <2>2 DEF Parent
    <2> QED
      BY <2>1, <2>3
  <1>14. Levels' = 1..m /\ Levels' \subseteq Levels /\ frames' # <<>>
    BY <1>5, <1>11 DEF Levels
  <1> QED
    BY <1>1, <1>2, <1>4, <1>11, <1>12, <1>13, <1>14 DEF m

LEMMA RaiseShape ==
  ASSUME Typed, Shape, Raise
  PROVE  Typed' /\ Shape'
  <1>1. CASE Len(frames) = 1
    <2>1. frames' = <<>> /\ outcome' = "error" /\ UNCHANGED <<use, tree, cancelled>>
      BY <1>1 DEF Raise
    <2>2. Typed'
      BY <2>1 DEF Typed, Usable
    <2>3. Levels' = {} /\ Chunks' = Chunks
      BY <2>1 DEF Levels, Chunks
    <2>4. Ranges' /\ Ordered' /\ Family' /\ Inner' /\ Uncut'
      BY <2>3 DEF Ranges, Ordered, Family, Inner, Uncut
    <2>5. Descents'
      BY <2>1, <2>3 DEF Shape, Descents
    <2>6. Stages'
      BY <2>1 DEF Stages
    <2> QED
      BY <2>2, <2>4, <2>5, <2>6 DEF Shape
  <1>2. CASE Len(frames) # 1
    <2> DEFINE m == Len(frames) - 1
    <2>1. /\ UNCHANGED <<use, cancelled, outcome>> /\ outcome = "running"
          /\ Len(frames) \in Levels \ {1}
          /\ frames' \in Seq(FrameType) /\ Len(frames') = m /\ frames' # <<>>
          /\ Levels' = 1..m /\ Levels' \subseteq Levels
          /\ tree' \in Seq(ChunkType) /\ Len(tree') = Len(tree) /\ Chunks' = Chunks
      BY <1>2, RaiseFacts
    <2>2. \A i \in Levels' :
              /\ frames'[i].first = frames[i].first /\ frames'[i].last = frames[i].last
              /\ frames'[i].next = frames[i].next
              /\ frames'[i].at = (IF i = m THEN "raise" ELSE frames[i].at)
              /\ Row(i)' = Row(i) /\ Parent(i)' = Parent(i)
      BY <1>2, RaiseFacts
    <2>3. \A k \in Chunks : tree'[k].parent = tree[k].parent /\ tree'[k].leaf = tree[k].leaf
      BY <1>2, RaiseFacts
    <2>4. Typed'
      BY <2>1 DEF Typed, Usable
    <2>5. Ranges'
      <3> SUFFICES ASSUME NEW i \in Levels'
                   PROVE  /\ 1 <= frames'[i].first /\ frames'[i].first <= frames'[i].last
                          /\ frames'[i].last <= Len(tree')
                          /\ frames'[i].first <= frames'[i].next
                          /\ frames'[i].next <= frames'[i].last + 1
                          /\ frames'[i].at = "acquire" => frames'[i].next <= frames'[i].last
        BY DEF Ranges
      <3>1. /\ 1 <= frames[i].first /\ frames[i].first <= frames[i].last
            /\ frames[i].last <= Len(tree)
            /\ frames[i].first <= frames[i].next /\ frames[i].next <= frames[i].last + 1
            /\ frames[i].at = "acquire" => frames[i].next <= frames[i].last
        BY <2>1 DEF Shape, Ranges
      <3> QED
        BY <2>1, <2>2, <3>1
    <2>6. Ordered'
      BY <2>1, <2>2 DEF Shape, Ordered
    <2>7. Descents'
      BY <2>1, <2>3 DEF Shape, Descents
    <2>8. Family'
      BY <2>1, <2>2, <2>3 DEF Shape, Family
    <2>9. Inner'
      <3> SUFFICES ASSUME NEW i \in Levels', i < m
                   PROVE  /\ frames'[i].at = "descend" /\ frames'[i].first < frames'[i].next
                          /\ ~tree'[frames'[i].next - 1].leaf
        BY <2>1 DEF Inner
      <3>1. i \in Nat /\ 1 <= i /\ i + 1 \in Levels /\ i < Len(frames) /\ i # m
        BY <2>1 DEF Levels, Typed
      <3>2. frames[i].at = "descend" /\ frames[i].first < frames[i].next
            /\ ~tree[frames[i].next - 1].leaf
        BY <2>1, <3>1 DEF Shape, Inner
      <3>3. frames[i].next - 1 \in Chunks
        <4> DEFINE j == i + 1
        <4>1. j \in Levels /\ j # 1 /\ j - 1 = i
          BY <3>1
        <4> HIDE DEF j
        <4>2. Parent(j) = frames[j - 1].next - 1 /\ Parent(j) \in Chunks
          BY <4>1, ParentFacts
        <4> QED
          BY <4>1, <4>2
      <3> QED
        BY <2>2, <2>3, <3>1, <3>2, <3>3
    <2>10. Uncut'
      <3> SUFFICES ASSUME NEW i \in Levels', NEW c \in Row(i)', Fresh(i, c)',
                          NEW k \in Chunks
                   PROVE  tree'[k].parent # c
        BY <2>1 DEF Uncut
      <3>1. Fresh(i, c) /\ c \in Row(i) /\ i \in Levels
        BY <2>1, <2>2 DEF Fresh
      <3> QED
        BY <2>3, <3>1 DEF Shape, Uncut
    <2>11. Stages'
      BY <2>1 DEF Stages
    <2> QED
      BY <2>4, <2>5, <2>6, <2>7, <2>8, <2>9, <2>10, <2>11 DEF Shape
  <1> QED
    BY <1>1, <1>2

\* The next large chunk of the level in progress is cut.
LEMMA DescendChunk ==
  ASSUME Typed, Shape, Descend
  PROVE  /\ outcome = "running" /\ Top.at = "descend" /\ UNCHANGED <<use, cancelled, outcome>>
         /\ Min(Large) \in Row(Len(frames)) /\ Min(Large) \in Chunks /\ Top.next <= Min(Large)
         /\ ~tree[Min(Large)].leaf /\ Min(Large) \in Nat
         /\ \A k \in Row(Len(frames)) : Top.next <= k /\ k < Min(Large) => tree[k].leaf
         /\ NewLevel(Cut(Min(Large)), Min(Large))
         /\ tree' = [tree EXCEPT ![Min(Large)].status = "processing"] \o Cut(Min(Large))
         /\ frames' = Append([frames EXCEPT ![Len(frames)].next = Min(Large) + 1],
                             Frame(Len(tree) + 1, Len(tree) + Len(Cut(Min(Large)))))
  <1>1. /\ outcome = "running" /\ Top.at = "descend" /\ UNCHANGED <<use, cancelled, outcome>>
        /\ tree' = [tree EXCEPT ![Min(Large)].status = "processing"] \o Cut(Min(Large))
        /\ frames' = Append([frames EXCEPT ![Len(frames)].next = Min(Large) + 1],
                            Frame(Len(tree) + 1, Len(tree) + Len(Cut(Min(Large)))))
        /\ Large # {}
    BY DEF Descend, At
  <1>2. /\ Top.first \in Nat /\ Top.next \in Nat /\ Top.last \in Nat /\ Top.first <= Top.next
        /\ Top.first..Top.last = Row(Len(frames)) /\ Len(frames) \in Levels
    BY <1>1, TopFacts
  <1>3. Large \in SUBSET Nat
    BY <1>2 DEF Large
  <1>4. Min(Large) \in Large /\ \A k \in Large : Min(Large) <= k
    BY <1>1, <1>3, MinIsLeast
  <1> DEFINE c == Min(Large)
  <1> HIDE DEF c
  <1>5. c \in Large /\ \A k \in Large : c <= k
    BY <1>4 DEF c
  <1>6. c \in Top.next..Top.last /\ ~tree[c].leaf
    BY <1>5 DEF Large
  <1>7. c \in Row(Len(frames)) /\ Top.next <= c /\ c \in Nat
    BY <1>2, <1>6
  <1>8. c \in Chunks
    BY <1>2, <1>7, RowFacts
  <1>9. \A k \in Row(Len(frames)) : Top.next <= k /\ k < c => tree[k].leaf
    <2> SUFFICES ASSUME NEW k \in Row(Len(frames)), Top.next <= k, k < c, ~tree[k].leaf
                 PROVE  FALSE
      OBVIOUS
    <2>1. k \in Nat /\ k \in Top.next..Top.last
      BY <1>2
    <2>2. k \in Large
      BY <2>1 DEF Large
    <2> QED
      BY <2>1, <2>2, <1>5, <1>7
  <1>10. NewLevel(Cut(c), c)
    <2>1. tree[c].lo \in Int /\ tree[c].hi \in Int /\ tree[c].depth + 1 \in Nat /\ Usable
      BY <1>8, ChunkFields DEF Typed
    <2>2. NewLevel(Level(tree[c].lo, tree[c].hi, c, tree[c].depth + 1), c)
      BY <1>7, <2>1, LevelTyped
    <2> QED
      BY <2>2 DEF Cut
  <1> QED
    BY <1>1, <1>6, <1>7, <1>8, <1>9, <1>10 DEF c

\* What Descend makes of the chunk c of the level in progress, the n-th.
Descended(n, c) ==
  /\ n = Len(frames) /\ c \in Chunks /\ Top.next <= c /\ ~tree[c].leaf
  /\ \A k \in Row(n) : Top.next <= k /\ k < c => tree[k].leaf
  /\ tree' \in Seq(ChunkType) /\ Len(tree') \in Nat /\ Len(tree) < Len(tree')
  /\ Chunks' = Chunks \cup (Len(tree) + 1..Len(tree')) /\ Chunks \subseteq Chunks'
  /\ \A k \in Chunks :
       /\ tree'[k].parent = tree[k].parent /\ tree'[k].leaf = tree[k].leaf
       /\ tree'[k].call = tree[k].call
       /\ tree'[k].status = (IF k = c THEN "processing" ELSE tree[k].status)
  /\ \A k \in Len(tree) + 1..Len(tree') :
       /\ tree'[k].parent = c /\ tree'[k].call = "new"
       /\ tree'[k].status = (IF tree'[k].leaf THEN "completed" ELSE "pending")
  /\ frames' \in Seq(FrameType) /\ Len(frames') = n + 1
  /\ Levels' = Levels \cup {n + 1}
  /\ \A i \in Levels :
       /\ frames'[i].first = frames[i].first /\ frames'[i].last = frames[i].last
       /\ frames'[i].at = frames[i].at /\ frames'[i].err = frames[i].err
       /\ frames'[i].next = (IF i = n THEN c + 1 ELSE frames[i].next)
       /\ Parent(i)' = Parent(i)
  /\ frames'[n + 1] = Frame(Len(tree) + 1, Len(tree'))
  /\ Parent(n + 1)' = c

LEMMA DescendFacts ==
  ASSUME Typed, Shape, Descend
  PROVE  \E n \in Levels : \E c \in Row(n) : Descended(n, c)
  <1>1. PICK c, n : c = Min(Large) /\ n = Len(frames)
    OBVIOUS
  <1> DEFINE N == Len(tree)
             L == Cut(c)
             t == [tree EXCEPT ![c].status = "processing"]
             g == [frames EXCEPT ![n].next = c + 1]
  <1>2. /\ c \in Row(n) /\ c \in Chunks /\ Top.next <= c /\ ~tree[c].leaf /\ c \in Nat
        /\ \A k \in Row(n) : Top.next <= k /\ k < c => tree[k].leaf
        /\ NewLevel(L, c) /\ tree' = t \o L
        /\ frames' = Append(g, Frame(N + 1, N + Len(L))) /\ outcome = "running"
    BY <1>1, DescendChunk
  <1>3. /\ t \in Seq(ChunkType) /\ Len(t) = N /\ DOMAIN t = Chunks
        /\ \A k \in Chunks :
              /\ t[k].parent = tree[k].parent /\ t[k].leaf = tree[k].leaf
              /\ t[k].call = tree[k].call
              /\ t[k].status = (IF k = c THEN "processing" ELSE tree[k].status)
    <2>1. "processing" \in StatusSet
      BY DEF StatusSet
    <2> QED
      BY <1>2, <2>1, StatusTree
  <1>4. N \in Nat /\ Chunks = 1..N
    BY DEF Typed, Chunks
  <1>5. L \in Seq(ChunkType) /\ Len(L) \in Nat \ {0} /\ \A k \in 1..Len(L) :
           /\ L[k].parent = c /\ L[k].call = "new"
           /\ L[k].status = (IF L[k].leaf THEN "completed" ELSE "pending")
    BY <1>2 DEF NewLevel
  <1> DEFINE M == Len(L)
  <1> HIDE DEF L, t, N
  <1>6. /\ tree' \in Seq(ChunkType) /\ Len(tree') = N + M /\ DOMAIN tree' = 1..N + M
        /\ \A k \in 1..N : tree'[k] = t[k]
        /\ \A k \in N + 1..N + M : tree'[k] = L[k - N] /\ k - N \in 1..M
    <2>1. tree' = t \o L
      BY <1>2
    <2>2. tree' \in Seq(ChunkType) /\ Len(tree') = N + M /\ DOMAIN tree' = 1..N + M
      <3>1. t \in Seq(ChunkType) /\ L \in Seq(ChunkType) /\ Len(t) = N
        BY <1>3, <1>5
      <3>2. t \o L \in Seq(ChunkType)
        BY <3>1
      <3>3. Len(t \o L) = Len(t) + Len(L)
        BY <3>1
      <3>4. DOMAIN tree' = 1..Len(tree')
        BY <2>1, <3>2
      <3> QED
        BY <2>1, <3>1, <3>2, <3>3, <3>4
    <2>3. \A k \in 1..N : tree'[k] = t[k]
      BY <1>3, <1>4, <1>5, <2>1
    <2>4. \A k \in N + 1..N + M : tree'[k] = L[k - N] /\ k - N \in 1..M
      BY <1>3, <1>4, <1>5, <2>1
    <2> QED
      BY <2>2, <2>3, <2>4
  <1>7. Len(tree') \in Nat /\ N < Len(tree') /\ Chunks' = Chunks \cup (N + 1..Len(tree'))
        /\ Chunks \subseteq Chunks'
    <2>1. Chunks' = 1..N + M /\ M \in Nat \ {0}
      BY <1>5, <1>6 DEF Chunks
    <2> HIDE DEF M
    <2> QED
      BY <2>1, <1>4, <1>6
  <1>8. \A k \in Chunks :
                /\ tree'[k].parent = tree[k].parent /\ tree'[k].leaf = tree[k].leaf
                /\ tree'[k].call = tree[k].call
                /\ tree'[k].status = (IF k = c THEN "processing" ELSE tree[k].status)
    BY <1>3, <1>4, <1>6
  <1>9. \A k \in N + 1..Len(tree') :
                /\ tree'[k].parent = c /\ tree'[k].call = "new"
                /\ tree'[k].status = (IF tree'[k].leaf THEN "completed" ELSE "pending")
    BY <1>5, <1>6
  <1>10. n \in Levels /\ n \in Nat \ {0} /\ Levels = 1..n /\ frames \in Seq(FrameType)
    <2>1. n \in Levels /\ n \in Nat /\ frames \in Seq(FrameType)
      BY <1>1, <1>2, TopFacts DEF Typed
    <2>2. Levels = 1..n
      BY <1>1, <2>1 DEF Levels
    <2> QED
      BY <2>1, <2>2
  <1>11. PICK q \in FrameType : q = frames[n]
    BY <1>10, RowFacts
  <1> DEFINE r == [q EXCEPT !.next = c + 1]
  <1>12. r \in FrameType /\ r.first = q.first /\ r.last = q.last /\ r.next = c + 1
         /\ r.at = q.at /\ r.err = q.err
    <2>1. c + 1 \in Nat
      BY <1>2
    <2> QED
      BY <2>1 DEF FrameType
  <1>13. g = [frames EXCEPT ![n] = r]
    BY <1>11
  <1> HIDE DEF r, g
  <1> DEFINE f == Frame(N + 1, N + M)
  <1>14. f \in FrameType
    <2>1. N + 1 \in Nat /\ N + M \in Nat
      BY <1>4, <1>5
    <2> QED
      BY <2>1 DEF Frame, FrameType
  <1>15. g \in Seq(FrameType) /\ Len(g) = n /\ \A i \in 1..n : g[i] = IF i = n THEN r ELSE frames[i]
    <2>1. g \in [1..n -> FrameType]
      BY <1>1, <1>10, <1>12, <1>13
    <2>2. \A i \in 1..n : g[i] = IF i = n THEN r ELSE frames[i]
      BY <1>1, <1>10, <1>13
    <2> QED
      BY <2>1, <2>2, <1>10
  <1> HIDE DEF f
  <1>16. /\ frames' \in Seq(FrameType) /\ Len(frames') = n + 1 /\ DOMAIN frames' = 1..n + 1
         /\ frames'[n + 1] = f /\ \A i \in 1..n : frames'[i] = g[i]
    <2>1. frames' = Append(g, f)
      BY <1>2 DEF f
    <2> QED
      BY <2>1, <1>10, <1>14, <1>15
  <1>17. Levels' = Levels \cup {n + 1}
    BY <1>10, <1>16 DEF Levels
  <1>18. ASSUME NEW i \in Levels
         PROVE  /\ frames'[i].first = frames[i].first /\ frames'[i].last = frames[i].last
                /\ frames'[i].at = frames[i].at /\ frames'[i].err = frames[i].err
                /\ frames'[i].next = (IF i = n THEN c + 1 ELSE frames[i].next)
    <2>1. frames'[i] = IF i = n THEN r ELSE frames[i]
      BY <1>10, <1>15, <1>16
    <2>2. CASE i = n
      BY <1>11, <1>12, <2>1, <2>2
    <2>3. CASE i # n
      BY <2>1, <2>3
    <2> QED
      BY <2>2, <2>3
  <1>19. ASSUME NEW i \in Levels PROVE Parent(i)' = Parent(i)
    <2>1. i = 1 \/ (i - 1 \in Levels /\ i - 1 # n)
      BY <1>10
    <2> QED
      BY <1>18, <2>1 DEF Parent
  <1>20. Parent(n + 1)' = c
    <2>1. n \in Nat /\ n # 0 /\ c \in Nat /\ frames'[n].next = c + 1
      BY <1>2, <1>10, <1>18
    <2>2. PICK m : m = n + 1
      OBVIOUS
    <2>3. m # 1 /\ m - 1 = n /\ c + 1 - 1 = c
      BY <2>1, <2>2
    <2>4. Parent(m)' = c
      BY <2>1, <2>3 DEF Parent
    <2> QED
      BY <2>2, <2>4
  <1>21. frames'[n + 1] = Frame(N + 1, Len(tree'))
    BY <1>6, <1>16 DEF f
  <1>22. n = Len(frames) /\ n \in Levels /\ c \in Row(n)
    BY <1>1, <1>2, <1>10
  <1>23. Descended(n, c)
    BY <1>2, <1>6, <1>7, <1>8, <1>9, <1>16, <1>17, <1>18, <1>19, <1>20, <1>21, <1>22
    DEF N, Descended
  <1> QED
    BY <1>22, <1>23

LEMMA DescendShape ==
  ASSUME Typed, Shape, Descend
  PROVE  Typed' /\ Shape'
  <1> DEFINE N == Len(tree)
  <1>a. PICK n \in Levels : \E c \in Row(n) : Descended(n, c)
    BY DescendFacts
  <1>b. PICK c \in Row(n) : Descended(n, c)
    BY <1>a
  <1>1.
           /\ n = Len(frames) /\ c \in Chunks /\ Top.next <= c /\ ~tree[c].leaf
           /\ tree' \in Seq(ChunkType) /\ Len(tree') \in Nat /\ N < Len(tree')
           /\ Chunks' = Chunks \cup (N + 1..Len(tree')) /\ Chunks \subseteq Chunks'
           /\ \A k \in Chunks :
                tree'[k].parent = tree[k].parent /\ tree'[k].leaf = tree[k].leaf
           /\ \A k \in N + 1..Len(tree') : tree'[k].parent = c
           /\ frames' \in Seq(FrameType) /\ Len(frames') = n + 1
           /\ Levels' = Levels \cup {n + 1}
           /\ \A i \in Levels :
                /\ frames'[i].first = frames[i].first /\ frames'[i].last = frames[i].last
                /\ frames'[i].at = frames[i].at
                /\ frames'[i].next = (IF i = n THEN c + 1 ELSE frames[i].next)
                /\ Parent(i)' = Parent(i)
           /\ frames'[n + 1] = Frame(N + 1, Len(tree'))
           /\ Parent(n + 1)' = c
    BY <1>b DEF Descended
  <1>2. outcome = "running" /\ Top.at = "descend" /\ UNCHANGED <<use, cancelled, outcome>>
    BY DescendChunk
  <1>3. /\ n \in Levels /\ n \in Nat \ {0} /\ Top = frames[n] /\ N \in Nat /\ Chunks = 1..N
        /\ \A i \in Levels : i \in Nat /\ i <= n /\ i # n + 1
    <2>1. n \in Levels /\ Top = frames[n] /\ \A i \in Levels : i \in Nat /\ i <= n /\ 1 <= i
      BY <1>1, <1>2, TopFacts
    <2>2. N \in Nat /\ Chunks = 1..N
      BY DEF Typed, Chunks
    <2> QED
      BY <2>1, <2>2
  <1>4. \A k \in Chunks : tree[k].parent # c
    <2>1. Fresh(n, c)
      BY <1>1, <1>2, <1>3 DEF Fresh
    <2> QED
      BY <1>1, <1>3, <2>1 DEF Shape, Uncut
  <1>5. \A i \in Levels : Parent(i) # c
    <2> SUFFICES ASSUME NEW i \in Levels, Parent(i) = c PROVE FALSE
      OBVIOUS
    <2>1. frames[i].first \in Chunks /\ tree[frames[i].first].parent = c
      BY RowFacts
    <2> QED
      BY <1>4, <2>1
  <1>6. Typed'
    BY <1>1, <1>2 DEF Typed, Usable
  <1>7. /\ frames'[n + 1].first = N + 1 /\ frames'[n + 1].last = Len(tree')
        /\ frames'[n + 1].next = N + 1 /\ frames'[n + 1].at = "loop"
    BY <1>1 DEF Frame
  <1>8. Row(n + 1)' = N + 1..Len(tree') /\ \A i \in Levels : Row(i)' = Row(i)
    BY <1>1, <1>7 DEF Row
  <1>9. c \in Nat /\ frames[n].first <= c /\ c <= frames[n].last /\ c <= N
        /\ frames[n].first \in Nat /\ frames[n].last \in Nat
    <2>1. frames[n].first \in Nat /\ frames[n].last \in Nat
      BY <1>3, RowFacts
    <2>2. c \in frames[n].first..frames[n].last
      BY <1>1 DEF Row
    <2> QED
      BY <2>1, <2>2, <1>1, <1>3
  <1> HIDE DEF N
  <1>10. Ranges'
    <2> SUFFICES ASSUME NEW i \in Levels'
                 PROVE  /\ 1 <= frames'[i].first /\ frames'[i].first <= frames'[i].last
                        /\ frames'[i].last <= Len(tree')
                        /\ frames'[i].first <= frames'[i].next
                        /\ frames'[i].next <= frames'[i].last + 1
                        /\ frames'[i].at = "acquire" => frames'[i].next <= frames'[i].last
      BY DEF Ranges
    <2>1. CASE i = n + 1
      BY <1>1, <1>3, <1>7, <2>1
    <2>2. CASE i # n + 1
      <3>1. i \in Levels
        BY <1>1, <2>2
      <3>2. /\ 1 <= frames[i].first /\ frames[i].first <= frames[i].last
            /\ frames[i].last <= N
            /\ frames[i].first <= frames[i].next /\ frames[i].next <= frames[i].last + 1
            /\ frames[i].at = "acquire" => frames[i].next <= frames[i].last
        BY <3>1 DEF Shape, Ranges, N
      <3>3. frames[i].last \in Nat
        BY <3>1, RowFacts
      <3>4. frames'[i].first = frames[i].first /\ frames'[i].last = frames[i].last
            /\ frames'[i].at = frames[i].at
            /\ frames'[i].next = (IF i = n THEN c + 1 ELSE frames[i].next)
        BY <1>1, <3>1
      <3>5. frames'[i].last <= Len(tree')
        BY <3>2, <3>3, <3>4, <1>1, <1>3
      <3>6. CASE i = n
        BY <3>2, <3>4, <3>5, <3>6, <1>2, <1>3, <1>9
      <3>7. CASE i # n
        BY <3>2, <3>4, <3>5, <3>7
      <3> QED
        BY <3>6, <3>7
    <2> QED
      BY <2>1, <2>2
  <1>11. Ordered'
    <2> SUFFICES ASSUME NEW i \in Levels', NEW j \in Levels', i < j
                 PROVE  frames'[i].last < frames'[j].first
      BY DEF Ordered
    <2>1. i \in Levels
      <3>1. i # n + 1
        BY <1>1, <1>3
      <3> QED
        BY <1>1, <3>1
    <2>2. CASE j = n + 1
      <3>1. frames[i].last <= N /\ frames[i].last \in Nat
        BY <2>1, RowFacts DEF Shape, Ranges, N
      <3> QED
        BY <1>1, <1>3, <1>7, <2>1, <2>2, <3>1
    <2>3. CASE j # n + 1
      <3>1. j \in Levels
        BY <1>1, <2>3
      <3>2. frames[i].last < frames[j].first
        BY <2>1, <3>1 DEF Shape, Ordered
      <3> QED
        BY <1>1, <2>1, <3>1, <3>2
    <2> QED
      BY <2>2, <2>3
  <1>12. Descents'
    <2> SUFFICES ASSUME NEW k \in Chunks' PROVE tree'[k].parent < k
      BY DEF Descents
    <2>1. CASE k \in Chunks
      BY <1>1, <2>1 DEF Shape, Descents
    <2>2. CASE k \notin Chunks
      <3>1. k \in N + 1..Len(tree')
        BY <1>1, <2>2
      <3> QED
        BY <3>1, <1>1, <1>3, <1>9
    <2> QED
      BY <2>1, <2>2
  <1>13. Family'
    <2> SUFFICES ASSUME NEW i \in Levels', NEW k \in Chunks'
                 PROVE  k \in Row(i)' <=> tree'[k].parent = Parent(i)'
      BY DEF Family
    <2>1. k \in Chunks => k \in Nat /\ k <= N /\ k \notin N + 1..Len(tree')
      BY <1>3
    <2>2. CASE i = n + 1 /\ k \in Chunks
      <3>1. k \notin Row(i)'
        BY <1>8, <2>1, <2>2
      <3>2. tree'[k].parent # c
        BY <1>1, <1>4, <2>2
      <3> QED
        BY <1>1, <2>2, <3>1, <3>2
    <2>3. CASE i = n + 1 /\ k \notin Chunks
      <3>1. k \in N + 1..Len(tree')
        BY <1>1, <2>3
      <3> QED
        BY <1>1, <1>8, <2>3, <3>1
    <2>4. CASE i # n + 1 /\ k \in Chunks
      <3>1. i \in Levels
        BY <1>1, <2>4
      <3>2. k \in Row(i) <=> tree[k].parent = Parent(i)
        BY <2>4, <3>1 DEF Shape, Family
      <3>3. Row(i)' = Row(i) /\ Parent(i)' = Parent(i) /\ tree'[k].parent = tree[k].parent
        BY <1>1, <1>8, <2>4, <3>1
      <3> QED
        BY <3>2, <3>3
    <2>5. CASE i # n + 1 /\ k \notin Chunks
      <3>1. i \in Levels /\ k \in N + 1..Len(tree')
        BY <1>1, <2>5
      <3>2. k \notin Row(i)
        BY <2>5, <3>1, RowFacts
      <3>3. Row(i)' = Row(i) /\ Parent(i)' = Parent(i) /\ tree'[k].parent = c
        BY <1>1, <1>8, <3>1
      <3> QED
        BY <1>5, <3>1, <3>2, <3>3
    <2> QED
      BY <2>2, <2>3, <2>4, <2>5
  <1>14. Inner'
    <2> SUFFICES ASSUME NEW i \in Levels', i < n + 1
                 PROVE  /\ frames'[i].at = "descend" /\ frames'[i].first < frames'[i].next
                        /\ ~tree'[frames'[i].next - 1].leaf
      BY <1>1 DEF Inner
    <2>1. i \in Levels /\ i \in Nat /\ i <= n
      <3>1. i # n + 1
        BY <1>3
      <3> QED
        BY <1>1, <1>3, <3>1
    <2>2. CASE i = n
      <3>1. frames'[i].at = "descend" /\ frames'[i].first = frames[n].first
            /\ frames'[i].next = c + 1
        BY <1>1, <1>2, <1>3, <2>1, <2>2
      <3>2. frames'[i].next - 1 = c /\ frames[n].first < frames'[i].next
        BY <1>9, <3>1
      <3>3. ~tree'[c].leaf
        BY <1>1
      <3> QED
        BY <3>1, <3>2, <3>3
    <2>3. CASE i # n
      <3>1. i < n /\ 1 <= i
        BY <2>1, <2>3, <1>3, RowFacts
      <3>2. frames[i].at = "descend" /\ frames[i].first < frames[i].next
            /\ ~tree[frames[i].next - 1].leaf
        BY <1>1, <2>1, <3>1 DEF Shape, Inner
      <3>3. frames[i].next - 1 \in Chunks
        <4> DEFINE j == i + 1
        <4>1. j \in Levels /\ j # 1 /\ j - 1 = i
          BY <1>1, <2>1, <3>1, <1>3 DEF Levels, Typed
        <4> HIDE DEF j
        <4>2. Parent(j) = frames[j - 1].next - 1 /\ Parent(j) \in Chunks
          BY <4>1, ParentFacts
        <4> QED
          BY <4>1, <4>2
      <3>4. frames'[i].at = frames[i].at /\ frames'[i].first = frames[i].first
            /\ frames'[i].next = frames[i].next
        BY <1>1, <2>1, <2>3
      <3> QED
        BY <1>1, <3>2, <3>3, <3>4
    <2> QED
      BY <2>2, <2>3
  <1>15. Uncut'
    <2> SUFFICES ASSUME NEW i \in Levels', NEW k \in Row(i)', Fresh(i, k)', NEW j \in Chunks'
                 PROVE  tree'[j].parent # k
      BY DEF Uncut
    <2>1. CASE i = n + 1
      <3>1. k \in N + 1..Len(tree')
        BY <1>8, <2>1
      <3>2. CASE j \in Chunks
        <4>1. tree[j].parent < j /\ j \in Nat /\ j <= N /\ tree[j].parent \in Nat
          BY <3>2, <1>3, ChunkFields DEF Shape, Descents, Typed
        <4> QED
          BY <1>1, <1>3, <3>1, <3>2, <4>1
      <3>3. CASE j \notin Chunks
        <4>1. j \in N + 1..Len(tree')
          BY <1>1, <3>3
        <4> QED
          BY <1>1, <1>3, <1>9, <3>1, <4>1
      <3> QED
        BY <3>2, <3>3
    <2>2. CASE i # n + 1
      <3>1. i \in Levels /\ k \in Row(i) /\ k \in Nat
        BY <1>1, <1>8, <2>2, RowFacts
      <3>2. frames'[i].at = frames[i].at
            /\ frames'[i].next = (IF i = n THEN c + 1 ELSE frames[i].next)
        BY <1>1, <3>1
      <3>3. Fresh(i, k) /\ k # c
        <4>1. CASE i = n
          <5>1. frames[i].at = "descend" /\ c + 1 <= k
            BY <1>2, <1>3, <3>2, <4>1 DEF Fresh
          <5>2. frames[n].next \in Nat /\ frames[n].next <= c
            BY <1>1, <1>3, RowFacts
          <5> QED
            BY <1>9, <3>1, <4>1, <5>1, <5>2 DEF Fresh
        <4>2. CASE i # n
          <5>1. Fresh(i, k)
            BY <3>2, <4>2 DEF Fresh
          <5>2. k # c
            BY <1>1, <1>3, <3>1, <4>2, RowsApart
          <5> QED
            BY <5>1, <5>2
        <4> QED
          BY <4>1, <4>2
      <3>4. CASE j \in Chunks
        BY <1>1, <3>1, <3>3, <3>4 DEF Shape, Uncut
      <3>5. CASE j \notin Chunks
        <4>1. j \in N + 1..Len(tree')
          BY <1>1, <3>5
        <4> QED
          BY <1>1, <3>3, <4>1
      <3> QED
        BY <3>4, <3>5
    <2> QED
      BY <2>1, <2>2
  <1>16. Stages'
    BY <1>1, <1>2, <1>3 DEF Stages
  <1> QED
    BY <1>6, <1>10, <1>11, <1>12, <1>13, <1>14, <1>15, <1>16 DEF Shape

\* The steps of Chunk itself take nothing from a callback that runs.
LEMMA MainKeepsCalling ==
  ASSUME Typed, Shape, Main
  PROVE  Calling \subseteq Calling' /\ use' = use
  <1>1. CASE Begin
    <2>1. Calling = {}
      BY <1>1, BeginFacts DEF Calling, Chunks
    <2> QED
      BY <1>1, <2>1, BeginFacts
  <1>2. CASE Check \/ Join \/ Leave
    BY <1>2 DEF Check, Join, Leave, Calling, Chunks
  <1>3. CASE Acquire
    <2>1. use' = use
      BY <1>3 DEF Acquire
    <2> QED
      BY <1>3, <2>1, AcquireTree DEF Calling
  <1>4. CASE Descend
    <2>1. PICK n \in Levels : \E c \in Row(n) : Descended(n, c)
      BY <1>4, DescendFacts
    <2>2. Chunks \subseteq Chunks' /\ \A k \in Chunks : tree'[k].call = tree[k].call
      BY <2>1 DEF Descended
    <2>3. use' = use
      BY <1>4 DEF Descend
    <2> QED
      BY <2>2, <2>3 DEF Calling
  <1>5. CASE Raise
    <2>1. CASE Len(frames) = 1
      BY <1>5, <2>1 DEF Raise, Calling, Chunks
    <2>2. CASE Len(frames) # 1
      <3>1. Chunks' = Chunks /\ use' = use /\ \A k \in Chunks : tree'[k].call = tree[k].call
        BY <1>5, <2>2, RaiseFacts
      <3> QED
        BY <3>1 DEF Calling
    <2> QED
      BY <2>1, <2>2
  <1> QED
    BY <1>1, <1>2, <1>3, <1>4, <1>5 DEF Main

LEMMA InsideStep ==
  ASSUME Typed, Shape, Inside, [Next]_vars
  PROVE  Inside'
  <1>1. ASSUME use' = use, local' = local, Calling \subseteq Calling',
               sem' = sem \/ DOMAIN local = {}
        PROVE  Inside'
    BY <1>1 DEF Inside, ByAddFile, Structured
  <1>2. tree' = tree => Calling' = Calling
    BY DEF Calling, Chunks
  <1>3. sem # "off" => DOMAIN local = {}
    BY DEF Inside, Structured
  <1>4. CASE UNCHANGED vars
    BY <1>1, <1>2, <1>4 DEF vars, chunker, semantic, upsert
  <1>5. CASE AddFile
    <2>1. CASE Main /\ UNCHANGED <<semantic, upsert>>
      BY <1>1, <2>1, MainKeepsCalling DEF semantic, upsert
    <2>2. CASE Segmenter /\ UNCHANGED upsert
      <3>1. sem # "off" /\ use' = use /\ tree' = tree /\ local' = local
        BY <2>2 DEF Segmenter, Collected, Look, Ask, Merge, Adopt, Ascend, LevelOut, chunker,
                    upsert
      <3> QED
        BY <1>1, <1>2, <1>3, <3>1
    <2>3. CASE HandOut
      <3>1. sem # "off" /\ use' = use /\ tree' = tree /\ local' = local
        BY <2>3 DEF HandOut, Deliver, Stumble, chunker, upsert
      <3> QED
        BY <1>1, <1>2, <1>3, <3>1
    <2>4. CASE Chunked \/ Extract \/ Save \/ Embed \/ StoreAll
      <3>1. sem' = sem /\ use' = use /\ tree' = tree /\ local' = local
        BY <2>4 DEF Chunked, Extract, Save, Embed, StoreAll, Quiet, Backend, chunker, semantic
      <3> QED
        BY <1>1, <1>2, <3>1
    <2> QED
      BY <1>5, <2>1, <2>2, <2>3, <2>4 DEF AddFile
  <1>6. CASE GiveUp
    BY <1>1, <1>2, <1>6 DEF GiveUp, Cancel, semantic, upsert
  <1>7. ASSUME NEW c \in Chunks, Worker(c) PROVE Inside'
    <2>1. CASE Load(c)
      <3>1. ByAddFile /\ Structured /\ c \in Calling /\ use' = use /\ tree' = tree /\ sem' = sem
            /\ DOMAIN local' = DOMAIN local \cup {c}
        BY <2>1 DEF Load, chunker, semantic
      <3> QED
        BY <1>2, <3>1 DEF Inside, ByAddFile, Structured
    <2>2. CASE Store(c)
      <3>1. ByAddFile /\ DOMAIN local' = DOMAIN local \ {c} /\ c \in DOMAIN local /\ Succeed(c)
            /\ sem' = sem
        BY <2>2 DEF Store, semantic
      <3>2. Chunks' = Chunks /\ use' = use
            /\ \A k \in Chunks : k # c => tree'[k].call = tree[k].call
        <4>1. use' = use
          BY <3>1 DEF Succeed
        <4> QED
          BY <3>1, <4>1, SucceedTree
      <3>3. Calling \ {c} \subseteq Calling'
        BY <3>2 DEF Calling
      <3> QED
        BY <3>1, <3>2, <3>3 DEF Inside, ByAddFile, Structured
    <2>3. CASE Return(c)
      BY <2>3 DEF Return, Inside, upsert
    <2>4. CASE Collect(c) /\ UNCHANGED upsert
      <3>1. DOMAIN local = {}
        BY <1>3, <2>4 DEF Collect
      <3>2. local' = local
        BY <2>4 DEF upsert
      <3> QED
        BY <3>1, <3>2 DEF Inside
    <2>5. CASE (Answer(c) \/ Fallback(c)) /\ UNCHANGED upsert
      <3>1. sem' = sem /\ use' = use /\ tree' = tree /\ local' = local
        BY <2>5 DEF Answer, Fallback, Become, upsert
      <3> QED
        BY <1>1, <1>2, <3>1
    <2> QED
      BY <1>7, <2>1, <2>2, <2>3, <2>4, <2>5 DEF Worker
  <1> QED
    BY <1>4, <1>5, <1>6, <1>7 DEF Next

-----------------------------------------------------------------------------
(* The statuses.                                                           *)

LEMMA CheckSound ==
  ASSUME Typed, Shape, Sound, Check
  PROVE  Sound'
  <1> SUFFICES ASSUME Clean'
               PROVE  (Calls /\ Errs /\ Cuts /\ Statuses /\ Passed /\ Well /\ Ill)'
    BY DEF Sound
  <1>1. UNCHANGED <<use, tree, cancelled, outcome>>
    BY DEF Check
  <1>2. PICK f \in FrameType :
           /\ SetTop(f) /\ f.first = Top.first /\ f.last = Top.last /\ f.next = Top.next
           /\ f.err = Top.err /\ f.at = (IF cancelled THEN "raise" ELSE "acquire")
           /\ outcome = "running" /\ Top.at = "loop" /\ Top.next <= Top.last
    BY CheckTop
  <1>3. /\ frames # <<>> /\ frames' # <<>> /\ frames'[Len(frames)] = f /\ Top' = f
        /\ Levels' = Levels /\ Len(frames') = Len(frames) /\ Top = frames[Len(frames)]
        /\ \A i \in Levels : Parent(i)' = Parent(i)
        /\ \A i \in Levels : i # Len(frames) => frames'[i] = frames[i]
    BY <1>2, SetTopFacts, TopFacts
  <1>4. ~cancelled /\ ~Failing /\ ~Failing' /\ Clean
    BY <1>1, <1>2, <1>3 DEF Clean, Failing, Raising
  <1>5. Calls /\ Errs /\ Cuts /\ Statuses /\ Passed /\ Well /\ Ill
    BY <1>4 DEF Sound
  <1>6. ASSUME NEW i \in Levels
        PROVE  /\ frames'[i].first = frames[i].first /\ frames'[i].last = frames[i].last
               /\ frames'[i].next = frames[i].next /\ frames'[i].err = frames[i].err
               /\ (frames'[i].at \in {"loop", "acquire"} <=> frames[i].at \in {"loop", "acquire"})
               /\ (frames'[i].at = "descend" <=> frames[i].at = "descend")
               /\ Row(i)' = Row(i) /\ Parent(i)' = Parent(i)
    <2>1. CASE i = Len(frames)
      BY <1>2, <1>3, <1>4, <2>1 DEF Row
    <2>2. CASE i # Len(frames)
      BY <1>3, <2>2 DEF Row
    <2> QED
      BY <2>1, <2>2
  <1>7. Chunks' = Chunks /\ Failed' = Failed /\ Refused' = Refused
    BY <1>1 DEF Chunks, Failed, Refused
  <1>8. Calls'
    BY <1>1, <1>3, <1>5, <1>6 DEF Calls
  <1>9. Errs'
    BY <1>1, <1>3, <1>5, <1>6 DEF Errs
  <1>10. Cuts'
    BY <1>1, <1>3, <1>5, <1>6 DEF Cuts
  <1>11. Statuses'
    BY <1>1, <1>5, <1>7 DEF Statuses
  <1>12. Passed'
    BY <1>1, <1>3, <1>5, <1>6 DEF Passed
  <1>13. Well'
    BY <1>1, <1>3, <1>4, <1>5, <1>6, <1>7 DEF Well
  <1>14. Ill'
    BY <1>4 DEF Ill
  <1> QED
    BY <1>8, <1>9, <1>10, <1>11, <1>12, <1>13, <1>14

LEMMA BeginSound ==
  ASSUME Typed, Shape, Begin
  PROVE  Sound'
  <1> DEFINE N == Len(tree')
             f == Frame(1, N)
  <1>1. /\ outcome' = "running" /\ N \in Nat \ {0} /\ Chunks' = 1..N
        /\ \A k \in Chunks' : /\ tree'[k].call = "new"
                              /\ tree'[k].status = (IF tree'[k].leaf THEN "completed" ELSE "pending")
        /\ frames' = <<f>>
    BY BeginFacts
  <1>2. f = [first |-> 1, last |-> N, next |-> 1, at |-> "loop", err |-> FALSE]
    BY DEF Frame
  <1> HIDE DEF f
  <1>3. Levels' = {1} /\ frames'[1] = f /\ Len(frames') = 1 /\ Row(1)' = 1..N
    BY <1>1, <1>2 DEF Levels, Row
  <1>4. Top' = f
    BY <1>3 DEF Top
  <1>5. ~Failing'
    BY <1>1, <1>2, <1>4 DEF Failing, Raising
  <1>6. Calls'
    <2> SUFFICES ASSUME NEW c \in 1..N
                 PROVE  /\ tree'[c].call = "new" <=> frames'[1].next <= c
                        /\ frames'[1].at # "descend"
      BY <1>3 DEF Calls
    <2> QED
      BY <1>1, <1>2, <1>3
  <1>7. Errs'
    <2>1. frames'[1].err = FALSE /\ \A c \in Row(1)' : tree'[c].call # "refused"
      BY <1>1, <1>2, <1>3
    <2> QED
      BY <1>3, <2>1 DEF Errs
  <1>8. Cuts'
    BY <1>2, <1>3 DEF Cuts
  <1>9. Statuses'
    BY <1>1 DEF Statuses
  <1>10. Passed'
    BY <1>3 DEF Passed
  <1>11. Well'
    <2>1. Failed' = {} /\ Refused' = {}
      BY <1>1 DEF Failed, Refused
    <2>2. \A c \in Chunks' : c \in Row(1)'
      BY <1>1, <1>3
    <2> QED
      BY <1>3, <2>1, <2>2 DEF Well
  <1>12. Ill'
    BY <1>5 DEF Ill
  <1> QED
    BY <1>6, <1>7, <1>8, <1>9, <1>10, <1>11, <1>12 DEF Sound

LEMMA AcquireSound ==
  ASSUME Typed, Shape, Sound, Acquire
  PROVE  Sound'
  <1>1. UNCHANGED <<use, cancelled, outcome>>
    BY DEF Acquire
  <1>2. PICK f \in FrameType :
           /\ SetTop(f) /\ f.first = Top.first /\ f.last = Top.last /\ f.next = Top.next + 1
           /\ f.err = Top.err /\ f.at = "loop"
           /\ outcome = "running" /\ Top.at = "acquire" /\ Top.next <= Top.last
    BY AcquireTop
  <1>3. /\ frames'[Len(frames)] = f /\ Top' = f /\ Len(frames) \in Levels
        /\ Levels' = Levels /\ Len(frames') = Len(frames) /\ Top = frames[Len(frames)]
        /\ \A i \in Levels : Parent(i)' = Parent(i)
        /\ \A i \in Levels : i # Len(frames) => frames'[i] = frames[i]
    BY <1>2, SetTopFacts, TopFacts
  <1>4. ~Failing /\ ~Failing' /\ Clean
    BY <1>1, <1>2, <1>3 DEF Clean, Failing, Raising
  <1>5. Calls /\ Errs /\ Cuts /\ Statuses /\ Passed /\ Well
    BY <1>4 DEF Sound
  <1>6. PICK x : x = Top.next
    OBVIOUS
  <1>7. /\ x \in Row(Len(frames)) /\ x \in Chunks /\ Chunks' = Chunks /\ x \in Nat
        /\ \A k \in Chunks :
              /\ tree'[k].leaf = tree[k].leaf /\ tree'[k].parent = tree[k].parent
              /\ tree'[k].status = tree[k].status
              /\ tree'[k].call = (IF k = x THEN "calling" ELSE tree[k].call)
    BY <1>6, AcquireTree, ChunkFields DEF Typed
  <1>8. tree[x].call = "new"
    <2>1. frames[Len(frames)].next <= x
      BY <1>3, <1>6, <1>7
    <2> QED
      BY <1>2, <1>3, <1>5, <1>7, <2>1 DEF Calls
  <1>9. ASSUME NEW i \in Levels
        PROVE  /\ Row(i)' = Row(i) /\ Row(i) \subseteq Chunks /\ Row(i) \subseteq Nat
               /\ frames'[i].err = frames[i].err
               /\ (frames'[i].at \in {"loop", "acquire"} <=> frames[i].at \in {"loop", "acquire"})
               /\ (frames'[i].at = "descend" <=> frames[i].at = "descend")
               /\ frames'[i].next = (IF i = Len(frames) THEN x + 1 ELSE frames[i].next)
               /\ (i = Len(frames) => frames[i].next = x /\ frames[i].at = "acquire")
               /\ (i # Len(frames) => x \notin Row(i))
    <2>1. Row(i) \subseteq Chunks /\ Row(i) \subseteq Nat
      BY RowFacts
    <2>2. CASE i = Len(frames)
      BY <1>2, <1>3, <1>6, <2>1, <2>2 DEF Row
    <2>3. CASE i # Len(frames)
      <3>1. x \notin Row(i)
        BY <1>3, <1>7, <2>3, RowsApart
      <3> QED
        BY <1>3, <2>1, <2>3, <3>1 DEF Row
    <2> QED
      BY <2>2, <2>3
  <1>10. Calls'
    <2> SUFFICES ASSUME NEW i \in Levels, NEW c \in Row(i)
                 PROVE  /\ frames'[i].at \in {"loop", "acquire"} =>
                             (tree'[c].call = "new" <=> frames'[i].next <= c)
                        /\ frames'[i].at = "descend" => tree'[c].call = "done"
      BY <1>3, <1>9 DEF Calls
    <2>1. /\ frames[i].at \in {"loop", "acquire"} => (tree[c].call = "new" <=> frames[i].next <= c)
          /\ frames[i].at = "descend" => tree[c].call = "done"
      BY <1>5 DEF Calls
    <2>2. c \in Chunks /\ c \in Nat
      BY <1>9
    <2>3. CASE i = Len(frames)
      BY <1>7, <1>9, <2>1, <2>2, <2>3
    <2>4. CASE i # Len(frames)
      <3>1. tree'[c].call = tree[c].call
        BY <1>7, <1>9, <2>2, <2>4
      <3> QED
        BY <1>9, <2>1, <2>4, <3>1
    <2> QED
      BY <2>3, <2>4
  <1>11. Errs'
    <2>1. \A c \in Chunks : tree'[c].call = "refused" <=> tree[c].call = "refused"
      BY <1>7, <1>8
    <2> QED
      BY <1>3, <1>5, <1>9, <2>1 DEF Errs
  <1>12. Cuts'
    <2>1. \A i \in Levels : frames'[i].at = "descend" => frames'[i].next = frames[i].next
      BY <1>9
    <2> QED
      BY <1>3, <1>5, <1>7, <1>9, <2>1 DEF Cuts
  <1>13. Statuses'
    BY <1>5, <1>7, <1>8 DEF Statuses
  <1>14. Passed'
    <2> SUFFICES ASSUME NEW i \in Levels \ {1},
                        \A c \in Row(i) : tree'[c].status = "completed",
                        NEW d \in Row(i), tree'[d].call = "done"
                 PROVE  tree'[Parent(i)].status = "completed"
      BY <1>3, <1>9 DEF Passed
    <2>1. \A c \in Row(i) : tree[c].status = "completed"
      BY <1>7, <1>9
    <2>2. tree[d].call = "done"
      BY <1>7, <1>9
    <2>3. tree[Parent(i)].status = "completed"
      BY <1>5, <2>1, <2>2 DEF Passed
    <2> QED
      BY <1>7, <2>3, ParentFacts
  <1>15. Well'
    <2>1. Failed' = Failed /\ Refused' = Refused
      BY <1>7, <1>8 DEF Failed, Refused
    <2>2. \A c \in Chunks : \/ \E i \in Levels : c \in Row(i)'
                            \/ tree'[c].call = "done" /\ tree'[c].status = "completed"
      BY <1>3, <1>4, <1>5, <1>7, <1>9 DEF Well
    <2> QED
      BY <1>3, <1>4, <1>5, <1>7, <2>1, <2>2 DEF Well
  <1>16. Ill'
    BY <1>4 DEF Ill
  <1> QED
    BY <1>10, <1>11, <1>12, <1>13, <1>14, <1>15, <1>16 DEF Sound

\* The level in progress is over: a callback of it has failed, or all chunks are
\* handed out.
LEMMA JoinSound ==
  ASSUME Typed, Shape, Sound, Join
  PROVE  Sound'
  <1> SUFFICES ASSUME Clean'
               PROVE  (Calls /\ Errs /\ Cuts /\ Statuses /\ Passed /\ Well /\ Ill)'
    BY DEF Sound
  <1>1. UNCHANGED <<use, tree, cancelled, outcome>> /\ Running = {}
    BY DEF Join
  <1>2. PICK f \in FrameType :
           /\ SetTop(f) /\ f.first = Top.first /\ f.last = Top.last /\ f.next = Top.first
           /\ f.err = Top.err /\ f.at = (IF Top.err THEN "raise" ELSE "descend")
           /\ outcome = "running" /\ Top.at = "loop" /\ Top.next > Top.last
    BY JoinTop
  <1>3. PICK n : n = Len(frames)
    OBVIOUS
  <1>4. /\ frames'[n] = f /\ Top' = f /\ n \in Levels /\ Len(frames') = n
        /\ Levels' = Levels /\ Len(frames') = Len(frames) /\ Top = frames[n]
        /\ \A i \in Levels : Parent(i)' = Parent(i)
        /\ \A i \in Levels : i # n => frames'[i] = frames[i]
        /\ Top.first..Top.last = Row(n)
        /\ Top.first \in Nat /\ Top.last \in Nat /\ Top.next \in Nat /\ n \in Nat
        /\ \A i \in Levels : i \in Nat /\ 1 <= i /\ i <= n
    BY <1>2, <1>3, SetTopFacts, TopFacts
  <1>5. ~Failing /\ Clean /\ (Failing' <=> Top.err)
    BY <1>1, <1>2, <1>4 DEF Clean, Failing, Raising
  <1>6. Calls /\ Errs /\ Cuts /\ Statuses /\ Passed /\ Well
    BY <1>5 DEF Sound
  <1>7. Chunks' = Chunks /\ Failed' = Failed /\ Refused' = Refused /\ Calling' = Calling
    BY <1>1 DEF Chunks, Failed, Refused, Calling
  <1>8. \A i \in Levels : Row(i)' = Row(i) /\ Row(i) \subseteq Chunks /\ Row(i) \subseteq Nat
    <2> SUFFICES ASSUME NEW i \in Levels PROVE Row(i)' = Row(i)
      BY RowFacts
    <2>1. CASE i = n
      BY <1>2, <1>4, <2>1 DEF Row
    <2>2. CASE i # n
      BY <1>4, <2>2 DEF Row
    <2> QED
      BY <2>1, <2>2
  <1>9. \A i \in Levels : i # n => frames[i].at = "descend"
    BY <1>3, <1>4 DEF Shape, Inner
  <1>10. ASSUME NEW c \in Row(n) PROVE tree[c].call \in {"done", "refused"}
    <2>1. c \in Chunks /\ c \in Nat /\ c <= Top.last /\ Top.first <= c
      BY <1>4, <1>8
    <2>2. tree[c].call # "new"
      <3>1. ~(Top.next <= c)
        <4>1. Top.next > Top.last /\ Top.next \in Nat /\ Top.last \in Nat
          BY <1>2, <1>4
        <4> QED
          BY <2>1, <4>1
      <3>2. frames[n].at \in {"loop", "acquire"} /\ ~(frames[n].next <= c)
        BY <1>2, <1>4, <3>1
      <3> QED
        BY <1>4, <1>6, <3>2 DEF Calls
    <2>3. tree[c].call # "calling"
      BY <1>1, <1>4 DEF Running
    <2>4. tree[c].call \in CallSet
      BY <2>1, ChunkFields DEF Typed, ChunkType
    <2> QED
      BY <2>2, <2>3, <2>4 DEF CallSet
  <1>11. Top.err <=> \E c \in Row(n) : tree[c].call = "refused"
    BY <1>2, <1>4, <1>6 DEF Errs
  <1>12. frames'[n].at \notin {"loop", "acquire"} /\ (frames'[n].at = "descend" <=> ~Top.err)
         /\ frames'[n].next = frames[n].first
    BY <1>2, <1>4
  <1>13. Calls'
    <2> SUFFICES ASSUME NEW i \in Levels, NEW c \in Row(i)
                 PROVE  /\ frames'[i].at \in {"loop", "acquire"} =>
                             (tree[c].call = "new" <=> frames'[i].next <= c)
                        /\ frames'[i].at = "descend" => tree[c].call = "done"
      BY <1>1, <1>4, <1>8 DEF Calls
    <2>1. CASE i = n
      BY <1>10, <1>11, <1>12, <2>1
    <2>2. CASE i # n
      BY <1>4, <1>6, <2>2 DEF Calls
    <2> QED
      BY <2>1, <2>2
  <1>14. Errs'
    BY <1>4, <1>9, <1>12 DEF Errs
  <1>15. Cuts'
    <2> SUFFICES ASSUME NEW i \in Levels, NEW c \in Row(i), frames'[i].at = "descend",
                        c < frames'[i].next, i = n \/ c # frames'[i].next - 1
                 PROVE  tree[c].status = "completed"
      BY <1>1, <1>4, <1>8 DEF Cuts
    <2>1. i # n
      <3> SUFFICES ASSUME i = n PROVE FALSE
        OBVIOUS
      <3>1. c \in Top.first..Top.last /\ c < Top.first
        BY <1>4, <1>12
      <3> QED
        BY <1>4, <3>1
    <2> QED
      BY <1>3, <1>4, <1>6, <2>1 DEF Cuts
  <1>16. Statuses'
    BY <1>1, <1>6, <1>7 DEF Statuses
  <1>17. Passed'
    BY <1>1, <1>4, <1>6, <1>8 DEF Passed
  <1>18. Well'
    BY <1>1, <1>4, <1>5, <1>6, <1>7, <1>8 DEF Well
  <1>19. Ill'
    <2> SUFFICES ASSUME Top.err
                 PROVE  /\ Calling = {}
                        /\ Refused \subseteq Blamed
                        /\ \A c \in Blamed : tree[c].parent \in Blamed \cup {0}
                        /\ \A c \in Blamed \ Refused : \E k \in Blamed : tree[k].parent = c
      <3>1. Blamed' = Blamed
        BY <1>4, <1>7 DEF Blamed
      <3> QED
        BY <1>1, <1>5, <1>7, <3>1 DEF Ill
    <2>1. Failed = Refused
      BY <1>5, <1>6 DEF Well
    <2>2. \A c \in Chunks : tree[c].call = "done" \/ c \in Row(n)
      <3> SUFFICES ASSUME NEW c \in Chunks, c \notin Row(n), tree[c].call # "done" PROVE FALSE
        OBVIOUS
      <3>1. PICK i \in Levels : c \in Row(i)
        BY <1>5, <1>6 DEF Well
      <3>2. frames[i].at = "descend"
        BY <1>9, <3>1
      <3> QED
        BY <1>6, <3>1, <3>2 DEF Calls
    <2>3. Calling = {}
      BY <1>10, <2>2 DEF Calling
    <2>4. Refused \subseteq Row(n)
      BY <2>2 DEF Refused
    <2>5. n = 1 \/ Parent(n) \in Blamed
      BY <1>4 DEF Blamed
    <2>6. Parent(1) = 0
      BY DEF Parent
    <2>7. ASSUME NEW c \in Blamed PROVE tree[c].parent \in Blamed \cup {0}
      <3>1. CASE c \in Refused
        <4>1. tree[c].parent = Parent(n)
          BY <1>4, <2>4, <3>1, RowFacts
        <4> QED
          BY <2>5, <2>6, <4>1
      <3>2. CASE c \notin Refused
        <4>1. PICK i \in Levels \ {1} : c = Parent(i)
          BY <2>1, <3>2 DEF Blamed
        <4>2. i - 1 \in Levels /\ tree[c].parent = Parent(i - 1)
          BY <4>1, ParentFacts
        <4> QED
          BY <2>6, <4>2 DEF Blamed
      <3> QED
        BY <3>1, <3>2
    <2>8. ASSUME NEW c \in Blamed \ Refused PROVE \E k \in Blamed : tree[k].parent = c
      <3>1. PICK i \in Levels \ {1} : c = Parent(i)
        BY <2>1 DEF Blamed
      <3>2. CASE i = n
        <4>1. PICK k \in Row(n) : tree[k].call = "refused"
          BY <1>11
        <4>2. k \in Blamed
          BY <1>4, <1>8, <2>1, <4>1 DEF Blamed, Refused
        <4>3. tree[k].parent = Parent(n)
          BY <1>4, RowFacts
        <4> QED
          BY <3>1, <3>2, <4>2, <4>3
      <3>3. CASE i # n
        <4> DEFINE j == i + 1
        <4>1. j \in Levels /\ j # 1 /\ j - 1 = i
          <5>1. i \in 1..n /\ n \in Nat /\ Levels = 1..n
            BY <1>3, <1>4, <3>1 DEF Levels, Typed
          <5> QED
            BY <3>3, <5>1
        <4> HIDE DEF j
        <4>2. tree[Parent(j)].parent = Parent(i)
          BY <4>1, ParentFacts
        <4>3. Parent(j) \in Blamed
          BY <4>1 DEF Blamed
        <4> QED
          BY <3>1, <4>2, <4>3
      <3> QED
        BY <3>2, <3>3
    <2> QED
      BY <2>1, <2>3, <2>7, <2>8 DEF Blamed
  <1> QED
    BY <1>13, <1>14, <1>15, <1>16, <1>17, <1>18, <1>19

\* The level in progress is done, and so is the chunk it was cut from.
LEMMA LeaveSound ==
  ASSUME Typed, Shape, Sound, Leave
  PROVE  Sound'
  <1> SUFFICES ASSUME Clean'
               PROVE  (Calls /\ Errs /\ Cuts /\ Statuses /\ Passed /\ Well /\ Ill)'
    BY DEF Sound
  <1>1. PICK n : n = Len(frames)
    OBVIOUS
  <1>2. /\ UNCHANGED <<use, tree, cancelled>> /\ outcome = "running"
        /\ outcome' = (IF n = 1 THEN "ok" ELSE "running")
        /\ Len(frames') = n - 1
        /\ Levels' = 1..n - 1 /\ Levels' \subseteq Levels
        /\ \A i \in Levels' : /\ frames'[i] = frames[i] /\ Row(i)' = Row(i)
                              /\ Parent(i)' = Parent(i) /\ i # n
    BY <1>1, LeaveFacts
  <1>3. Top.at = "descend" /\ Large = {}
    BY DEF Leave, At
  <1>4. /\ n \in Levels /\ n \in Nat \ {0} /\ Top = frames[n] /\ Top.first..Top.last = Row(n)
        /\ Top.next \in Nat /\ Top.last \in Nat /\ Top.first \in Nat
        /\ \A i \in Levels : i \in 1..n
    <2>1. /\ n \in Levels /\ n \in Nat /\ Top = frames[n] /\ Top.first..Top.last = Row(n)
          /\ Top.next \in Nat /\ Top.last \in Nat /\ Top.first \in Nat
          /\ \A i \in Levels : i \in Nat /\ 1 <= i /\ i <= n
      BY <1>1, <1>2, TopFacts
    <2> QED
      BY <2>1
  <1>5. \A i \in Levels' : frames[i].at = "descend"
    <2> SUFFICES ASSUME NEW i \in Levels' PROVE frames[i].at = "descend"
      OBVIOUS
    <2>1. i \in Levels /\ i < n
      BY <1>2, <1>4
    <2> QED
      BY <1>1, <2>1 DEF Shape, Inner
  <1>6. ~Failing /\ Clean
    BY <1>2, <1>3 DEF Clean, Failing, Raising
  <1>7. ~Failing'
    <2>1. CASE n = 1
      BY <1>2, <2>1 DEF Failing, Raising
    <2>2. CASE n # 1
      <3>1. n - 1 \in Levels'
        BY <1>2, <1>4, <2>2
      <3>2. Top' = frames[n - 1]
        BY <1>2, <3>1 DEF Top
      <3> QED
        BY <1>2, <1>5, <2>2, <3>1, <3>2 DEF Failing, Raising
    <2> QED
      BY <2>1, <2>2
  <1>8. Calls /\ Errs /\ Cuts /\ Statuses /\ Passed /\ Well
    BY <1>6 DEF Sound
  <1>9. ASSUME NEW c \in Row(n)
        PROVE  tree[c].call = "done" /\ tree[c].status = "completed" /\ c \in Chunks
    <2>1. c \in Chunks /\ c \in Nat /\ c \in Top.first..Top.last
      BY <1>4, RowFacts
    <2>2. tree[c].call = "done"
      BY <1>3, <1>4, <1>8 DEF Calls
    <2>3. CASE c < Top.next
      <3>1. frames[n].at = "descend" /\ c < frames[n].next
        BY <1>3, <1>4, <2>3
      <3>2. tree[c].status = "completed"
        BY <1>1, <1>4, <1>8, <3>1 DEF Cuts
      <3> QED
        BY <2>1, <2>2, <3>2
    <2>4. CASE ~(c < Top.next)
      <3>1. c \in Top.next..Top.last
        BY <1>4, <2>1, <2>4
      <3>2. tree[c].leaf
        BY <1>3, <3>1 DEF Large
      <3> QED
        BY <1>8, <2>1, <2>2, <3>2 DEF Statuses
    <2> QED
      BY <2>1, <2>2, <2>3, <2>4
  <1>10. Chunks' = Chunks /\ Failed' = Failed /\ Refused' = Refused
    BY <1>2 DEF Chunks, Failed, Refused
  <1>11. Calls'
    BY <1>2, <1>8 DEF Calls
  <1>12. Errs'
    BY <1>2, <1>8 DEF Errs
  <1>13. Cuts'
    <2> SUFFICES ASSUME NEW i \in Levels', NEW c \in Row(i), c < frames[i].next,
                        i = n - 1 \/ c # frames[i].next - 1
                 PROVE  tree[c].status = "completed"
      BY <1>2 DEF Cuts
    <2>1. i \in Levels /\ i # n /\ frames[i].at = "descend"
      BY <1>2, <1>5
    <2>2. CASE c # frames[i].next - 1
      BY <1>8, <2>1, <2>2 DEF Cuts
    <2>3. CASE c = frames[i].next - 1
      <3>1. n \in Levels \ {1} /\ n - 1 = i
        BY <1>2, <1>4, <2>3
      <3>2. Parent(n) = c /\ frames[n].first \in Row(n)
        BY <2>3, <3>1, ParentFacts, RowFacts
      <3>3. tree[Parent(n)].status = "completed"
        BY <1>8, <1>9, <3>1, <3>2 DEF Passed
      <3> QED
        BY <3>2, <3>3
    <2> QED
      BY <2>2, <2>3
  <1>14. Statuses'
    BY <1>2, <1>8, <1>10 DEF Statuses
  <1>15. Passed'
    BY <1>2, <1>8 DEF Passed
  <1>16. Well'
    <2>1. \A c \in Chunks : \/ \E i \in Levels' : c \in Row(i)'
                            \/ tree[c].call = "done" /\ tree[c].status = "completed"
      <3> SUFFICES ASSUME NEW c \in Chunks,
                          ~(tree[c].call = "done" /\ tree[c].status = "completed")
                   PROVE  \E i \in Levels' : c \in Row(i)'
        OBVIOUS
      <3>1. PICK i \in Levels : c \in Row(i)
        BY <1>6, <1>8 DEF Well
      <3>2. i # n
        BY <1>9, <3>1
      <3>3. i \in Levels'
        BY <1>2, <1>4, <3>2
      <3> QED
        BY <1>2, <3>1, <3>3
    <2> QED
      BY <1>2, <1>6, <1>8, <1>10, <2>1 DEF Well
  <1>17. Ill'
    BY <1>7 DEF Ill
  <1> QED
    BY <1>11, <1>12, <1>13, <1>14, <1>15, <1>16, <1>17

\* An error goes up: what was to blame still is.
LEMMA RaiseSound ==
  ASSUME Typed, Shape, Sound, Raise
  PROVE  Sound'
  <1> SUFFICES ASSUME Clean'
               PROVE  (Calls /\ Errs /\ Cuts /\ Statuses /\ Passed /\ Well /\ Ill)'
    BY DEF Sound
  <1>1. outcome = "running" /\ Top.at = "raise" /\ cancelled' = cancelled
    BY DEF Raise, At
  <1>2. Failing
    BY <1>1 DEF Failing, Raising
  <1>3. CASE Len(frames) = 1
    <2>1. frames' = <<>> /\ outcome' = "error" /\ tree' = tree
      BY <1>3 DEF Raise
    <2>2. Failing' /\ Levels' = {} /\ Chunks' = Chunks /\ Failed' = Failed /\ Refused' = Refused
          /\ Calling' = Calling
      BY <2>1 DEF Failing, Levels, Chunks, Failed, Refused, Calling
    <2>3. Statuses /\ Ill
      BY <1>1, <1>2, <2>2 DEF Clean, Sound
    <2>4. Calls' /\ Errs' /\ Cuts' /\ Passed'
      BY <2>2 DEF Calls, Errs, Cuts, Passed
    <2>5. Statuses'
      BY <2>1, <2>2, <2>3 DEF Statuses
    <2>6. Well'
      BY <2>2 DEF Well
    <2>7. Levels \ {1} = {}
      BY <1>1, <1>3, TopFacts
    <2>8. Blamed' = Blamed
      BY <2>2, <2>7 DEF Blamed
    <2>9. Ill'
      BY <1>2, <2>1, <2>2, <2>3, <2>8 DEF Ill
    <2> QED
      BY <2>4, <2>5, <2>6, <2>9
  <1>4. CASE Len(frames) # 1
    <2>1. PICK n : n = Len(frames)
      OBVIOUS
    <2>2. PICK p : p = Parent(n)
      OBVIOUS
    <2>3. /\ outcome' = outcome /\ n \in Levels \ {1} /\ Len(frames') = n - 1 /\ frames' # <<>>
          /\ Levels' = 1..n - 1 /\ Levels' \subseteq Levels
          /\ \A i \in Levels' :
              /\ frames'[i].next = frames[i].next /\ frames'[i].err = frames[i].err
              /\ frames'[i].at = (IF i = n - 1 THEN "raise" ELSE frames[i].at)
              /\ Row(i)' = Row(i) /\ Parent(i)' = Parent(i)
          /\ Chunks' = Chunks
          /\ \A k \in Chunks :
              /\ tree'[k].parent = tree[k].parent /\ tree'[k].leaf = tree[k].leaf
              /\ tree'[k].call = tree[k].call
              /\ tree'[k].status = (IF k = p THEN "failed" ELSE tree[k].status)
      BY <1>4, <2>1, <2>2, RaiseFacts
    <2>4. /\ n - 1 \in Levels /\ p \in Row(n - 1) /\ p \in Chunks /\ ~tree[p].leaf
          /\ frames[n - 1].at = "descend" /\ n \in Nat /\ n \in 1..n /\ Levels = 1..n
      BY <2>1, <2>2, <2>3, ParentFacts, RowFacts DEF Levels, Typed
    <2>5. Failing'
      <3>1. n - 1 \in Levels'
        BY <2>3, <2>4
      <3>2. Top' = frames'[n - 1]
        BY <2>3 DEF Top
      <3>3. Top'.at = "raise"
        BY <2>3, <3>1, <3>2
      <3> QED
        BY <1>1, <2>3, <3>3 DEF Failing, Raising
    <2>6. Calls /\ Cuts /\ Statuses /\ Passed /\ Ill
      BY <1>1, <2>5 DEF Clean, Sound
    <2>7. \A i \in Levels' : i \in Levels /\ i \in Nat /\ i # n /\ frames[i].at = "descend"
            /\ Row(i) \subseteq Chunks /\ Row(i) \subseteq Nat
      <3> SUFFICES ASSUME NEW i \in Levels' PROVE i # n /\ i \in Nat /\ frames[i].at = "descend"
        BY <2>3, RowFacts
      <3>1. i \in Levels /\ i < n /\ i \in Nat
        BY <2>3, <2>4
      <3> QED
        BY <2>1, <2>4, <3>1 DEF Shape, Inner
    <2>8. tree[p].call = "done"
      BY <2>4, <2>6 DEF Calls
    <2>9. Calls'
      BY <2>3, <2>6, <2>7 DEF Calls
    <2>10. Errs'
      BY <2>3, <2>7 DEF Errs
    <2>11. Cuts'
      <3> SUFFICES ASSUME NEW i \in Levels', NEW c \in Row(i), frames'[i].at = "descend",
                          c < frames[i].next, i = n - 1 \/ c # frames[i].next - 1
                   PROVE  tree'[c].status = "completed"
        BY <2>3 DEF Cuts
      <3>1. i # n - 1 /\ c \in Chunks /\ frames[i].at = "descend" /\ i \in Levels
        BY <2>3, <2>7
      <3>2. c # p
        BY <2>4, <3>1, RowsApart
      <3>3. tree[c].status = "completed"
        BY <2>6, <3>1 DEF Cuts
      <3> QED
        BY <2>3, <3>1, <3>2, <3>3
    <2>12. Statuses'
      BY <2>3, <2>4, <2>6, <2>8 DEF Statuses
    <2>13. Passed'
      <3> SUFFICES ASSUME NEW i \in Levels' \ {1},
                          \A c \in Row(i) : tree'[c].status = "completed",
                          NEW d \in Row(i), tree'[d].call = "done"
                   PROVE  tree'[Parent(i)].status = "completed"
        BY <2>3 DEF Passed
      <3>1. i \in Levels \ {1} /\ d \in Chunks
        BY <2>7
      <3>2. i # n - 1
        BY <2>3, <2>4
      <3>3. \A c \in Row(i) : tree[c].status = "completed"
        <4> SUFFICES ASSUME NEW c \in Row(i) PROVE tree[c].status = "completed"
          OBVIOUS
        <4>1. c # p
          BY <2>4, <3>1, <3>2, RowsApart
        <4>2. c \in Chunks
          BY <2>7
        <4> QED
          BY <2>3, <4>1, <4>2
      <3>4. tree[Parent(i)].status = "completed"
        BY <2>3, <2>6, <3>1, <3>3 DEF Passed
      <3>5. Parent(i) \in Chunks /\ Parent(i) \in Row(i - 1) /\ i - 1 \in Levels
        BY <3>1, ParentFacts
      <3>6. Parent(i) # p
        <4> SUFFICES ASSUME Parent(i) = p PROVE FALSE
          OBVIOUS
        <4>1. i - 1 = n - 1
          BY <2>4, <3>5, RowsApart
        <4>2. i \in Nat /\ i # n
          BY <2>7
        <4> QED
          BY <2>4, <4>1, <4>2
      <3> QED
        BY <2>3, <3>4, <3>5, <3>6
    <2>14. Well'
      BY <2>5 DEF Well
    <2>15. Refused' = Refused /\ Calling' = Calling /\ Failed' = Failed \cup {p}
      BY <2>3, <2>4 DEF Refused, Calling, Failed
    <2>16. Blamed' = Blamed
      <3>1. {Parent(i) : i \in Levels \ {1}} = {Parent(i)' : i \in Levels' \ {1}} \cup {p}
        <4>1. Levels \ {1} = (Levels' \ {1}) \cup {n}
          BY <2>3, <2>4
        <4>2. \A i \in Levels' : Parent(i)' = Parent(i)
          BY <2>3
        <4> QED
          BY <2>2, <4>1, <4>2
      <3> QED
        BY <2>15, <3>1 DEF Blamed
    <2>17. Ill'
      <3>1. /\ Calling = {} /\ Refused \subseteq Blamed
            /\ \A c \in Blamed : tree[c].parent \in Blamed \cup {0}
            /\ \A c \in Blamed \ Refused : \E k \in Blamed : tree[k].parent = c
        BY <1>2, <2>6 DEF Ill
      <3>2. Blamed \subseteq Chunks
        BY ParentFacts DEF Blamed, Failed
      <3>3. \A c \in Blamed : tree'[c].parent = tree[c].parent
        BY <2>3, <3>2
      <3> QED
        BY <2>15, <2>16, <3>1, <3>3 DEF Ill
    <2> QED
      BY <2>9, <2>10, <2>11, <2>12, <2>13, <2>14, <2>17
  <1> QED
    BY <1>3, <1>4

LEMMA DescendSound ==
  ASSUME Typed, Shape, Sound, Descend
  PROVE  Sound'
  <1>1. outcome = "running" /\ Top.at = "descend" /\ outcome' = "running"
    BY DescendChunk
  <1>2. PICK n \in Levels : \E c \in Row(n) : Descended(n, c)
    BY DescendFacts
  <1>3. PICK c \in Row(n) : Descended(n, c)
    BY <1>2
  <1>4. PICK N : N = Len(tree)
    OBVIOUS
  <1>5. /\ n = Len(frames) /\ c \in Chunks /\ Top.next <= c /\ ~tree[c].leaf
        /\ \A k \in Row(n) : Top.next <= k /\ k < c => tree[k].leaf
        /\ N < Len(tree') /\ Len(tree') \in Nat
        /\ Chunks' = Chunks \cup (N + 1..Len(tree')) /\ Chunks \subseteq Chunks'
        /\ \A k \in Chunks :
             /\ tree'[k].parent = tree[k].parent /\ tree'[k].leaf = tree[k].leaf
             /\ tree'[k].call = tree[k].call
             /\ tree'[k].status = (IF k = c THEN "processing" ELSE tree[k].status)
        /\ \A k \in N + 1..Len(tree') :
             /\ tree'[k].parent = c /\ tree'[k].call = "new"
             /\ tree'[k].status = (IF tree'[k].leaf THEN "completed" ELSE "pending")
        /\ Len(frames') = n + 1 /\ Levels' = Levels \cup {n + 1}
        /\ \A i \in Levels :
             /\ frames'[i].first = frames[i].first /\ frames'[i].last = frames[i].last
             /\ frames'[i].at = frames[i].at /\ frames'[i].err = frames[i].err
             /\ frames'[i].next = (IF i = n THEN c + 1 ELSE frames[i].next)
             /\ Parent(i)' = Parent(i)
        /\ frames'[n + 1] = Frame(N + 1, Len(tree'))
        /\ Parent(n + 1)' = c
    BY <1>3, <1>4 DEF Descended
  <1>6. /\ n \in Nat /\ Top = frames[n] /\ N \in Nat /\ Chunks = 1..N /\ Top.next \in Nat
        /\ \A i \in Levels : i \in Nat /\ i <= n /\ i # n + 1
        /\ c \in Nat
    <2>1. n \in Nat /\ Top = frames[n] /\ Top.next \in Nat /\ \A i \in Levels : i \in Nat /\ i <= n
      BY <1>1, <1>5, TopFacts
    <2>2. N \in Nat /\ Chunks = 1..N
      BY <1>4 DEF Typed, Chunks
    <2> QED
      BY <1>5, <2>1, <2>2
  <1>7. /\ frames'[n + 1].first = N + 1 /\ frames'[n + 1].last = Len(tree')
        /\ frames'[n + 1].next = N + 1 /\ frames'[n + 1].at = "loop" /\ ~frames'[n + 1].err
    BY <1>5 DEF Frame
  <1>8. ~Failing /\ Clean
    BY <1>1 DEF Clean, Failing, Raising
  <1>9. ~Failing'
    <2>1. Top' = frames'[n + 1]
      BY <1>5 DEF Top
    <2> QED
      BY <1>1, <1>7, <2>1 DEF Failing, Raising
  <1>10. Calls /\ Errs /\ Cuts /\ Statuses /\ Passed /\ Well
    BY <1>8 DEF Sound
  <1>11. PICK R : R = N + 1..Len(tree')
    OBVIOUS
  <1>12. \A i \in Levels : Row(i)' = Row(i) /\ Row(i) \subseteq Chunks /\ Row(i) \subseteq Nat
    BY <1>5, RowFacts DEF Row
  <1>13. PICK m : m = n + 1
    OBVIOUS
  <1>14. /\ Row(m)' = R /\ Levels' = Levels \cup {m} /\ m \notin Levels /\ Len(frames') = m
         /\ frames'[m].next = N + 1 /\ frames'[m].at = "loop" /\ ~frames'[m].err
         /\ \A k \in R : k \notin Chunks /\ k \in Chunks' /\ k \in Nat /\ N + 1 <= k
         /\ \A k \in Chunks' : k \in Chunks \/ k \in R
    <2>1. Row(m)' = R
      BY <1>7, <1>11, <1>13 DEF Row
    <2> QED
      BY <1>5, <1>6, <1>7, <1>11, <1>13, <2>1
  <1>15. \A k \in R : /\ tree'[k].parent = c /\ tree'[k].call = "new"
                      /\ tree'[k].status = (IF tree'[k].leaf THEN "completed" ELSE "pending")
    BY <1>5, <1>11
  <1>16. tree[c].call = "done"
    BY <1>1, <1>6, <1>10 DEF Calls
  <1>17. Calls'
    <2> SUFFICES ASSUME NEW i \in Levels', NEW k \in Row(i)'
                 PROVE  /\ frames'[i].at \in {"loop", "acquire"} =>
                             (tree'[k].call = "new" <=> frames'[i].next <= k)
                        /\ frames'[i].at = "descend" => tree'[k].call = "done"
      BY DEF Calls
    <2>1. CASE i = m
      BY <1>14, <1>15, <2>1
    <2>2. CASE i # m
      <3>1. i \in Levels /\ k \in Row(i) /\ k \in Chunks
        BY <1>12, <1>14, <2>2
      <3>2. i = n => frames[i].at = "descend"
        BY <1>1, <1>6
      <3> QED
        BY <1>5, <1>10, <3>1, <3>2 DEF Calls
    <2> QED
      BY <2>1, <2>2
  <1>18. Errs'
    <2> SUFFICES ASSUME NEW i \in Levels', frames'[i].at \in {"loop", "acquire"}
                 PROVE  frames'[i].err <=> \E k \in Row(i)' : tree'[k].call = "refused"
      BY DEF Errs
    <2>1. CASE i = m
      BY <1>14, <1>15, <2>1
    <2>2. CASE i # m
      <3>1. i \in Levels
        BY <1>14, <2>2
      <3>2. frames[i].at \in {"loop", "acquire"} /\ frames'[i].err = frames[i].err
        BY <1>5, <3>1
      <3>3. frames[i].err <=> \E k \in Row(i) : tree[k].call = "refused"
        BY <1>10, <3>1, <3>2 DEF Errs
      <3>4. Row(i)' = Row(i) /\ \A k \in Row(i) : tree'[k].call = tree[k].call
        BY <1>5, <1>12, <3>1
      <3> QED
        BY <3>2, <3>3, <3>4
    <2> QED
      BY <2>1, <2>2
  <1>19. Cuts'
    <2> SUFFICES ASSUME NEW i \in Levels', NEW k \in Row(i)', frames'[i].at = "descend",
                        k < frames'[i].next, i = m \/ k # frames'[i].next - 1
                 PROVE  tree'[k].status = "completed"
      BY <1>14 DEF Cuts
    <2>1. i # m /\ i \in Levels /\ k \in Row(i) /\ k \in Chunks /\ k \in Nat
      BY <1>12, <1>14
    <2>2. CASE i = n
      <3>1. k < c + 1 /\ k # c + 1 - 1
        BY <1>5, <2>1, <2>2
      <3>2. k < c
        BY <1>6, <2>1, <3>1
      <3>3. CASE Top.next <= k
        <4>1. tree[k].leaf
          BY <1>5, <2>1, <2>2, <3>2, <3>3
        <4>2. tree[k].call = "done"
          BY <1>1, <1>6, <1>10, <2>1, <2>2 DEF Calls
        <4>3. tree[k].status = "completed"
          BY <1>10, <2>1, <4>1, <4>2 DEF Statuses
        <4> QED
          BY <1>5, <1>6, <2>1, <3>2, <4>3
      <3>4. CASE ~(Top.next <= k)
        <4>1. frames[n].at = "descend" /\ k < frames[n].next
          BY <1>1, <1>6, <2>1, <3>4
        <4>2. tree[k].status = "completed"
          BY <1>5, <1>10, <2>1, <2>2, <4>1 DEF Cuts
        <4> QED
          BY <1>5, <1>6, <2>1, <3>2, <4>2
      <3> QED
        BY <3>3, <3>4
    <2>3. CASE i # n
      <3>1. frames[i].at = "descend" /\ k < frames[i].next /\ k # frames[i].next - 1
        BY <1>5, <2>1, <2>3
      <3>2. tree[k].status = "completed"
        BY <1>10, <2>1, <3>1 DEF Cuts
      <3>3. k # c
        BY <2>1, <2>3, RowsApart
      <3> QED
        BY <1>5, <2>1, <3>2, <3>3
    <2> QED
      BY <2>2, <2>3
  <1>20. Statuses'
    <2> SUFFICES ASSUME NEW k \in Chunks'
                 PROVE  /\ tree'[k].leaf /\ tree'[k].call # "refused" => tree'[k].status = "completed"
                        /\ ~tree'[k].leaf /\ tree'[k].status = "completed" =>
                             \E j \in Chunks' : tree'[j].parent = k
                        /\ tree'[k].call = "refused" => tree'[k].status = "failed"
      BY DEF Statuses
    <2>1. CASE k \in R
      BY <1>15, <2>1
    <2>2. CASE k \in Chunks /\ k # c
      <3>1. /\ tree[k].leaf /\ tree[k].call # "refused" => tree[k].status = "completed"
            /\ ~tree[k].leaf /\ tree[k].status = "completed" => \E j \in Chunks : tree[j].parent = k
            /\ tree[k].call = "refused" => tree[k].status = "failed"
        BY <1>10, <2>2 DEF Statuses
      <3>2. /\ tree'[k].leaf = tree[k].leaf /\ tree'[k].call = tree[k].call
            /\ tree'[k].status = tree[k].status
        BY <1>5, <2>2
      <3>3. \A j \in Chunks : j \in Chunks' /\ tree'[j].parent = tree[j].parent
        BY <1>5
      <3> QED
        BY <3>1, <3>2, <3>3
    <2>3. CASE k = c
      BY <1>5, <1>16, <2>3
    <2> QED
      BY <1>14, <2>1, <2>2, <2>3
  <1>21. Passed'
    <2> SUFFICES ASSUME NEW i \in Levels' \ {1},
                        \A k \in Row(i)' : tree'[k].status = "completed",
                        NEW d \in Row(i)', tree'[d].call = "done"
                 PROVE  tree'[Parent(i)'].status = "completed"
      BY DEF Passed
    <2>1. i # m /\ i \in Levels /\ d \in Row(i) /\ d \in Chunks
      BY <1>12, <1>14, <1>15
    <2>2. i # n
      BY <1>5, <1>12, <2>1
    <2>3. \A k \in Row(i) : k \in Chunks /\ k # c
      BY <1>12, <2>1, <2>2, RowsApart
    <2>4. tree[Parent(i)].status = "completed"
      <3>1. \A k \in Row(i) : tree[k].status = "completed"
        <4> SUFFICES ASSUME NEW k \in Row(i) PROVE tree[k].status = "completed"
          OBVIOUS
        <4>1. tree'[k].status = "completed" /\ k \in Chunks /\ k # c
          BY <1>12, <2>1, <2>3
        <4> QED
          BY <1>5, <4>1
      <3>2. tree[d].call = "done"
        BY <1>5, <2>1
      <3> QED
        BY <1>10, <2>1, <3>1, <3>2 DEF Passed
    <2>5. Parent(i) \in Row(i - 1) /\ i - 1 \in Levels /\ Parent(i) \in Chunks /\ i - 1 < n
      BY <1>5, <2>1, ParentFacts
    <2>6. Parent(i) # c
      <3>1. i - 1 # n
        BY <1>6, <2>5
      <3> QED
        BY <2>5, <3>1, RowsApart
    <2> QED
      BY <1>5, <2>1, <2>4, <2>5, <2>6
  <1>22. Well'
    <2>1. c \notin Failed
      BY <1>8, <1>10, <1>16 DEF Well, Refused
    <2>2. Failed' = Failed
      <3>1. \A k \in Chunks : tree'[k].status = "failed" <=> tree[k].status = "failed"
        BY <1>5, <2>1 DEF Failed
      <3>2. \A k \in R : tree'[k].status # "failed"
        BY <1>15
      <3> QED
        BY <1>5, <1>14, <3>1, <3>2 DEF Failed
    <2>3. Refused' = Refused
      <3>1. \A k \in Chunks : tree'[k].call = tree[k].call
        BY <1>5
      <3>2. \A k \in R : tree'[k].call # "refused"
        BY <1>15
      <3> QED
        BY <1>5, <1>14, <3>1, <3>2 DEF Refused
    <2>4. ASSUME NEW k \in Chunks'
          PROVE  \/ \E i \in Levels' : k \in Row(i)'
                 \/ tree'[k].call = "done" /\ tree'[k].status = "completed"
      <3>1. CASE k \in R
        BY <1>14, <3>1
      <3>2. CASE k \in Chunks
        <4>1. CASE \E i \in Levels : k \in Row(i)
          BY <1>12, <1>14, <4>1
        <4>2. CASE tree[k].call = "done" /\ tree[k].status = "completed" /\ k \notin Row(n)
          BY <1>5, <3>2, <4>2
        <4> QED
          BY <1>8, <1>10, <3>2, <4>1, <4>2 DEF Well
      <3> QED
        BY <1>14, <3>1, <3>2
    <2> QED
      BY <1>8, <1>10, <2>2, <2>3, <2>4 DEF Well
  <1>23. Ill'
    BY <1>9 DEF Ill
  <1> QED
    BY <1>17, <1>18, <1>19, <1>20, <1>21, <1>22, <1>23 DEF Sound

\* A callback that runs, while nothing has gone wrong or has not been noticed, is
\* one of the level in progress.
LEMMA CallingRow ==
  ASSUME Typed, Shape, Calls, Well, Ill, NEW c \in Calling
  PROVE  /\ c \in Chunks /\ c \in Nat /\ ~Failing /\ outcome = "running"
         /\ Len(frames) \in Levels /\ c \in Row(Len(frames))
         /\ frames[Len(frames)].at \in {"loop", "acquire"} /\ c < frames[Len(frames)].next
         /\ \A i \in Levels : i # Len(frames) => frames[i].at = "descend"
         /\ \A k \in Chunks : tree[k].parent # c
  <1>1. c \in Chunks /\ tree[c].call = "calling" /\ c \in Nat
    BY ChunkFields DEF Calling, Typed
  <1>2. ~Failing
    BY DEF Ill
  <1>3. PICK i \in Levels : c \in Row(i)
    BY <1>1, <1>2 DEF Well
  <1>4. outcome = "running"
    BY <1>3 DEF Shape, Stages, Levels, Typed
  <1>5. /\ Len(frames) \in Levels /\ Top = frames[Len(frames)] /\ Len(frames) \in Nat
        /\ \A j \in Levels : j \in Nat /\ j <= Len(frames)
    BY <1>4, TopFacts
  <1>6. \A j \in Levels : j # Len(frames) => frames[j].at = "descend"
    BY <1>5 DEF Shape, Inner
  <1>7. i = Len(frames)
    BY <1>1, <1>3, <1>6 DEF Calls
  <1>8. frames[i].at \in {"loop", "acquire"}
    <2>1. frames[i].at # "descend"
      BY <1>1, <1>3 DEF Calls
    <2>2. frames[i].at # "raise"
      BY <1>2, <1>4, <1>5, <1>7 DEF Failing, Raising
    <2>3. frames[i].at \in {"loop", "acquire", "descend", "raise"}
      BY RowFacts DEF FrameType
    <2> QED
      BY <2>1, <2>2, <2>3
  <1>9. c < frames[i].next
    <2>1. ~(frames[i].next <= c)
      BY <1>1, <1>3, <1>8 DEF Calls
    <2>2. frames[i].next \in Nat
      BY RowFacts
    <2> QED
      BY <1>1, <2>1, <2>2
  <1>10. \A k \in Chunks : tree[k].parent # c
    BY <1>3, <1>8 DEF Shape, Uncut, Fresh
  <1> QED
    BY <1>1, <1>2, <1>3, <1>4, <1>5, <1>6, <1>7, <1>8, <1>9, <1>10

\* The chunks above the level in progress.
LEMMA Lineage ==
  ASSUME Typed, Shape, outcome = "running", NEW c \in Row(Len(frames))
  PROVE  \A k \in CompletedBy[c] :
           \/ k = c
           \/ \E i \in Levels \ {1} : k = Parent(i)
  <1> DEFINE S == {c} \cup {Parent(i) : i \in Levels \ {1}}
  <1>1. Len(frames) \in Levels
    BY TopFacts
  <1>2. c \in Chunks /\ tree[c].parent = Parent(Len(frames))
    BY <1>1, RowFacts
  <1>3. Parent(1) = 0
    BY DEF Parent
  <1>4. \A i \in Levels : Parent(i) \in S \cup {0}
    BY <1>3
  <1>5. ASSUME NEW k \in Chunks, k \in S PROVE tree[k].parent \in S \cup {0}
    <2>1. CASE k = c
      BY <1>1, <1>2, <1>4, <2>1
    <2>2. CASE k # c
      <3>1. PICK i \in Levels \ {1} : k = Parent(i)
        BY <1>5, <2>2
      <3>2. i - 1 \in Levels /\ tree[k].parent = Parent(i - 1)
        BY <3>1, ParentFacts
      <3> QED
        BY <1>4, <3>2
    <2> QED
      BY <2>1, <2>2
  <1>6. c \in S
    OBVIOUS
  <1> HIDE DEF S
  <1>7. CompletedBy[c] \subseteq S
    BY <1>2, <1>5, <1>6, CompletedByWithin DEF Typed, Shape
  <1> QED
    BY <1>7 DEF S

\* A callback succeeds: the chunk is completed, if it is a leaf, and with the last
\* leaf below them the chunks that are being cut.
LEMMA SucceedSound ==
  ASSUME Typed, Shape, Sound, NEW c \in Calling, Succeed(c)
  PROVE  Sound'
  <1> SUFFICES ASSUME Clean'
               PROVE  (Calls /\ Errs /\ Cuts /\ Statuses /\ Passed /\ Well /\ Ill)'
    BY DEF Sound
  <1>1. UNCHANGED <<use, frames, cancelled, outcome>> /\ c \in Chunks /\ tree[c].call = "calling"
    BY DEF Succeed, Calling
  <1>2. Failing' = Failing /\ Clean
    BY <1>1 DEF Clean, Failing, Raising, Top
  <1>3. Calls /\ Errs /\ Cuts /\ Statuses /\ Passed /\ Well /\ Ill
    BY <1>2 DEF Sound
  <1>4. PICK n : n = Len(frames)
    OBVIOUS
  <1>5. /\ ~Failing /\ outcome = "running" /\ n \in Levels /\ c \in Row(n)
        /\ frames[n].at \in {"loop", "acquire"} /\ c < frames[n].next /\ c \in Nat
        /\ \A i \in Levels : i # n => frames[i].at = "descend"
        /\ \A k \in Chunks : tree[k].parent # c
    BY <1>3, <1>4, CallingRow
  <1>6. PICK D : D = CompletedBy[c]
    OBVIOUS
  <1>7. /\ Chunks' = Chunks
        /\ \A k \in Chunks :
              /\ tree'[k].parent = tree[k].parent /\ tree'[k].leaf = tree[k].leaf
              /\ tree'[k].call = (IF k = c THEN "done" ELSE tree[k].call)
              /\ tree'[k].status =
                   (IF tree[c].leaf /\ k \in D THEN "completed" ELSE tree[k].status)
    BY <1>1, <1>6, SucceedTree
  <1>8. Levels' = Levels /\ \A i \in Levels : /\ Row(i)' = Row(i) /\ Parent(i)' = Parent(i)
                                              /\ Row(i) \subseteq Chunks /\ Row(i) \subseteq Nat
    BY <1>1, RowFacts DEF Levels, Row, Parent
  <1>9. \A k \in D : k = c \/ \E i \in Levels \ {1} : k = Parent(i)
    BY <1>4, <1>5, <1>6, Lineage
  <1>10. n \in Nat /\ \A i \in Levels : i \in Nat /\ i <= n /\ 1 <= i
    BY <1>4, <1>5, TopFacts
  <1>11. ASSUME NEW i \in Levels \ {1}
         PROVE  /\ i - 1 \in Levels /\ i - 1 # n /\ Parent(i) \in Row(i - 1)
                /\ Parent(i) \in Chunks /\ Parent(i) # c /\ Parent(i) # 0
                /\ tree[Parent(i)].call = "done" /\ tree[Parent(i)].status # "failed"
                /\ tree[Parent(i)].parent = Parent(i - 1)
    <2>1. i - 1 \in Levels /\ i - 1 < n /\ Parent(i) \in Row(i - 1) /\ Parent(i) \in Chunks
          /\ Parent(i) # 0 /\ tree[Parent(i)].parent = Parent(i - 1)
      BY <1>4, ParentFacts
    <2>2. i - 1 # n
      BY <1>10, <2>1
    <2>3. tree[Parent(i)].call = "done"
      BY <1>3, <1>5, <2>1, <2>2 DEF Calls
    <2>4. Parent(i) # c
      BY <1>1, <2>3
    <2>5. tree[Parent(i)].status # "failed"
      BY <1>3, <1>5, <2>1, <2>3 DEF Well, Failed, Refused
    <2> QED
      BY <2>1, <2>2, <2>3, <2>4, <2>5
  <1>12. \A k \in Chunks : tree[k].status = "completed" => tree'[k].status = "completed"
    BY <1>7
  <1>13. \A k \in Chunks : tree'[k].call = "refused" <=> tree[k].call = "refused"
    BY <1>1, <1>7
  <1>14. tree[c].leaf => tree[c].status = "completed"
    BY <1>1, <1>3 DEF Statuses
  <1>15. \A k \in Chunks : tree'[k].status = "failed" <=> tree[k].status = "failed"
    <2> SUFFICES ASSUME NEW k \in Chunks, tree[c].leaf, k \in D
                 PROVE  tree[k].status # "failed"
      BY <1>7
    <2>1. CASE k = c
      BY <1>14, <2>1
    <2>2. CASE k # c
      BY <1>9, <1>11, <2>2
    <2> QED
      BY <2>1, <2>2
  <1>16. Calls'
    <2> SUFFICES ASSUME NEW i \in Levels, NEW k \in Row(i)
                 PROVE  /\ frames[i].at \in {"loop", "acquire"} =>
                             (tree'[k].call = "new" <=> frames[i].next <= k)
                        /\ frames[i].at = "descend" => tree'[k].call = "done"
      BY <1>1, <1>8 DEF Calls
    <2>1. k \in Chunks /\ k \in Nat
      BY <1>8
    <2>2. /\ frames[i].at \in {"loop", "acquire"} => (tree[k].call = "new" <=> frames[i].next <= k)
          /\ frames[i].at = "descend" => tree[k].call = "done"
      BY <1>3 DEF Calls
    <2>3. CASE k = c
      BY <1>1, <1>7, <2>1, <2>2, <2>3
    <2>4. CASE k # c
      BY <1>7, <2>1, <2>2, <2>4
    <2> QED
      BY <2>3, <2>4
  <1>17. Errs'
    BY <1>1, <1>3, <1>8, <1>13 DEF Errs
  <1>18. Cuts'
    BY <1>1, <1>3, <1>8, <1>12 DEF Cuts
  <1>19. Statuses'
    <2> SUFFICES ASSUME NEW k \in Chunks
                 PROVE  /\ tree'[k].leaf /\ tree'[k].call # "refused" => tree'[k].status = "completed"
                        /\ ~tree'[k].leaf /\ tree'[k].status = "completed" =>
                             \E j \in Chunks : tree'[j].parent = k
                        /\ tree'[k].call = "refused" => tree'[k].status = "failed"
      BY <1>7 DEF Statuses
    <2>1. /\ tree[k].leaf /\ tree[k].call # "refused" => tree[k].status = "completed"
          /\ ~tree[k].leaf /\ tree[k].status = "completed" => \E j \in Chunks : tree[j].parent = k
          /\ tree[k].call = "refused" => tree[k].status = "failed"
      BY <1>3 DEF Statuses
    <2>2. tree'[k].leaf /\ tree'[k].call # "refused" => tree'[k].status = "completed"
      BY <1>7, <1>12, <1>13, <2>1
    <2>3. ASSUME ~tree'[k].leaf, tree'[k].status = "completed"
          PROVE  \E j \in Chunks : tree'[j].parent = k
      <3>1. ~tree[k].leaf
        BY <1>7, <2>3
      <3>2. CASE tree[k].status = "completed"
        BY <1>7, <2>1, <3>1, <3>2
      <3>3. CASE tree[k].status # "completed"
        <4>1. tree[c].leaf /\ k \in D
          BY <1>7, <2>3, <3>3
        <4>2. PICK i \in Levels \ {1} : k = Parent(i)
          BY <1>9, <3>1, <4>1
        <4>3. frames[i].first \in Chunks /\ tree[frames[i].first].parent = k
          BY <4>2, RowFacts
        <4> QED
          BY <1>7, <4>3
      <3> QED
        BY <3>2, <3>3
    <2>4. tree'[k].call = "refused" => tree'[k].status = "failed"
      BY <1>13, <1>15, <2>1
    <2> QED
      BY <2>2, <2>3, <2>4
  <1>20. Passed'
    <2> SUFFICES ASSUME NEW i \in Levels \ {1},
                        \A k \in Row(i) : tree'[k].status = "completed",
                        NEW d \in Row(i), tree'[d].call = "done"
                 PROVE  tree'[Parent(i)].status = "completed"
      BY <1>8 DEF Passed
    <2>1. d \in Chunks /\ Parent(i) \in Chunks /\ i \in Nat
      BY <1>8, <1>10, <1>11
    <2>2. CASE (\A k \in Row(i) : tree[k].status = "completed") /\ tree[d].call = "done"
      <3>1. tree[Parent(i)].status = "completed"
        BY <1>3, <2>2 DEF Passed
      <3> QED
        BY <1>12, <2>1, <3>1
    <2>3. ASSUME NEW k \in Row(i), k \in D, tree[c].leaf,
                 \A j \in Row(i) : j # k => j \notin D
          PROVE  tree'[Parent(i)].status = "completed"
      <3>1. k \in Chunks /\ tree[k].parent = Parent(i) /\ Parent(i) # 0
        BY <1>11, RowFacts
      <3>2. ASSUME NEW j \in Chunks, tree[j].parent = tree[k].parent, j # k
            PROVE  tree[j].status = "completed"
        <4>1. j \in Row(i)
          BY <3>1, <3>2, RowFacts
        <4>2. j \notin D /\ tree'[j].status = "completed"
          BY <2>3, <3>2, <4>1
        <4> QED
          BY <1>7, <4>2
      <3>3. tree[k].parent \in D
        BY <1>1, <1>6, <2>3, <3>1, <3>2, CompletedByPasses DEF Typed, Shape
      <3> QED
        BY <1>7, <2>1, <2>3, <3>1, <3>3
    <2>4. \A k \in D : k \in Row(i) =>
             (i = n /\ k = c) \/ (i # n /\ i + 1 \in Levels \ {1} /\ k = Parent(i + 1))
      <3> SUFFICES ASSUME NEW k \in D, k \in Row(i)
                   PROVE  (i = n /\ k = c)
                          \/ (i # n /\ i + 1 \in Levels \ {1} /\ k = Parent(i + 1))
        OBVIOUS
      <3>1. CASE k = c
        BY <1>5, <3>1, RowsApart
      <3>2. CASE k # c
        <4>1. PICK j \in Levels \ {1} : k = Parent(j)
          BY <1>9, <3>2
        <4>2. j - 1 = i /\ j - 1 # n /\ j \in Nat
          BY <1>10, <1>11, <4>1, RowsApart
        <4>3. j = i + 1 /\ i # n
          BY <2>1, <4>2
        <4> QED
          BY <4>1, <4>3
      <3> QED
        BY <3>1, <3>2
    <2>5. CASE i = n
      <3>1. tree[c].leaf
        <4> SUFFICES ASSUME ~tree[c].leaf PROVE FALSE
          OBVIOUS
        <4>1. tree[c].status = "completed"
          BY <1>1, <1>5, <1>7, <2>5
        <4> QED
          BY <1>1, <1>3, <1>5, <4>1 DEF Statuses
      <3>2. c \in D
        BY <1>1, <1>6, CompletedBySelf DEF Typed, Shape
      <3>3. \A j \in Row(i) : j # c => j \notin D
        BY <2>4, <2>5
      <3> QED
        BY <1>5, <2>3, <2>5, <3>1, <3>2, <3>3
    <2>6. CASE i # n /\ ~(tree[c].leaf /\ \E k \in Row(i) : k \in D)
      <3>1. \A k \in Row(i) : k \in Chunks /\ tree[k].status = "completed"
        BY <1>7, <1>8, <2>6
      <3>2. d # c
        BY <1>5, <2>6, RowsApart
      <3>3. tree[d].call = "done"
        BY <1>7, <2>1, <3>2
      <3> QED
        BY <2>2, <3>1, <3>3
    <2>7. CASE i # n /\ tree[c].leaf /\ \E k \in Row(i) : k \in D
      <3>1. PICK k \in Row(i) : k \in D
        BY <2>7
      <3>2. \A j \in Row(i) : j # k => j \notin D
        BY <2>4, <2>7, <3>1
      <3> QED
        BY <2>3, <2>7, <3>1, <3>2
    <2> QED
      BY <2>5, <2>6, <2>7
  <1>21. Well'
    <2>1. Failed' = Failed /\ Refused' = Refused
      BY <1>7, <1>13, <1>15 DEF Failed, Refused
    <2>2. \A k \in Chunks : \/ \E i \in Levels : k \in Row(i)
                            \/ tree'[k].call = "done" /\ tree'[k].status = "completed"
      BY <1>3, <1>5, <1>7, <1>12 DEF Well
    <2> QED
      BY <1>3, <1>5, <1>7, <1>8, <2>1, <2>2 DEF Well
  <1>22. Ill'
    BY <1>2, <1>5 DEF Ill
  <1> QED
    BY <1>16, <1>17, <1>18, <1>19, <1>20, <1>21, <1>22


\* A callback fails, and with it its chunk; the level has an error.
LEMMA RefuseSound ==
  ASSUME Typed, Shape, Sound, NEW c \in Calling, Refuse(c)
  PROVE  Sound'
  <1> SUFFICES ASSUME Clean'
               PROVE  (Calls /\ Errs /\ Cuts /\ Statuses /\ Passed /\ Well /\ Ill)'
    BY DEF Sound
  <1>1. UNCHANGED <<use, cancelled, outcome>> /\ c \in Chunks /\ tree[c].call = "calling"
    BY DEF Refuse, Calling
  <1>2. PICK n : n = Len(frames)
    OBVIOUS
  <1>3. /\ Len(frames') = n /\ Levels' = Levels
        /\ \A i \in Levels :
             /\ Parent(i)' = Parent(i) /\ Row(i)' = Row(i)
             /\ frames'[i].next = frames[i].next /\ frames'[i].at = frames[i].at
             /\ frames'[i].err = (frames[i].err \/ (i = n /\ c \in Row(i)))
    BY <1>1, <1>2, RefuseTop DEF Row
  <1>4. Failing' = Failing
    <2>1. CASE outcome = "running"
      <3>1. n \in Levels
        BY <1>2, <2>1, TopFacts
      <3>2. Top' = frames'[n] /\ Top = frames[n]
        BY <1>2, <1>3 DEF Top
      <3>3. Top'.at = Top.at
        BY <1>3, <3>1, <3>2
      <3> QED
        BY <1>1, <3>3 DEF Failing, Raising
    <2>2. CASE outcome # "running"
      BY <1>1, <2>2 DEF Failing, Raising
    <2> QED
      BY <2>1, <2>2
  <1>5. Clean
    BY <1>1, <1>4 DEF Clean
  <1>6. Calls /\ Errs /\ Cuts /\ Statuses /\ Passed /\ Well /\ Ill
    BY <1>5 DEF Sound
  <1>7. /\ ~Failing /\ n \in Levels /\ c \in Row(n)
        /\ frames[n].at \in {"loop", "acquire"} /\ c < frames[n].next /\ c \in Nat
        /\ \A k \in Chunks : tree[k].parent # c
    BY <1>2, <1>6, CallingRow
  <1>8. /\ Chunks' = Chunks
        /\ \A k \in Chunks :
             /\ tree'[k].parent = tree[k].parent /\ tree'[k].leaf = tree[k].leaf
             /\ tree'[k].call = (IF k = c THEN "refused" ELSE tree[k].call)
             /\ tree'[k].status = (IF k = c THEN "failed" ELSE tree[k].status)
    BY <1>1, RefuseTree
  <1>9. \A i \in Levels : Row(i) \subseteq Chunks /\ (i # n => c \notin Row(i))
    BY <1>7, RowFacts, RowsApart
  <1>10. Calls'
    <2> SUFFICES ASSUME NEW i \in Levels, NEW k \in Row(i)
                 PROVE  /\ frames[i].at \in {"loop", "acquire"} =>
                             (tree'[k].call = "new" <=> frames[i].next <= k)
                        /\ frames[i].at = "descend" => tree'[k].call = "done"
      BY <1>3 DEF Calls
    <2>1. /\ frames[i].at \in {"loop", "acquire"} => (tree[k].call = "new" <=> frames[i].next <= k)
          /\ frames[i].at = "descend" => tree[k].call = "done"
      BY <1>6 DEF Calls
    <2>2. k \in Chunks
      BY <1>9
    <2>3. CASE k = c
      BY <1>1, <1>8, <2>1, <2>2, <2>3
    <2>4. CASE k # c
      BY <1>8, <2>1, <2>2, <2>4
    <2> QED
      BY <2>3, <2>4
  <1>11. Errs'
    <2> SUFFICES ASSUME NEW i \in Levels, frames[i].at \in {"loop", "acquire"}
                 PROVE  frames'[i].err <=> \E k \in Row(i) : tree'[k].call = "refused"
      BY <1>3 DEF Errs
    <2>1. frames[i].err <=> \E k \in Row(i) : tree[k].call = "refused"
      BY <1>6 DEF Errs
    <2>2. CASE i = n
      BY <1>3, <1>7, <1>8, <1>9, <2>2
    <2>3. CASE i # n
      <3>1. \A k \in Row(i) : tree'[k].call = tree[k].call
        BY <1>8, <1>9, <2>3
      <3> QED
        BY <1>3, <2>1, <2>3, <3>1
    <2> QED
      BY <2>2, <2>3
  <1>12. Cuts'
    <2> SUFFICES ASSUME NEW i \in Levels, NEW k \in Row(i), frames[i].at = "descend",
                        k < frames[i].next, i = n \/ k # frames[i].next - 1
                 PROVE  tree'[k].status = "completed"
      BY <1>3 DEF Cuts
    <2>1. tree[k].status = "completed"
      BY <1>2, <1>6 DEF Cuts
    <2>2. i # n
      BY <1>7
    <2>3. k # c /\ k \in Chunks
      BY <1>9, <2>2
    <2> QED
      BY <1>8, <2>1, <2>3
  <1>13. Statuses'
    <2> SUFFICES ASSUME NEW k \in Chunks
                 PROVE  /\ tree'[k].leaf /\ tree'[k].call # "refused" => tree'[k].status = "completed"
                        /\ ~tree'[k].leaf /\ tree'[k].status = "completed" =>
                             \E j \in Chunks : tree'[j].parent = k
                        /\ tree'[k].call = "refused" => tree'[k].status = "failed"
      BY <1>8 DEF Statuses
    <2>1. CASE k = c
      BY <1>8, <2>1
    <2>2. CASE k # c
      BY <1>6, <1>8, <2>2 DEF Statuses
    <2> QED
      BY <2>1, <2>2
  <1>14. Passed'
    <2> SUFFICES ASSUME NEW i \in Levels \ {1},
                        \A k \in Row(i) : tree'[k].status = "completed",
                        NEW d \in Row(i), tree'[d].call = "done"
                 PROVE  tree'[Parent(i)].status = "completed"
      BY <1>3 DEF Passed
    <2>1. \A k \in Row(i) : k # c /\ k \in Chunks /\ tree[k].status = "completed"
      BY <1>8, <1>9
    <2>2. tree[d].call = "done"
      BY <1>8, <2>1
    <2>3. tree[Parent(i)].status = "completed"
      BY <1>6, <2>1, <2>2 DEF Passed
    <2>4. Parent(i) \in Chunks
      BY ParentFacts
    <2>5. tree[d].parent = Parent(i)
      BY RowFacts
    <2>6. Parent(i) # c
      BY <1>7, <2>1, <2>5
    <2> QED
      BY <1>8, <2>3, <2>4, <2>6
  <1>15. Well'
    <2>1. Failed' = Failed \cup {c}
      BY <1>1, <1>8 DEF Failed
    <2>2. Refused' = Refused \cup {c}
      BY <1>1, <1>8 DEF Refused
    <2>3. \A k \in Chunks : \/ \E i \in Levels : k \in Row(i)
                            \/ tree'[k].call = "done" /\ tree'[k].status = "completed"
      BY <1>6, <1>7, <1>8 DEF Well
    <2>4. Failed = Refused
      BY <1>6, <1>7 DEF Well
    <2> QED
      BY <1>3, <1>8, <2>1, <2>2, <2>3, <2>4 DEF Well
  <1>16. Ill'
    BY <1>4, <1>7 DEF Ill
  <1> QED
    BY <1>10, <1>11, <1>12, <1>13, <1>14, <1>15, <1>16

\* Other goroutines, a cancellation.
LEMMA Elsewhere ==
  ASSUME Typed, Shape, Sound, UNCHANGED <<use, tree, frames, outcome>>,
         cancelled' \in BOOLEAN, cancelled => cancelled'
  PROVE  Typed' /\ Shape' /\ Sound'
  <1>1. /\ use' = use /\ tree' = tree /\ frames' = frames /\ outcome' = outcome
    OBVIOUS
  <1>2. Chunks' = Chunks /\ Levels' = Levels /\ Failed' = Failed /\ Refused' = Refused
        /\ Calling' = Calling /\ Failing' = Failing
    BY <1>1 DEF Chunks, Levels, Failed, Refused, Calling, Failing, Raising, Top
  <1>3. Blamed' = Blamed
    BY <1>1 DEF Blamed, Failed, Chunks, Levels, Parent
  <1>4. Typed'
    BY <1>1 DEF Typed, Usable
  <1>5. Shape'
    <2>1. Ranges' /\ Ordered' /\ Descents' /\ Inner' /\ Stages'
      BY <1>1 DEF Shape, Ranges, Ordered, Descents, Inner, Stages, Levels, Chunks
    <2>2. Family' /\ Uncut'
      BY <1>1 DEF Shape, Family, Uncut, Fresh, Levels, Chunks, Row, Parent
    <2> QED
      BY <2>1, <2>2 DEF Shape
  <1>6. Sound'
    <2> SUFFICES ASSUME Clean'
                 PROVE  (Calls /\ Errs /\ Cuts /\ Statuses /\ Passed /\ Well /\ Ill)'
      BY DEF Sound
    <2>1. Clean
      BY <1>2 DEF Clean
    <2>2. Calls /\ Errs /\ Cuts /\ Statuses /\ Passed /\ Well /\ Ill
      BY <2>1 DEF Sound
    <2>3. Calls' /\ Errs' /\ Cuts' /\ Statuses' /\ Passed'
      BY <1>1, <2>2 DEF Calls, Errs, Cuts, Statuses, Passed, Levels, Chunks, Row, Parent
    <2>4. Well'
      BY <1>1, <1>2, <2>2 DEF Well, Row
    <2>5. Ill'
      BY <1>1, <1>2, <1>3, <2>2 DEF Ill
    <2> QED
      BY <2>3, <2>4, <2>5
  <1> QED
    BY <1>4, <1>5, <1>6

-----------------------------------------------------------------------------
(* The initial states.                                                     *)

LEMMA Pairs ==
  ASSUME NEW a \in Int, NEW b \in Int
  PROVE  /\ Min({a, b}) \in Int
         /\ Max({a, b}) \in Int /\ a <= Max({a, b})
  <1>1. \E x \in {a, b} : \A y \in {a, b} : x <= y
    OBVIOUS
  <1>2. \E x \in {a, b} : \A y \in {a, b} : x >= y
    OBVIOUS
  <1>3. Min({a, b}) \in {a, b}
    BY <1>1 DEF Min
  <1>4. Max({a, b}) \in {a, b} /\ \A y \in {a, b} : Max({a, b}) >= y
    BY <1>2 DEF Max
  <1>5. PICK m : m = Max({a, b})
    OBVIOUS
  <1>6. m \in Int /\ a <= m
    BY <1>4, <1>5
  <1> QED
    BY <1>3, <1>5, <1>6

\* The options of a call.
UseType == [kind : {"structured", "semantic"}, caller : {"AddFile", "user"},
            cuts : SUBSET Nat, size : Int, overlap : Int, maxDepth : Int,
            multiplier : Int, concurrent : Int, unit : Int, levels : Int,
            context : Int, asks : Int]

LEMMA PreparedType ==
  ASSUME NEW u \in Uses
  PROVE  /\ Prepared(u) \in UseType /\ Prepared(u).cuts = u.cuts
         /\ Prepared(u).size \in Nat \ {0} /\ Prepared(u).overlap \in Nat
         /\ Prepared(u).overlap < Prepared(u).size
  <1>1. u \in UseType
    BY SemanticAssumption DEF UseType
  <1>2. u.size \in Nat \ {0} /\ u.overlap \in Nat
    BY ChunkerAssumption
  <1>3. Prepared(u).overlap < Prepared(u).size
    BY SemanticAssumption
  <1>4. CASE u.kind # "semantic"
    <2>1. Prepared(u) = u
      BY <1>4 DEF Prepared
    <2> QED
      BY <1>1, <1>2, <1>3, <2>1
  <1>5. CASE u.kind = "semantic"
    <2> DEFINE overlap == IF u.overlap <= 0 \/ u.overlap > u.unit THEN 50 ELSE u.overlap
               size == IF u.context <= 0 THEN u.unit * u.levels * 3 ELSE u.context
               asks == IF u.asks <= 0 THEN 4 ELSE u.asks
    <2>1. Prepared(u) = [u EXCEPT !.overlap = overlap, !.size = size, !.maxDepth = 1, !.asks = asks]
      BY <1>5 DEF Prepared
    <2>2. u.levels \in Nat \ {0} /\ u.unit \in Nat \ {0}
      BY <1>5, SemanticAssumption
    <2>3. u.context \in Int /\ u.asks \in Int
      BY <1>1 DEF UseType
    <2>4. u.unit * u.levels \in Nat \ {0}
      BY <2>2
    <2>5. u.unit * u.levels * 3 \in Nat \ {0}
      BY <2>4
    <2>6. overlap \in Nat /\ size \in Nat \ {0} /\ asks \in Int
      BY <1>2, <2>3, <2>5
    <2> HIDE DEF overlap, size, asks
    <2>7. PICK q \in UseType : q = u
      BY <1>1
    <2>8. PICK r : r = [q EXCEPT !.overlap = overlap, !.size = size, !.maxDepth = 1, !.asks = asks]
      OBVIOUS
    <2>9. r.cuts = q.cuts /\ r.size = size /\ r.overlap = overlap
      BY <2>8 DEF UseType
    <2>10. r \in UseType
      <3>1. PICK s \in UseType : s = [q EXCEPT !.overlap = overlap, !.size = size]
        <4>1. overlap \in Int /\ size \in Int
          BY <2>6
        <4> QED
          BY <4>1 DEF UseType
      <3>2. PICK t \in UseType : t = [s EXCEPT !.maxDepth = 1]
        <4>1. PICK d \in Int : d = 1
          OBVIOUS
        <4>2. [s EXCEPT !.maxDepth = d] \in UseType
          BY DEF UseType
        <4> QED
          BY <4>1, <4>2
      <3>3. asks \in Int
        BY <2>6
      <3>4. [t EXCEPT !.asks = asks] \in UseType
        BY <3>3 DEF UseType
      <3> QED
        BY <2>8, <3>1, <3>2, <3>4
    <2>11. Prepared(u) = r
      BY <2>1, <2>7, <2>8
    <2> QED
      BY <1>3, <2>6, <2>7, <2>9, <2>10, <2>11
  <1> QED
    BY <1>4, <1>5

LEMMA FixedUsable ==
  ASSUME NEW v \in UseType
  PROVE  /\ Fixed(v).cuts = v.cuts /\ Fixed(v).size = v.size /\ Fixed(v).overlap = v.overlap
         /\ Fixed(v).maxDepth \in Nat /\ Fixed(v).multiplier \in Nat \ {0}
  <1> DEFINE depth == Max({1, Min({5, v.maxDepth})})
             times == IF v.multiplier <= 0 THEN 3 ELSE v.multiplier
             many == IF v.concurrent <= 0 THEN 10 ELSE v.concurrent
  <1>1. Fixed(v) = [v EXCEPT !.maxDepth = depth, !.multiplier = times, !.concurrent = many]
    BY DEF Fixed
  <1>2. v.maxDepth \in Int /\ v.multiplier \in Int /\ v.concurrent \in Int
    BY DEF UseType
  <1>3. depth \in Nat
    <2>1. PICK d \in Int : d = v.maxDepth
      BY <1>2
    <2>2. Min({5, d}) \in Int
      <3>1. 5 \in Int
        OBVIOUS
      <3> QED
        BY <3>1, Pairs
    <2>3. PICK m \in Int : m = Min({5, v.maxDepth})
      BY <2>1, <2>2
    <2>4. Max({1, m}) \in Int /\ 1 <= Max({1, m})
      BY Pairs
    <2>5. depth = Max({1, m})
      BY <2>3
    <2> HIDE DEF depth
    <2>6. depth \in Int /\ 1 <= depth
      BY <2>4, <2>5
    <2> QED
      BY <2>6
  <1>4. times \in Nat \ {0}
    BY <1>2
  <1> HIDE DEF depth, times, many
  <1> QED
    BY <1>1, <1>3, <1>4 DEF UseType

LEMMA InitLemma ==
  ASSUME Init
  PROVE  IInv
  <1>1. PICK u \in Uses : use = Fixed(Prepared(u))
    BY DEF Init, SemanticInit, ChunkerInit
  <1>2. /\ tree = <<>> /\ frames = <<>> /\ cancelled = FALSE /\ outcome = "new" /\ local = <<>>
    BY DEF Init, SemanticInit, ChunkerInit
  <1>3. Usable
    <2>1. PICK v \in UseType : v = Prepared(u)
      BY PreparedType
    <2>2. /\ v.cuts = u.cuts /\ v.size \in Nat \ {0} /\ v.overlap \in Nat /\ v.overlap < v.size
      BY <2>1, PreparedType
    <2>3. /\ use.cuts = v.cuts /\ use.size = v.size /\ use.overlap = v.overlap
          /\ use.maxDepth \in Nat /\ use.multiplier \in Nat \ {0}
      BY <1>1, <2>1, FixedUsable
    <2>4. 0 \in u.cuts /\ u.cuts \subseteq Nat /\ IsFiniteSet(u.cuts)
      BY ChunkerAssumption
    <2> QED
      BY <2>2, <2>3, <2>4 DEF Usable
  <1>4. Chunks = {} /\ Levels = {} /\ DOMAIN local = {}
    BY <1>2 DEF Chunks, Levels
  <1>5. Typed
    <2>1. tree \in Seq(ChunkType) /\ frames \in Seq(FrameType)
      BY <1>2
    <2>2. cancelled \in BOOLEAN /\ outcome \in {"new", "running", "ok", "error"}
      BY <1>2
    <2> QED
      BY <1>3, <2>1, <2>2 DEF Typed
  <1>6. Inside
    BY <1>4 DEF Inside
  <1>7. Shape
    <2>1. Stages
      BY <1>2 DEF Stages
    <2> QED
      BY <1>4, <2>1 DEF Shape, Ranges, Ordered, Descents, Family, Inner, Uncut
  <1>8. Sound
    <2>1. ~Failing
      BY <1>2 DEF Failing, Raising
    <2> QED
      BY <1>4, <2>1 DEF Sound, Calls, Errs, Cuts, Statuses, Passed, Well, Ill, Failed, Refused
  <1> QED
    BY <1>5, <1>6, <1>7, <1>8 DEF IInv

-----------------------------------------------------------------------------
(* The invariant, and what it says when Chunk has returned.                *)

LEMMA NextLemma ==
  ASSUME IInv, [Next]_vars
  PROVE  IInv'
  <1>1. Typed /\ Inside /\ Shape /\ Sound
    BY DEF IInv
  <1>2. Inside'
    BY <1>1, InsideStep
  <1>3. Typed' /\ Shape' /\ Sound'
    <2>1. CASE UNCHANGED <<use, tree, frames, cancelled, outcome>>
      <3>1. cancelled' \in BOOLEAN /\ (cancelled => cancelled')
        BY <1>1, <2>1 DEF Typed
      <3> QED
        BY <1>1, <2>1, <3>1, Elsewhere
    <2>2. CASE Cancel
      BY <1>1, <2>2, Elsewhere DEF Cancel
    <2>3. CASE Begin
      BY <1>1, <2>3, BeginShape, BeginSound
    <2>4. CASE Check
      BY <1>1, <2>4, CheckShape, CheckSound
    <2>5. CASE Acquire
      BY <1>1, <2>5, AcquireShape, AcquireSound
    <2>6. CASE Join
      BY <1>1, <2>6, JoinShape, JoinSound
    <2>7. CASE Descend
      BY <1>1, <2>7, DescendShape, DescendSound
    <2>8. CASE Leave
      BY <1>1, <2>8, LeaveShape, LeaveSound
    <2>9. CASE Raise
      BY <1>1, <2>9, RaiseShape, RaiseSound
    <2>10. ASSUME NEW c \in Calling, Succeed(c)
           PROVE  Typed' /\ Shape' /\ Sound'
      <3>1. c \in Chunks
        BY DEF Calling
      <3> QED
        BY <1>1, <2>10, <3>1, SucceedShape, SucceedSound
    <2>11. ASSUME NEW c \in Calling, Refuse(c)
           PROVE  Typed' /\ Shape' /\ Sound'
      <3>1. c \in Chunks
        BY DEF Calling
      <3> QED
        BY <1>1, <2>11, <3>1, RefuseShape, RefuseSound
    <2>12. \/ UNCHANGED <<use, tree, frames, cancelled, outcome>>
           \/ Main
           \/ Cancel
           \/ \E c \in Calling : Succeed(c) \/ Refuse(c)
      BY <1>1, StepCases
    <2> QED
      BY <2>1, <2>2, <2>3, <2>4, <2>5, <2>6, <2>7, <2>8, <2>9, <2>10, <2>11, <2>12 DEF Main
  <1> QED
    BY <1>2, <1>3 DEF IInv

\* The inductive invariant: options as validated, the tree and the levels of the
\* structured chunker in order, and, but for what a cancellation leaves behind, the
\* status of every chunk as the callbacks and the levels above it say.
THEOREM Invariance == Spec => []IInv
  <1>1. Init => IInv
    BY InitLemma
  <1>2. IInv /\ [Next]_vars => IInv'
    BY NextLemma
  <1> QED
    BY <1>1, <1>2, PTL DEF Spec

LEMMA Told ==
  ASSUME IInv
  PROVE  StatusTells
  <1>1. Typed /\ Shape /\ Sound
    BY DEF IInv
  <1>2. ASSUME outcome = "ok" \/ (outcome = "error" /\ ~cancelled)
        PROVE  Levels = {} /\ Clean /\ (Statuses /\ Well /\ Ill)
    <2>1. frames = <<>>
      BY <1>1, <1>2 DEF Shape, Stages
    <2>2. Levels = {}
      BY <2>1 DEF Levels
    <2>3. Clean
      BY <1>2 DEF Clean, Failing, Raising
    <2> QED
      BY <1>1, <2>2, <2>3 DEF Sound
  <1>3. ASSUME outcome = "ok", NEW c \in Chunks
        PROVE  tree[c].call = "done" /\ tree[c].status = "completed"
    <2>1. ~Failing
      BY <1>3 DEF Failing, Raising
    <2> QED
      BY <1>2, <1>3, <2>1 DEF Well
  <1>4. ASSUME outcome = "error", ~cancelled
        PROVE  Failed = UNION {Above[c] : c \in Refused}
    <2>1. Failing
      BY <1>4 DEF Failing
    <2>2. Blamed = Failed
      BY <1>2, <1>4 DEF Blamed
    <2>3. /\ Failed \subseteq Chunks /\ Refused \subseteq Failed
          /\ \A c \in Failed : tree[c].parent \in Failed \cup {0}
          /\ \A c \in Failed \ Refused : \E k \in Failed : tree[k].parent = c
      BY <1>2, <1>4, <2>1, <2>2 DEF Ill, Failed
    <2>4. tree \in Seq(ChunkType) /\ Descents
      BY <1>1 DEF Typed, Shape
    <2>5. PICK F \in SUBSET Chunks : F = Failed
      BY <2>3
    <2>6. F = UNION {Above[c] : c \in Refused}
      BY <2>3, <2>4, <2>5, AboveRefused
    <2> QED
      BY <2>5, <2>6
  <1> QED
    BY <1>3, <1>4 DEF StatusTells, Failed, Refused

\* What Chunk returns agrees with the statuses of the ChunkManager, for every text,
\* every option and every number of failing callbacks: after success every chunk of
\* every level was handed out and is completed, and after an error the failed chunks
\* are those whose callback failed and the ones above them (processCurrentLevel,
\* checkParentCompletion).
THEOREM StatusesTell == Spec => []StatusTells
  <1>1. IInv => StatusTells
    BY Told
  <1> QED
    BY <1>1, Invariance, PTL

-----------------------------------------------------------------------------
(* The second inductive invariant: the text, the types, the hierarchy.     *)

PieceType == [first : Nat, last : Nat, depth : Nat, parent : Nat]
SegmentType == [lo : Nat, hi : Nat, orphan : BOOLEAN]

\* What the numbers of a call are besides.
Prepares ==
  /\ use.maxDepth \in Nat \ {0} /\ use.concurrent \in Nat \ {0}
  /\ sem = "off" <=> use.kind # "semantic"
  /\ sem # "off" => use.asks \in Nat \ {0} /\ use.levels \in Nat \ {0} /\ use.unit \in Nat \ {0}

\* A chunk is a piece of the text, of whole characters unless it is empty; what is cut
\* further is not, and not of the lowest level.
Extent(c) == c.lo + 1..c.hi
Placed ==
  /\ outcome # "new" => tree # <<>>
  /\ \A c \in Chunks :
       /\ 0 <= tree[c].lo /\ tree[c].lo <= tree[c].hi /\ tree[c].hi <= Max(use.cuts)
       /\ tree[c].lo < tree[c].hi => tree[c].lo \in use.cuts /\ tree[c].hi \in use.cuts
       /\ 1 <= tree[c].depth /\ tree[c].depth <= use.maxDepth
       /\ ~tree[c].leaf => tree[c].depth < use.maxDepth /\ tree[c].lo < tree[c].hi

\* The levels in progress, by depth, and the callbacks of each that run.
Nested ==
  \A i \in Levels :
    /\ \A c \in Row(i) : tree[c].depth = i
    /\ Cardinality(Calling \cap Row(i)) <= use.concurrent

\* A character that the overlap can catch is in a chunk of the first level, and in
\* one of those cut from any chunk it is in.
Covered ==
  Caught =>
    /\ outcome # "new" => All \subseteq Bytes({tree[k] : k \in Below(0)})
    /\ \A c \in Chunks : Below(c) # {} =>
         Extent(tree[c]) \subseteq Bytes({tree[k] : k \in Below(c)})

Layout == Placed /\ Nested /\ Covered

\* The slice of AddFile.
Slice ==
  /\ IF Structured
     THEN /\ chunks \subseteq Chunks /\ \A c \in DOMAIN local : local[c] \subseteq Chunks
          /\ ByAddFile /\ ~raced => chunks = {c \in Chunks : tree[c].call = "done"}
     ELSE chunks \subseteq 1..delivered /\ (ByAddFile => chunks = 1..delivered)
  /\ raced \in BOOLEAN /\ graph \in BOOLEAN

\* How far AddFile is.
Phases ==
  /\ phase \in {"chunk", "extract", "save", "embed", "store", "ok", "error", "crashed"}
  /\ phase \notin {"chunk", "error"} => ByAddFile /\ Result = "ok"
  /\ stored \in 0..Cardinality(chunks) /\ (stored # 0 => Result = "ok")
  /\ phase = "ok" => stored = Cardinality(chunks)
  /\ faults \in 0..MaxFaults

\* The segments of the windows, in their order.
Flat == FlattenSeq([w \in 1..Len(tree) |->
          [k \in DOMAIN answers[w].segments |->
            [lo |-> answers[w].segments[k][1], hi |-> answers[w].segments[k][2],
             orphan |-> answers[w].fallback]]])

\* What a window becomes.
Answered(a) ==
  a.fallback \in BOOLEAN /\ a.segments \in Seq(Nat \X Nat) /\ a.segments # <<>>

\* How far the semantic chunker is.
Windows ==
  /\ sem \in {"off", "windows", "segment", "acquire", "output", "ok", "error"}
  /\ sem \in {"segment", "acquire", "output", "ok"} => outcome = "ok"
  /\ window \in 1..Len(tree) + 1 /\ (window # 1 => outcome = "ok")
  /\ sem \in {"off", "windows"} => window = 1
  /\ sem \in {"off", "windows", "segment", "acquire"} => base = <<>> /\ pieces = <<>>
  /\ asked \subseteq 1..window - 1 /\ asked \cup DOMAIN answers = 1..window - 1
  /\ asked \cap DOMAIN answers = {} /\ (sem # "off" => Cardinality(asked) <= use.asks)
  /\ \A w \in DOMAIN answers : Answered(answers[w])
  /\ sem = "acquire" => window <= Len(tree)
  /\ sem \in {"output", "ok"} => window = Len(tree) + 1 /\ asked = {} /\ base = Flat
  /\ delivered \in 0..Len(pieces) /\ (sem = "ok" => delivered = Len(pieces))
  /\ base \in Seq(SegmentType)

Steps == Prepares /\ Slice /\ Phases /\ Windows

\* The levels made so far: each of them is all segments of the lowest one, in order.
Spans(d) ==
  /\ \A i \in LevelOf(d) : 1 <= pieces[i].first /\ pieces[i].first <= pieces[i].last
                           /\ pieces[i].last <= Len(base)
  /\ \A s \in DOMAIN base : \E i \in LevelOf(d) : pieces[i].first <= s /\ s <= pieces[i].last
  /\ \A i, j \in LevelOf(d) : i < j => pieces[i].last < pieces[j].first

\* The chunks of a level are groups of those of the level below.
Grouped(d) ==
  /\ \A p \in LevelOf(d) : \E c \in LevelOf(d + 1) : Holds(p, c)
  /\ \A c \in LevelOf(d + 1) : \E p \in LevelOf(d) : Holds(p, c)

\* A parent that was found is of the level above, and the right one if that is plain.
Adopted(d) ==
  \A c \in LevelOf(d + 1) : pieces[c].parent # 0 =>
    pieces[c].parent \in LevelOf(d) /\ (Plain(d) => Holds(pieces[c].parent, c))

\* Those whose turn has been have left none of their own.
Served ==
  \A p \in LevelOf(Depth) \ Turn : \A c \in LevelOf(Depth + 1) :
    Holds(p, c) => pieces[c].parent # 0

Piles ==
  /\ pieces \in Seq(PieceType)
  /\ \A i \in DOMAIN pieces : /\ pieces[i].depth \in 1..use.levels
                              /\ pieces[i].parent \in 0..Len(pieces)
  /\ \A i, j \in DOMAIN pieces : i < j => pieces[i].depth >= pieces[j].depth
  /\ sem \in {"output", "ok"} =>
       /\ pieces # <<>>
       /\ \A d \in Depth..use.levels : Spans(d) /\ LevelOf(d) # {}
       /\ \A d \in Depth..use.levels - 1 : Grouped(d) /\ Adopted(d)
       /\ \A d \in Depth + 1..use.levels - 1 : \A c \in LevelOf(d + 1) : pieces[c].parent # 0
       /\ \A c \in LevelOf(Depth) : pieces[c].parent = 0
       /\ Served
       /\ sem = "ok" => \A c \in LevelOf(Depth + 1) : pieces[c].parent # 0

TextInv == Layout /\ Steps /\ Piles

-----------------------------------------------------------------------------
(* The windows of a piece of text.                                         *)

LEMMA Divided ==
  ASSUME NEW a \in Nat, NEW b \in Nat \ {0}
  PROVE  LET q == a \div b IN q \in Nat /\ q * b \in Nat /\ q * b <= a /\ a < q * b + b
  <1>1. PICK q \in Nat : q = a \div b
    BY Quotient
  <1>2. q * b <= a /\ a < q * b + b
    BY <1>1
  <1>3. q * b \in Nat
    OBVIOUS
  <1> QED
    BY <1>1, <1>2, <1>3

LEMMA ScaledUp ==
  ASSUME Usable, NEW d \in Nat
  PROVE  use.overlap <= Scaled(use.overlap, d)
  <1>1. use.overlap \in Nat /\ use.maxDepth \in Nat /\ use.multiplier \in Nat \ {0}
    BY DEF Usable
  <1>2. CASE d >= use.maxDepth
    BY <1>1, <1>2 DEF Scaled
  <1>3. CASE ~(d >= use.maxDepth)
    <2>1. PICK a \in Nat \ {0} : a = use.maxDepth - d
      BY <1>1, <1>3
    <2>2. PICK o \in Nat, m \in Nat \ {0} : o = use.overlap /\ m = use.multiplier
      BY <1>1
    <2>3. PICK x \in Nat : x = o * a
      OBVIOUS
    <2>4. o <= x
      BY <2>3
    <2>5. x <= x * m
      OBVIOUS
    <2>6. Scaled(use.overlap, d) = x * m /\ x * m \in Nat
      BY <1>3, <2>1, <2>2, <2>3 DEF Scaled
    <2> QED
      BY <2>2, <2>4, <2>5, <2>6
  <1> QED
    BY <1>2, <1>3

\* fixUTF8Chunk: an empty piece, or whole characters and all that there are.
LEMMA WholeFacts ==
  ASSUME Usable, NEW lo \in Int, NEW hi \in Int
  PROVE  \E x, y \in Int :
           /\ Whole(lo, hi) = <<x, y>>
           /\ \/ x = lo /\ y = lo
              \/ x \in use.cuts /\ y \in use.cuts /\ lo <= x /\ x <= y /\ y <= hi
           /\ \A a \in use.cuts : lo <= a /\ a <= hi => x <= a /\ a <= y
  <1> DEFINE kept == {k \in use.cuts : lo <= k /\ k <= hi}
  <1>1. CASE kept = {}
    <2>1. Whole(lo, hi) = <<lo, lo>>
      BY <1>1 DEF Whole
    <2> QED
      BY <1>1, <2>1
  <1>2. CASE kept # {}
    <2>1. kept \in SUBSET Nat /\ kept \in SUBSET use.cuts /\ IsFiniteSet(use.cuts)
      BY DEF Usable
    <2>2. Whole(lo, hi) = <<Min(kept), Max(kept)>>
      BY <1>2 DEF Whole
    <2>3. /\ \A a \in kept : lo <= a /\ a <= hi /\ a \in use.cuts
          /\ \A a \in use.cuts : lo <= a /\ a <= hi => a \in kept
      OBVIOUS
    <2> HIDE DEF kept
    <2>4. IsFiniteSet(kept)
      BY <2>1, FS_Subset
    <2>5. PICK x, y : x = Min(kept) /\ y = Max(kept)
      OBVIOUS
    <2>6. x \in kept /\ y \in kept /\ \A a \in kept : x <= a /\ a <= y
      BY <1>2, <2>1, <2>4, <2>5, MinIsLeast, MaxIsGreatest
    <2>7. x \in Int /\ y \in Int
      BY <2>1, <2>6
    <2> QED
      BY <2>2, <2>3, <2>5, <2>6, <2>7
  <1> QED
    BY <1>1, <1>2

\* The piece from..to is the k-th window of lo..hi: it begins in it and does not go
\* beyond its end; x..y is what is left of it, which is c.
Windowed(c, lo, hi, p, d, k, from, to, x, y) ==
  /\ from = lo + (k - 1) * (Scaled(use.size, d) - Scaled(use.overlap, d))
  /\ lo <= from /\ from <= to /\ to <= hi
  /\ to = from + Scaled(use.size, d) \/ to = hi
  /\ c = Chunk(<<x, y>>, p, d)
  /\ \/ x = from /\ y = from
     \/ x \in use.cuts /\ y \in use.cuts /\ from <= x /\ x <= y /\ y <= to
  /\ \A a \in use.cuts : from <= a /\ a <= to => x <= a /\ a <= y

WindowCount(lo, hi, d) ==
  IF hi - lo <= Scaled(use.size, d) THEN 1
  ELSE (hi - lo - 1) \div (Scaled(use.size, d) - Scaled(use.overlap, d)) + 1

LEMMA WindowLength ==
  ASSUME Usable, NEW lo \in Nat, NEW hi \in Nat, lo <= hi, NEW p \in Nat, NEW d \in Nat,
         NEW L, L = Level(lo, hi, p, d)
  PROVE  Len(L) = WindowCount(lo, hi, d)
  <1> DEFINE size == Scaled(use.size, d)
             step == size - Scaled(use.overlap, d)
             From(k) == lo + (k - 1) * step
             count == IF hi - lo <= size THEN 1 ELSE (hi - lo - 1) \div step + 1
             Window(k) == Whole(From(k), Min({From(k) + size, hi}))
  <1>1. size \in Nat \ {0} /\ step \in Nat \ {0}
    BY ScaledType
  <1>2. L = [k \in 1..count |-> Chunk(Window(k), p, d)]
    BY DEF Level
  <1>3. L \in Seq(ChunkType) /\ Len(L) \in Nat \ {0}
    <2>1. lo \in Int /\ hi \in Int
      OBVIOUS
    <2> QED
      BY <2>1, LevelTyped DEF NewLevel
  <1>4. count \in Nat
    <2>1. CASE hi - lo <= size
      BY <2>1
    <2>2. CASE ~(hi - lo <= size)
      <3> HIDE DEF size, step
      <3>1. hi - lo - 1 \in Nat
        BY <2>2, <1>1
      <3>2. (hi - lo - 1) \div step \in Nat
        BY <3>1, <1>1, Quotient
      <3> QED
        BY <2>2, <3>2
    <2> QED
      BY <2>1, <2>2
  <1>5. Len(L) = count
    <2> HIDE DEF count
    <2> QED
      BY <1>2, <1>3, <1>4
  <1>6. count = WindowCount(lo, hi, d)
    BY DEF WindowCount
  <1> HIDE DEF size, step, count, From, Window
  <1> QED
    BY <1>5, <1>6

LEMMA WindowFacts ==
  ASSUME Usable, NEW lo \in Nat, NEW hi \in Nat, lo <= hi, NEW p \in Nat, NEW d \in Nat,
         NEW L, L = Level(lo, hi, p, d)
  PROVE  /\ L \in Seq(ChunkType) /\ Len(L) \in Nat \ {0}
         /\ \A k \in 1..Len(L) :
              \E from, to, x, y \in Int : Windowed(L[k], lo, hi, p, d, k, from, to, x, y)
  <1> DEFINE size == Scaled(use.size, d)
             step == size - Scaled(use.overlap, d)
             From(k) == lo + (k - 1) * step
             count == IF hi - lo <= size THEN 1 ELSE (hi - lo - 1) \div step + 1
             Window(k) == Whole(From(k), Min({From(k) + size, hi}))
  <1>1. size \in Nat \ {0} /\ step \in Nat \ {0}
    BY ScaledType
  <1>2. L = [k \in 1..count |-> Chunk(Window(k), p, d)]
    BY DEF Level
  <1>3. L \in Seq(ChunkType) /\ Len(L) \in Nat \ {0}
    <2>1. lo \in Int /\ hi \in Int
      OBVIOUS
    <2> QED
      BY <2>1, LevelTyped DEF NewLevel
  <1>4. count \in Nat
    <2>1. CASE hi - lo <= size
      BY <2>1
    <2>2. CASE ~(hi - lo <= size)
      <3> HIDE DEF size, step
      <3>1. hi - lo - 1 \in Nat
        BY <2>2, <1>1
      <3>2. (hi - lo - 1) \div step \in Nat
        BY <3>1, <1>1, Quotient
      <3> QED
        BY <2>2, <3>2
    <2> QED
      BY <2>1, <2>2
  <1>5. Len(L) = count
    <2> HIDE DEF count
    <2> QED
      BY <1>2, <1>3, <1>4
  <1>6. ASSUME NEW k \in 1..count
        PROVE  \E from, to, x, y \in Int : Windowed(L[k], lo, hi, p, d, k, from, to, x, y)
    <2>1. k \in Nat /\ k - 1 \in Nat
      BY <1>4
    <2>2. PICK j \in Nat : j = k - 1
      BY <2>1
    <2>3. PICK s \in Nat \ {0} : s = step
      BY <1>1
    <2>4. j * s \in Nat /\ lo + j * s <= hi
      <3>1. j * s \in Nat
        OBVIOUS
      <3>2. CASE hi - lo <= size
        <4>1. j = 0
          BY <2>1, <2>2, <3>2
        <4> QED
          BY <4>1
      <3>3. CASE ~(hi - lo <= size)
        <4>1. PICK a \in Nat : a = hi - lo - 1
          <5> HIDE DEF size
          <5> QED
            BY <1>1, <3>3
        <4>2. PICK q \in Nat : q = a \div s /\ q * s \in Nat /\ q * s <= a
          BY Divided
        <4>3. j <= q
          BY <2>1, <2>2, <2>3, <3>3, <4>1, <4>2
        <4>4. j * s <= q * s
          <5>1. CASE j = q
            BY <5>1, <4>2
          <5>2. CASE j # q
            <6>1. j < q
              BY <4>3, <5>2
            <6> QED
              BY <4>2, <6>1, Multiplied
          <5> QED
            BY <5>1, <5>2
        <4> QED
          BY <3>1, <4>1, <4>2, <4>4
      <3> QED
        BY <3>1, <3>2, <3>3
    <2>5. PICK from \in Int : from = lo + (k - 1) * step /\ lo <= from /\ from <= hi
      <3>1. PICK f \in Int : f = lo + j * s /\ lo <= f /\ f <= hi
        BY <2>4
      <3> QED
        BY <2>2, <2>3, <3>1
    <2>6. PICK z \in Int : z = size /\ 0 < z
      BY <1>1
    <2>7. PICK to \in Int : to = Min({from + z, hi}) /\ from <= to /\ to <= hi /\ (to = from + z \/ to = hi)
      <3>1. PICK e \in Int : e = from + z /\ from < e
        BY <2>6
      <3>2. \E x \in {e, hi} : \A y \in {e, hi} : x <= y
        BY <3>1
      <3>3. Min({e, hi}) \in {e, hi} /\ \A y \in {e, hi} : Min({e, hi}) <= y
        BY <3>2 DEF Min
      <3>4. PICK m : m = Min({e, hi})
        OBVIOUS
      <3>5. m \in Int /\ from <= m /\ m <= hi /\ (m = e \/ m = hi)
        BY <2>5, <3>1, <3>3, <3>4
      <3> QED
        BY <3>1, <3>4, <3>5
    <2>8. Window(k) = Whole(from, to)
      BY <2>5, <2>6, <2>7
    <2>9. L[k] = Chunk(Whole(from, to), p, d)
      <3> HIDE DEF count, Window
      <3> QED
        BY <1>2, <2>8
    <2>10. PICK x, y \in Int :
             /\ Whole(from, to) = <<x, y>>
             /\ \/ x = from /\ y = from
                \/ x \in use.cuts /\ y \in use.cuts /\ from <= x /\ x <= y /\ y <= to
             /\ \A a \in use.cuts : from <= a /\ a <= to => x <= a /\ a <= y
      BY WholeFacts
    <2>11. /\ from = lo + (k - 1) * (Scaled(use.size, d) - Scaled(use.overlap, d))
           /\ to = from + Scaled(use.size, d) \/ to = hi
      BY <2>5, <2>6, <2>7
    <2>12. Windowed(L[k], lo, hi, p, d, k, from, to, x, y)
      <3> HIDE DEF size, step, count, From, Window
      <3> QED
        BY <2>5, <2>7, <2>9, <2>10, <2>11 DEF Windowed
    <2> QED
      BY <2>12
  <1> HIDE DEF size, step, count, From, Window
  <1> QED
    BY <1>3, <1>5, <1>6

LEMMA ChunkOf ==
  ASSUME Usable, NEW x \in Int, NEW y \in Int, NEW p \in Nat, NEW d \in Nat,
         NEW c, c = Chunk(<<x, y>>, p, d)
  PROVE  /\ c.lo = x /\ c.hi = y /\ c.parent = p /\ c.depth = d
         /\ c.leaf = (d >= use.maxDepth \/ y - x <= Scaled(use.size, d + 1))
         /\ ~c.leaf => d < use.maxDepth /\ x < y
  <1>1. /\ c.lo = x /\ c.hi = y /\ c.parent = p /\ c.depth = d
        /\ c.leaf = (d >= use.maxDepth \/ y - x <= Scaled(use.size, d + 1))
    BY DEF Chunk
  <1>2. Scaled(use.size, d + 1) \in Nat /\ use.maxDepth \in Nat
    BY ScaledType DEF Usable
  <1>3. ASSUME ~c.leaf PROVE d < use.maxDepth /\ x < y
    <2>1. ~(d >= use.maxDepth) /\ ~(y - x <= Scaled(use.size, d + 1))
      BY <1>1, <1>3
    <2> QED
      BY <1>2, <2>1
  <1> QED
    BY <1>1, <1>3

\* A chunk of the level d cut from lo..hi.
Laid(c, lo, hi, d) ==
  /\ lo <= c.lo /\ c.lo <= c.hi /\ c.hi <= hi
  /\ c.lo < c.hi => c.lo \in use.cuts /\ c.hi \in use.cuts
  /\ c.depth = d /\ (~c.leaf => d < use.maxDepth /\ c.lo < c.hi)

\* The chunks cut from lo..hi lie in it.
LEMMA LevelPlaced ==
  ASSUME Usable, NEW lo \in Nat, NEW hi \in Nat, lo <= hi, NEW p \in Nat, NEW d \in Nat,
         NEW L, L = Level(lo, hi, p, d), NEW k \in 1..Len(L)
  PROVE  Laid(L[k], lo, hi, d)
  <1>1. PICK from, to, x, y \in Int : Windowed(L[k], lo, hi, p, d, k, from, to, x, y)
    BY WindowFacts
  <1>2. /\ L[k].lo = x /\ L[k].hi = y /\ L[k].depth = d
        /\ ~L[k].leaf => d < use.maxDepth /\ x < y
    <2>1. L[k] = Chunk(<<x, y>>, p, d)
      BY <1>1 DEF Windowed
    <2> QED
      BY <2>1, ChunkOf
  <1>3. /\ lo <= x /\ x <= y /\ y <= hi
        /\ x < y => x \in use.cuts /\ y \in use.cuts
    BY <1>1 DEF Windowed
  <1> QED
    BY <1>2, <1>3 DEF Laid

\* A byte of a piece is in one of the chunks cut from it, if the overlap can catch
\* the character it belongs to.
LEMMA LevelCovers ==
  ASSUME Usable, Caught, NEW lo \in Nat, NEW hi \in Nat, lo <= hi,
         lo \in use.cuts, hi \in use.cuts,
         NEW p \in Nat, NEW d \in Nat, NEW L, L = Level(lo, hi, p, d),
         NEW b \in Nat, lo < b, b <= hi
  PROVE  \E k \in 1..Len(L) : b \in L[k].lo + 1..L[k].hi
  <1> DEFINE size == Scaled(use.size, d)
             back == Scaled(use.overlap, d)
             step == size - back
  <1>1. lo \in Nat /\ hi \in Nat /\ b \in Int /\ lo < b /\ b <= hi
    BY DEF Usable
  <1>2. size \in Nat \ {0} /\ back \in Nat /\ step \in Nat \ {0} /\ use.overlap \in Nat
        /\ use.overlap <= back
    BY ScaledType, ScaledUp DEF Usable
  <1>3. L \in Seq(ChunkType) /\ Len(L) \in Nat \ {0} /\ Len(L) = WindowCount(lo, hi, d)
    <2>1. Len(L) = WindowCount(lo, hi, d)
      BY WindowLength
    <2>2. L \in Seq(ChunkType) /\ Len(L) \in Nat \ {0}
      BY WindowFacts
    <2> QED
      BY <2>1, <2>2
  <1>4. PICK j, e \in use.cuts :
          /\ j < b /\ b <= e /\ j < e /\ lo <= j /\ e <= hi
          /\ \A i \in use.cuts : i <= j \/ e <= i
    <2> DEFINE below == {i \in use.cuts : i < b}
               above == {i \in use.cuts : b <= i}
    <2>1. /\ below \in SUBSET Nat /\ above \in SUBSET Nat /\ IsFiniteSet(use.cuts)
          /\ below \in SUBSET use.cuts /\ lo \in below /\ hi \in above
          /\ \A i \in use.cuts : i \in below \/ i \in above
          /\ \A i \in below : i < b /\ i \in use.cuts
          /\ \A i \in above : b <= i /\ i \in use.cuts
      BY <1>1 DEF Usable
    <2> HIDE DEF below, above
    <2>2. IsFiniteSet(below)
      BY <2>1, FS_Subset
    <2>3. PICK j, e : j = Max(below) /\ e = Min(above)
      OBVIOUS
    <2>4. j \in below /\ \A i \in below : i <= j
      BY <2>1, <2>2, <2>3, MaxIsGreatest
    <2>5. e \in above /\ \A i \in above : e <= i
      BY <2>1, <2>3, MinIsLeast
    <2>6. j \in Nat /\ e \in Nat /\ j < b /\ b <= e /\ lo <= j /\ e <= hi
      BY <2>1, <2>4, <2>5
    <2>7. j \in use.cuts /\ e \in use.cuts /\ j < e
      BY <1>1, <2>1, <2>4, <2>5, <2>6
    <2>8. \A i \in use.cuts : i <= j \/ e <= i
      BY <2>1, <2>4, <2>5
    <2> QED
      BY <2>6, <2>7, <2>8
  <1>5. j \in Nat /\ e \in Nat /\ e - j <= use.overlap + 1
    BY <1>4 DEF Usable, Caught
  <1>6. PICK k \in 1..Len(L) :
          \A from, to, x, y \in Int : Windowed(L[k], lo, hi, p, d, k, from, to, x, y) =>
            from <= j /\ e <= to
    <2>1. CASE hi - lo <= size
      <3>1. 1 \in 1..Len(L)
        BY <1>3
      <3>2. ASSUME NEW from \in Int, NEW to \in Int, NEW x \in Int, NEW y \in Int,
                   Windowed(L[1], lo, hi, p, d, 1, from, to, x, y)
            PROVE  from <= j /\ e <= to
        <4>1. from = lo + (1 - 1) * step /\ (to = from + size \/ to = hi)
          BY <3>2 DEF Windowed
        <4>2. (1 - 1) * step = 0
          BY <1>2
        <4> HIDE DEF size, step, back
        <4> QED
          BY <1>1, <1>2, <1>4, <1>5, <2>1, <4>1, <4>2
      <3> QED
        BY <3>1, <3>2
    <2>2. CASE ~(hi - lo <= size)
      <3>1. PICK s \in Nat \ {0} : s = step
        BY <1>2
      <3>2. PICK a \in Nat, m \in Nat : a = hi - lo - 1 /\ m = j - lo /\ m <= a
        <4> HIDE DEF size
        <4> QED
          BY <1>1, <1>2, <1>4, <1>5, <2>2
      <3>3. PICK q \in Nat : q = a \div s /\ a < q * s + s /\ q * s \in Nat
        BY Divided
      <3>4. PICK r \in Nat : r * s \in Nat /\ r * s <= m /\ m < r * s + s
        BY Divided
      <3>5. Len(L) = q + 1
        BY <1>3, <2>2, <3>1, <3>2, <3>3 DEF WindowCount
      <3>6. r <= q
        <4> SUFFICES ASSUME q < r PROVE FALSE
          OBVIOUS
        <4>1. PICK t \in Nat : t = q + 1 /\ t * s = q * s + s
          OBVIOUS
        <4>2. t * s <= r * s
          <5>1. CASE t = r
            BY <5>1, <3>4
          <5>2. CASE t # r
            <6>1. t < r
              BY <4>1, <5>2
            <6> QED
              BY <3>4, <6>1, Multiplied
          <5> QED
            BY <5>1, <5>2
        <4> QED
          BY <3>2, <3>3, <3>4, <4>1, <4>2
      <3>7. PICK k \in 1..Len(L) : k = r + 1
        BY <3>5, <3>6
      <3>8. ASSUME NEW from \in Int, NEW to \in Int, NEW x \in Int, NEW y \in Int,
                   Windowed(L[k], lo, hi, p, d, k, from, to, x, y)
            PROVE  from <= j /\ e <= to
        <4>1. from = lo + (k - 1) * step /\ (to = from + size \/ to = hi)
          BY <3>8 DEF Windowed
        <4>2. from = lo + r * s
          BY <3>1, <3>7, <4>1
        <4>3. from <= j /\ j < from + s
          <5>1. PICK f \in Nat, rs \in Nat : f = from /\ rs = r * s /\ f = lo + rs
            BY <3>4, <4>2
          <5>2. rs <= j - lo /\ j - lo < rs + s
            BY <3>2, <3>4, <5>1
          <5> QED
            BY <1>5, <5>1, <5>2
        <4>4. e <= from + size
          <5>1. PICK z \in Nat, o \in Nat : z = size /\ o = back
            BY <1>2
          <5>2. s = z - o
            BY <3>1, <5>1
          <5>3. PICK v \in Nat : v = use.overlap /\ v <= o
            BY <1>2, <5>1
          <5>4. e - j <= v + 1
            BY <1>5, <5>3
          <5>5. e <= from + z
            BY <1>5, <4>3, <5>2, <5>3, <5>4
          <5> QED
            BY <5>1, <5>5
        <4> HIDE DEF size
        <4> QED
          BY <1>4, <4>1, <4>3, <4>4
      <3> QED
        BY <3>8
    <2> QED
      BY <2>1, <2>2
  <1>7. PICK from, to, x, y \in Int : Windowed(L[k], lo, hi, p, d, k, from, to, x, y)
    BY <1>1, WindowFacts
  <1>8. from <= j /\ e <= to
    BY <1>6, <1>7
  <1>9. x <= j /\ e <= y
    <2>1. \A a \in use.cuts : from <= a /\ a <= to => x <= a /\ a <= y
      BY <1>7 DEF Windowed
    <2> QED
      BY <1>4, <1>5, <1>8, <2>1
  <1>10. L[k].lo = x /\ L[k].hi = y
    <2>1. L[k] = Chunk(<<x, y>>, p, d)
      BY <1>7 DEF Windowed
    <2>2. PICK c : c = L[k]
      OBVIOUS
    <2>3. c.lo = x /\ c.hi = y
      BY <2>1, <2>2, ChunkOf
    <2> QED
      BY <2>2, <2>3
  <1> QED
    BY <1>1, <1>4, <1>5, <1>9, <1>10

\* A step leaves the place of a chunk in the text and in the tree alone.
Stays(k) ==
  /\ tree'[k].lo = tree[k].lo /\ tree'[k].hi = tree[k].hi /\ tree'[k].depth = tree[k].depth
  /\ tree'[k].parent = tree[k].parent /\ tree'[k].leaf = tree[k].leaf

LEMMA SucceedStays ==
  ASSUME Typed, NEW c \in Chunks, Succeed(c)
  PROVE  \A k \in Chunks : Stays(k)
  <1> SUFFICES ASSUME NEW k \in Chunks PROVE Stays(k)
    OBVIOUS
  <1>1. PICK q \in ChunkType : q = tree[k]
    BY ChunkFields DEF Typed
  <1>2. PICK a, s : /\ a = (IF k = c THEN "done" ELSE q.call)
                    /\ s = (IF tree[c].leaf /\ k \in CompletedBy[c] THEN "completed" ELSE q.status)
    OBVIOUS
  <1>3. a \in CallSet /\ s \in StatusSet
    <2>1. q.call \in CallSet /\ q.status \in StatusSet
      BY DEF ChunkType
    <2> QED
      BY <1>2, <2>1 DEF CallSet, StatusSet
  <1>4. PICK e : e = tree'[k]
    OBVIOUS
  <1>5. e = [q EXCEPT !.call = a, !.status = s]
    BY <1>1, <1>2, <1>4 DEF Succeed
  <1>6. e.lo = q.lo /\ e.hi = q.hi /\ e.depth = q.depth /\ e.parent = q.parent /\ e.leaf = q.leaf
    BY <1>1, <1>3, <1>5 DEF ChunkType
  <1> QED
    BY <1>1, <1>4, <1>6 DEF Stays

LEMMA RefuseStays ==
  ASSUME Typed, NEW c \in Chunks, Refuse(c)
  PROVE  \A k \in Chunks : Stays(k)
  <1> SUFFICES ASSUME NEW k \in Chunks PROVE Stays(k)
    OBVIOUS
  <1>1. PICK q \in ChunkType : q = tree[k]
    BY ChunkFields DEF Typed
  <1>2. tree' = [tree EXCEPT ![c] = [@ EXCEPT !.call = "refused", !.status = "failed"]]
    BY DEF Refuse
  <1>3. CASE k = c
    <2>1. PICK a, s, e : a = "refused" /\ s = "failed" /\ e = tree'[k]
      OBVIOUS
    <2>2. e = [q EXCEPT !.call = a, !.status = s]
      BY <1>1, <1>2, <1>3, <2>1 DEF Chunks
    <2>3. a \in CallSet /\ s \in StatusSet
      BY <2>1 DEF CallSet, StatusSet
    <2>4. e.lo = q.lo /\ e.hi = q.hi /\ e.depth = q.depth /\ e.parent = q.parent /\ e.leaf = q.leaf
      BY <1>1, <2>2, <2>3 DEF ChunkType
    <2> QED
      BY <1>1, <2>1, <2>4 DEF Stays
  <1>4. CASE k # c
    <2>1. tree'[k] = tree[k]
      BY <1>2, <1>4 DEF Chunks
    <2> QED
      BY <2>1 DEF Stays
  <1> QED
    BY <1>3, <1>4

\* The same of an update of one field of the chunk x.
LEMMA UpdateStays ==
  ASSUME Typed, NEW x \in Chunks, NEW s \in StatusSet, NEW a \in CallSet, NEW t,
         t = [tree EXCEPT ![x].status = s] \/ t = [tree EXCEPT ![x].call = a],
         NEW k \in Chunks
  PROVE  t[k].lo = tree[k].lo /\ t[k].hi = tree[k].hi /\ t[k].depth = tree[k].depth
         /\ t[k].parent = tree[k].parent /\ t[k].leaf = tree[k].leaf
  <1>1. PICK q \in ChunkType : q = tree[k]
    BY ChunkFields DEF Typed
  <1>2. CASE k = x
    <2>1. PICK e : e = t[k]
      OBVIOUS
    <2>2. e = [q EXCEPT !.status = s] \/ e = [q EXCEPT !.call = a]
      BY <1>1, <1>2, <2>1 DEF Chunks
    <2>3. e.lo = q.lo /\ e.hi = q.hi /\ e.depth = q.depth /\ e.parent = q.parent /\ e.leaf = q.leaf
      BY <1>1, <2>2 DEF ChunkType
    <2> QED
      BY <1>1, <2>1, <2>3
  <1>3. CASE k # x
    <2>1. t[k] = tree[k]
      BY <1>3 DEF Chunks
    <2> QED
      BY <2>1
  <1> QED
    BY <1>2, <1>3

LEMMA AcquireStays ==
  ASSUME Typed, Shape, Acquire
  PROVE  \A k \in Chunks : Stays(k)
  <1>1. PICK x \in Chunks : tree' = [tree EXCEPT ![x].call = "calling"]
    BY AcquireTree DEF Acquire
  <1>2. "calling" \in CallSet /\ "failed" \in StatusSet
    BY DEF CallSet, StatusSet
  <1>3. PICK t : t = tree'
    OBVIOUS
  <1>4. \A k \in Chunks : t[k].lo = tree[k].lo /\ t[k].hi = tree[k].hi /\ t[k].depth = tree[k].depth
         /\ t[k].parent = tree[k].parent /\ t[k].leaf = tree[k].leaf
    BY <1>1, <1>2, <1>3, UpdateStays
  <1> QED
    BY <1>3, <1>4 DEF Stays

LEMMA RaiseStays ==
  ASSUME Typed, Shape, Raise
  PROVE  Chunks' = Chunks /\ \A k \in Chunks : Stays(k)
  <1>1. CASE Len(frames) = 1
    BY <1>1 DEF Raise, Stays, Chunks
  <1>2. CASE Len(frames) # 1
    <2>1. Chunks' = Chunks
      BY <1>2, RaiseFacts
    <2>2. PICK x : x = tree[Top.first].parent
      OBVIOUS
    <2>3. tree' = [tree EXCEPT ![x].status = "failed"]
      BY <1>2, <2>2 DEF Raise
    <2>4. CASE x \in Chunks
      <3>1. "calling" \in CallSet /\ "failed" \in StatusSet
        BY DEF CallSet, StatusSet
      <3>2. PICK t : t = tree'
        OBVIOUS
      <3>3. \A k \in Chunks : t[k].lo = tree[k].lo /\ t[k].hi = tree[k].hi
             /\ t[k].depth = tree[k].depth
             /\ t[k].parent = tree[k].parent /\ t[k].leaf = tree[k].leaf
        BY <2>3, <2>4, <3>1, <3>2, UpdateStays
      <3> QED
        BY <2>1, <3>2, <3>3 DEF Stays
    <2>5. CASE x \notin Chunks
      <3>1. \A k \in Chunks : tree'[k] = tree[k]
        BY <2>3, <2>5 DEF Chunks
      <3> QED
        BY <2>1, <3>1 DEF Stays
    <2> QED
      BY <2>4, <2>5
  <1> QED
    BY <1>1, <1>2

\* A step that leaves all chunks in their places and adds none.
LEMMA PlacedKept ==
  ASSUME Typed, Placed, Covered, use' = use, Chunks' = Chunks, \A k \in Chunks : Stays(k),
         outcome = "new" <=> outcome' = "new", tree # <<>> => tree' # <<>>
  PROVE  Placed' /\ Covered'
  <1>1. Placed'
    <2>1. \A c \in Chunks :
            /\ tree'[c].lo = tree[c].lo /\ tree'[c].hi = tree[c].hi
            /\ tree'[c].depth = tree[c].depth /\ tree'[c].leaf = tree[c].leaf
      BY DEF Stays
    <2>2. PICK m : m = Max(use.cuts)
      OBVIOUS
    <2>3. PICK C : C = Chunks
      OBVIOUS
    <2>4. \A c \in C :
            /\ 0 <= tree'[c].lo /\ tree'[c].lo <= tree'[c].hi /\ tree'[c].hi <= m
            /\ tree'[c].lo < tree'[c].hi => tree'[c].lo \in use.cuts /\ tree'[c].hi \in use.cuts
            /\ 1 <= tree'[c].depth /\ tree'[c].depth <= use.maxDepth
            /\ ~tree'[c].leaf => tree'[c].depth < use.maxDepth /\ tree'[c].lo < tree'[c].hi
      BY <2>1, <2>2, <2>3 DEF Placed
    <2> QED
      BY <2>2, <2>3, <2>4 DEF Placed
  <1>2. Caught' = Caught /\ All' = All
    BY DEF Caught, All
  <1>3. \A p : Below(p)' = Below(p)
    BY DEF Below, Stays
  <1>4. \A c \in Chunks : Extent(tree[c])' = Extent(tree[c])
    BY DEF Extent, Stays
  <1>5. \A p : Bytes({tree[k] : k \in Below(p)})' = Bytes({tree[k] : k \in Below(p)})
    <2> SUFFICES ASSUME NEW p
                 PROVE  Bytes({tree[k] : k \in Below(p)})' = Bytes({tree[k] : k \in Below(p)})
      OBVIOUS
    <2>1. PICK B : B = Below(p)
      OBVIOUS
    <2>2. B \subseteq Chunks /\ Below(p)' = B
      BY <1>3, <2>1 DEF Below
    <2>3. \A k \in B : tree'[k].lo + 1..tree'[k].hi = tree[k].lo + 1..tree[k].hi
      BY <2>2 DEF Stays
    <2>4. PICK S, T : S = {tree'[k] : k \in B} /\ T = {tree[k] : k \in B}
      OBVIOUS
    <2>5. PICK U, V : U = UNION {c.lo + 1..c.hi : c \in S} /\ V = UNION {c.lo + 1..c.hi : c \in T}
      OBVIOUS
    <2>6. ASSUME NEW x PROVE x \in U <=> x \in V
      <3>1. x \in U <=> \E k \in B : x \in tree'[k].lo + 1..tree'[k].hi
        BY <2>4, <2>5
      <3>2. x \in V <=> \E k \in B : x \in tree[k].lo + 1..tree[k].hi
        BY <2>4, <2>5
      <3> QED
        BY <2>3, <3>1, <3>2
    <2>7. U = V
      BY <2>6
    <2> QED
      BY <2>1, <2>2, <2>4, <2>5, <2>7 DEF Bytes
  <1>6. Covered'
    <2> SUFFICES ASSUME Caught'
                 PROVE  (/\ outcome # "new" => All \subseteq Bytes({tree[k] : k \in Below(0)})
                         /\ \A c \in Chunks : Below(c) # {} =>
                              Extent(tree[c]) \subseteq Bytes({tree[k] : k \in Below(c)}))'
      BY DEF Covered
    <2>1. /\ outcome # "new" => All \subseteq Bytes({tree[k] : k \in Below(0)})
          /\ \A c \in Chunks : Below(c) # {} =>
               Extent(tree[c]) \subseteq Bytes({tree[k] : k \in Below(c)})
      BY <1>2 DEF Covered
    <2> QED
      BY <1>2, <1>3, <1>4, <1>5, <2>1
  <1> QED
    BY <1>1, <1>6

LEMMA RowCount ==
  ASSUME NEW S, NEW a \in Int, NEW b \in Int, NEW T, T \subseteq S \cap (a..b)
  PROVE  /\ IsFiniteSet(S \cap (a..b)) /\ Cardinality(S \cap (a..b)) \in Nat
         /\ IsFiniteSet(T) /\ Cardinality(T) \in Nat /\ Cardinality(T) <= Cardinality(S \cap (a..b))
  <1>1. IsFiniteSet(a..b)
    BY FS_Interval
  <1>2. IsFiniteSet(S \cap (a..b))
    BY <1>1, FS_Subset
  <1> QED
    BY <1>2, FS_Subset, FS_CardinalityType

\* One that starts no callback and no level.
LEMMA NestedKept ==
  ASSUME Typed, Shape, Nested, use.concurrent \in Nat, use' = use,
         \A k \in Chunks : Stays(k), Levels' \subseteq Levels, Calling' \subseteq Calling,
         \A i \in Levels' : frames'[i].first = frames[i].first /\ frames'[i].last = frames[i].last
  PROVE  Nested'
  <1> SUFFICES ASSUME NEW i \in Levels'
               PROVE  /\ \A c \in Row(i)' : tree'[c].depth = i
                      /\ Cardinality(Calling' \cap Row(i)') <= use'.concurrent
    BY DEF Nested
  <1>1. i \in Levels /\ Row(i)' = Row(i)
    BY DEF Row
  <1>2. \A c \in Row(i) : tree[c].depth = i /\ c \in Chunks
    BY <1>1, RowFacts DEF Nested
  <1>3. \A c \in Row(i)' : tree'[c].depth = i
    BY <1>1, <1>2 DEF Stays
  <1>4. Cardinality(Calling \cap Row(i)) <= use.concurrent
    BY <1>1 DEF Nested
  <1>5. PICK a, b \in Nat : Row(i) = a..b
    <2>1. frames[i].first \in Nat /\ frames[i].last \in Nat
      BY <1>1, RowFacts
    <2> QED
      BY <2>1 DEF Row
  <1>6. PICK R, C, D : R = Row(i) /\ C = Calling /\ D = Calling'
    OBVIOUS
  <1>7. Cardinality(D \cap R) <= Cardinality(C \cap R) /\ Cardinality(D \cap R) \in Nat
        /\ Cardinality(C \cap R) \in Nat
    <2>1. a \in Int /\ b \in Int /\ D \cap (a..b) \subseteq C \cap (a..b)
      BY <1>5, <1>6
    <2> QED
      BY <1>5, <1>6, <2>1, RowCount
  <1>8. Cardinality(D \cap R) <= use.concurrent
    BY <1>4, <1>6, <1>7
  <1> QED
    BY <1>1, <1>3, <1>6, <1>8

LEMMA AcquireNested ==
  ASSUME Typed, Shape, Nested, use.concurrent \in Nat, Acquire
  PROVE  Nested'
  <1>1. /\ use' = use /\ outcome = "running" /\ Cardinality(Running) < use.concurrent
    BY DEF Acquire, At
  <1>2. PICK n, x : n = Len(frames) /\ x = Top.next
    OBVIOUS
  <1>3. /\ x \in Row(n) /\ x \in Chunks /\ n \in Levels /\ Chunks' = Chunks
        /\ \A k \in Chunks : tree'[k].call = (IF k = x THEN "calling" ELSE tree[k].call)
    BY <1>1, <1>2, AcquireTree, TopFacts
  <1>4. \A k \in Chunks : Stays(k)
    BY AcquireStays
  <1>5. Calling' = Calling \cup {x}
    BY <1>3 DEF Calling
  <1>6. /\ Levels' = Levels
        /\ \A i \in Levels : frames'[i].first = frames[i].first /\ frames'[i].last = frames[i].last
    <2>1. PICK f \in FrameType : SetTop(f) /\ f.first = Top.first /\ f.last = Top.last
      BY AcquireTop
    <2>2. /\ Levels' = Levels /\ frames'[Len(frames)] = f /\ Top = frames[Len(frames)]
          /\ \A i \in Levels : i # Len(frames) => frames'[i] = frames[i]
      BY <1>1, <2>1, SetTopFacts, TopFacts
    <2> QED
      BY <2>1, <2>2
  <1> SUFFICES ASSUME NEW i \in Levels
               PROVE  /\ \A c \in Row(i)' : tree'[c].depth = i
                      /\ Cardinality(Calling' \cap Row(i)') <= use'.concurrent
    BY <1>6 DEF Nested
  <1>7. Row(i)' = Row(i)
    BY <1>6 DEF Row
  <1>8. \A c \in Row(i)' : tree'[c].depth = i
    <2>1. \A c \in Row(i) : tree[c].depth = i /\ c \in Chunks
      BY RowFacts DEF Nested
    <2> QED
      BY <1>4, <1>7, <2>1 DEF Stays
  <1>9. Cardinality(Calling' \cap Row(i)) <= use.concurrent
    <2>1. CASE i = n
      <3>1. PICK R : R = Calling \cap Row(n)
        OBVIOUS
      <3>2. Running = R
        <4>1. Top.first..Top.last = Row(n) /\ Row(n) \subseteq Chunks
          BY <1>1, <1>2, <1>3, TopFacts, RowFacts
        <4> QED
          BY <3>1, <4>1 DEF Running, Calling
      <3>3. IsFiniteSet(R) /\ Cardinality(R) \in Nat
        <4>1. PICK a, b \in Int : Row(n) = a..b
          <5>1. frames[n].first \in Nat /\ frames[n].last \in Nat
            BY <1>3, RowFacts
          <5> QED
            BY <5>1 DEF Row
        <4> QED
          BY <3>1, <4>1, RowCount
      <3>4. Calling' \cap Row(i) = R \cup {x}
        BY <1>3, <1>5, <2>1, <3>1
      <3>5. Cardinality(R \cup {x}) <= Cardinality(R) + 1 /\ Cardinality(R \cup {x}) \in Nat
        <4>1. Cardinality(R \cup {x}) = IF x \in R THEN Cardinality(R) ELSE Cardinality(R) + 1
          BY <3>3, FS_AddElement
        <4> QED
          BY <3>3, <4>1
      <3>6. PICK m, k \in Nat : m = Cardinality(R) /\ k = Cardinality(R \cup {x})
        BY <3>3, <3>5
      <3>7. m < use.concurrent /\ k <= m + 1
        BY <1>1, <3>2, <3>5, <3>6
      <3>8. k <= use.concurrent
        BY <3>7
      <3> QED
        BY <3>4, <3>6, <3>8
    <2>2. CASE i # n
      <3>1. x \notin Row(i)
        BY <1>3, <2>2, RowsApart
      <3>2. Calling' \cap Row(i) = Calling \cap Row(i)
        BY <1>5, <3>1
      <3> QED
        BY <3>2 DEF Nested
    <2> QED
      BY <2>1, <2>2
  <1> QED
    BY <1>1, <1>7, <1>8, <1>9

LEMMA BeginLayout ==
  ASSUME Typed, Shape, use.concurrent \in Nat, 1 <= use.maxDepth, Begin
  PROVE  Layout'
  <1>1. /\ use' = use /\ outcome' = "running" /\ tree' = Level(0, Max(use.cuts), 0, 1)
    BY DEF Begin
  <1>2. PICK L, h : L = tree' /\ h = Max(use.cuts)
    OBVIOUS
  <1>3. Usable /\ h \in Nat /\ h \in use.cuts /\ 0 \in use.cuts
    <2>1. Usable /\ 0 \in use.cuts /\ use.cuts \in SUBSET Nat /\ IsFiniteSet(use.cuts)
      BY DEF Typed, Usable
    <2> QED
      BY <1>2, <2>1, MaxIsGreatest
  <1>4. /\ L \in Seq(ChunkType) /\ Len(L) \in Nat \ {0} /\ Chunks' = 1..Len(L)
        /\ \A k \in Chunks' : L[k].parent = 0 /\ L[k].call = "new"
        /\ frames' = <<Frame(1, Len(L))>>
    BY <1>2, BeginFacts
  <1>5. L = Level(0, h, 0, 1) /\ 0 \in Nat /\ 1 \in Nat /\ 0 <= h
    BY <1>1, <1>2, <1>3
  <1>6. \A k \in Chunks' :
          /\ 0 <= L[k].lo /\ L[k].lo <= L[k].hi /\ L[k].hi <= h
          /\ L[k].lo < L[k].hi => L[k].lo \in use.cuts /\ L[k].hi \in use.cuts
          /\ L[k].depth = 1 /\ (~L[k].leaf => 1 < use.maxDepth /\ L[k].lo < L[k].hi)
    <2>1. ASSUME NEW k \in Chunks' PROVE Laid(L[k], 0, h, 1)
      BY <1>3, <1>4, <1>5, LevelPlaced
    <2> QED
      BY <2>1 DEF Laid
  <1>7. Placed'
    <2>1. L # <<>>
      BY <1>4
    <2>2. \A k \in Chunks' :
            /\ 0 <= L[k].lo /\ L[k].lo <= L[k].hi /\ L[k].hi <= h
            /\ L[k].lo < L[k].hi => L[k].lo \in use.cuts /\ L[k].hi \in use.cuts
            /\ 1 <= L[k].depth /\ L[k].depth <= use.maxDepth
            /\ ~L[k].leaf => L[k].depth < use.maxDepth /\ L[k].lo < L[k].hi
      BY <1>6
    <2> QED
      BY <1>1, <1>2, <2>1, <2>2 DEF Placed
  <1>8. Nested'
    <2>1. Levels' = {1} /\ Row(1)' = Chunks'
      BY <1>4 DEF Levels, Row, Frame
    <2>2. Calling' = {}
      BY <1>2, <1>4 DEF Calling
    <2>3. Calling' \cap Row(1)' = {} /\ Cardinality({}) = 0
      BY <2>2, FS_EmptySet
    <2>4. \A c \in Row(1)' : tree'[c].depth = 1
      BY <1>2, <1>6, <2>1
    <2>5. Cardinality(Calling' \cap Row(1)') <= use'.concurrent
      BY <1>1, <2>3
    <2> QED
      BY <2>1, <2>4, <2>5 DEF Nested
  <1>9. Covered'
    <2> SUFFICES ASSUME Caught'
                 PROVE  (/\ outcome # "new" => All \subseteq Bytes({tree[k] : k \in Below(0)})
                         /\ \A c \in Chunks : Below(c) # {} =>
                              Extent(tree[c]) \subseteq Bytes({tree[k] : k \in Below(c)}))'
      BY DEF Covered
    <2>1. Caught
      BY <1>1 DEF Caught
    <2>2. Below(0)' = Chunks' /\ \A c \in Chunks' : Below(c)' = {}
      <3>1. \A k \in Chunks' : tree'[k].parent = 0
        BY <1>2, <1>4
      <3>2. \A c \in Chunks' : c # 0
        BY <1>4
      <3> QED
        BY <3>1, <3>2 DEF Below
    <2>3. ASSUME NEW b \in 1..h PROVE \E k \in Chunks' : b \in L[k].lo + 1..L[k].hi
      <3>1. b \in Nat /\ 0 < b /\ b <= h
        BY <1>3
      <3> QED
        BY <1>3, <1>4, <1>5, <2>1, <3>1, LevelCovers
    <2>4. All' = 1..h
      BY <1>1, <1>2 DEF All
    <2>5. All' \subseteq Bytes({tree[k] : k \in Below(0)})'
      <3>1. 1..h \subseteq UNION {c.lo + 1..c.hi : c \in {L[k] : k \in Chunks'}}
        BY <2>3
      <3>2. Bytes({tree[k] : k \in Below(0)})' = UNION {c.lo + 1..c.hi : c \in {L[k] : k \in Chunks'}}
        BY <1>2, <2>2 DEF Bytes
      <3> QED
        BY <2>4, <3>1, <3>2
    <2> QED
      BY <2>2, <2>5
  <1> QED
    BY <1>7, <1>8, <1>9 DEF Layout

\* The chunk c that Descend cuts, and the level L it is cut into.
LEMMA DescendPlaces ==
  ASSUME Typed, Shape, Placed, Descend
  PROVE  \E n \in Levels : \E c \in Row(n) :
           /\ n = Len(frames) /\ Descended(n, c) /\ \A k \in Chunks : Stays(k)
           /\ Usable /\ tree[c].lo \in Nat /\ tree[c].hi \in Nat /\ tree[c].lo < tree[c].hi
           /\ tree[c].lo \in use.cuts /\ tree[c].hi \in use.cuts
           /\ tree[c].depth < use.maxDepth /\ tree[c].depth \in Nat
           /\ Len(tree') = Len(tree) + Len(Cut(c))
           /\ \A k \in 1..Len(Cut(c)) : Len(tree) + k \in Chunks' /\ tree'[Len(tree) + k] = Cut(c)[k]
           /\ \A k \in Chunks' : k \notin Chunks => k - Len(tree) \in 1..Len(Cut(c))
  <1>1. PICK n, c : n \in Levels /\ c \in Row(n) /\ Descended(n, c)
    BY DescendFacts
  <1>2. n = Len(frames) /\ Chunks' = Chunks \cup (Len(tree) + 1..Len(tree')) /\ c \in Chunks
        /\ ~tree[c].leaf
    BY <1>1 DEF Descended
  <1>3. Usable /\ tree[c].lo \in Nat /\ tree[c].hi \in Nat /\ tree[c].lo < tree[c].hi
        /\ tree[c].lo \in use.cuts /\ tree[c].hi \in use.cuts
        /\ tree[c].depth < use.maxDepth /\ tree[c].depth \in Nat
    <2>1. tree[c].lo < tree[c].hi /\ tree[c].depth < use.maxDepth
          /\ tree[c].lo \in use.cuts /\ tree[c].hi \in use.cuts
      BY <1>2 DEF Placed
    <2>2. Usable /\ use.cuts \subseteq Nat
      BY DEF Typed, Usable
    <2> QED
      BY <1>2, <2>1, <2>2, ChunkFields DEF Typed
  <1>4. PICK t : t = [tree EXCEPT ![c].status = "processing"]
    OBVIOUS
  <1>5. PICK x : x = Min(Large)
    OBVIOUS
  <1>6. x = c
    <2>1. tree' = [tree EXCEPT ![x].status = "processing"] \o Cut(x) /\ x \in Chunks
          /\ x \in Row(n) /\ NewLevel(Cut(x), x) /\ Top.next <= x /\ ~tree[x].leaf
      BY <1>2, <1>5, DescendChunk
    <2>2. \A k \in Row(n) : Top.next <= k /\ k < c => tree[k].leaf
      BY <1>1 DEF Descended
    <2>3. \A k \in Row(n) : Top.next <= k /\ k < x => tree[k].leaf
      BY <1>2, <1>5, DescendChunk
    <2>4. ~(x < c) /\ ~(c < x)
      <3>1. Top.next <= c
        BY <1>1 DEF Descended
      <3> QED
        BY <1>1, <1>2, <2>1, <2>2, <2>3, <3>1
    <2>5. x \in Nat /\ c \in Nat
      BY <1>1, <2>1, RowFacts
    <2> QED
      BY <2>4, <2>5
  <1>7. tree' = t \o Cut(c) /\ NewLevel(Cut(c), c)
    BY <1>4, <1>5, <1>6, DescendChunk
  <1>8. PICK L : L = Cut(c)
    OBVIOUS
  <1>9. t \in Seq(ChunkType) /\ Len(t) = Len(tree) /\ DOMAIN t = Chunks
    <2>1. "processing" \in StatusSet
      BY DEF StatusSet
    <2> QED
      BY <1>2, <1>4, <2>1, StatusTree
  <1>10. L \in Seq(ChunkType) /\ Len(L) \in Nat /\ Len(tree) \in Nat /\ Chunks = 1..Len(tree)
    BY <1>7, <1>8 DEF NewLevel, Typed, Chunks
  <1>11. PICK N, M \in Nat : N = Len(tree) /\ M = Len(L)
    BY <1>10
  <1>12. tree' = t \o L /\ Len(t) = N
    BY <1>7, <1>8, <1>9, <1>11
  <1>13. Len(tree') = N + M /\ (\A k \in 1..N : tree'[k] = t[k]) /\ \A k \in 1..M : tree'[N + k] = L[k]
    <2>1. t \in Seq(ChunkType) /\ L \in Seq(ChunkType) /\ Len(t) = N /\ Len(L) = M
      BY <1>9, <1>10, <1>11, <1>12
    <2>2. Len(t \o L) = N + M
      BY <2>1
    <2>3. \A k \in 1..N : (t \o L)[k] = t[k]
      BY <2>1
    <2>4. ASSUME NEW k \in 1..M PROVE (t \o L)[N + k] = L[k]
      <3>1. N + k \in 1..N + M /\ ~(N + k <= N) /\ N + k - N = k
        OBVIOUS
      <3> QED
        BY <2>1, <3>1
    <2> QED
      BY <1>12, <2>2, <2>3, <2>4
  <1>14. Chunks' = 1..N + M
    BY <1>10, <1>11, <1>13, <1>2
  <1>15. ASSUME NEW k \in Chunks PROVE Stays(k)
    <2>1. "processing" \in StatusSet /\ "calling" \in CallSet
      BY DEF StatusSet, CallSet
    <2>2. t[k].lo = tree[k].lo /\ t[k].hi = tree[k].hi /\ t[k].depth = tree[k].depth
          /\ t[k].parent = tree[k].parent /\ t[k].leaf = tree[k].leaf
      BY <1>2, <1>4, <2>1, UpdateStays
    <2>3. tree'[k] = t[k]
      BY <1>10, <1>11, <1>13
    <2> QED
      BY <2>2, <2>3 DEF Stays
  <1>16. \A k \in 1..M : N + k \in Chunks' /\ tree'[N + k] = L[k]
    BY <1>13, <1>14
  <1>17. \A k \in Chunks' : k \notin Chunks => k - N \in 1..M
    BY <1>10, <1>11, <1>14
  <1> QED
    BY <1>1, <1>2, <1>3, <1>8, <1>11, <1>13, <1>15, <1>16, <1>17

LEMMA DescendLayout ==
  ASSUME Typed, Shape, Layout, use.concurrent \in Nat, Descend
  PROVE  Layout'
  <1>1. PICK n, c :
           /\ n \in Levels /\ c \in Row(n) /\ n = Len(frames) /\ Descended(n, c) /\ \A k \in Chunks : Stays(k)
           /\ Usable /\ tree[c].lo \in Nat /\ tree[c].hi \in Nat /\ tree[c].lo < tree[c].hi
           /\ tree[c].lo \in use.cuts /\ tree[c].hi \in use.cuts
           /\ tree[c].depth < use.maxDepth /\ tree[c].depth \in Nat
           /\ Len(tree') = Len(tree) + Len(Cut(c))
           /\ \A k \in 1..Len(Cut(c)) : Len(tree) + k \in Chunks' /\ tree'[Len(tree) + k] = Cut(c)[k]
           /\ \A k \in Chunks' : k \notin Chunks => k - Len(tree) \in 1..Len(Cut(c))
    BY DescendPlaces DEF Layout
  <1>2. use' = use /\ outcome' = outcome /\ outcome = "running"
    BY DescendChunk
  <1>3. PICK lo, hi, d \in Nat : lo = tree[c].lo /\ hi = tree[c].hi /\ d = tree[c].depth + 1
    <2>1. tree[c].depth + 1 \in Nat
      BY <1>1
    <2> QED
      BY <1>1, <2>1
  <1>4. PICK L : L = Cut(c)
    OBVIOUS
  <1>5. /\ c \in Chunks /\ c \in Nat /\ c # 0 /\ tree[c].depth = n /\ Len(tree) \in Nat /\ n \in Nat
        /\ Chunks = 1..Len(tree)
    <2>1. Chunks = 1..Len(tree)
      BY DEF Typed, Chunks
    <2>2. c \in Chunks /\ c \in Nat /\ Len(tree) \in Nat /\ n \in Nat
      BY <1>1, RowFacts
    <2>3. tree[c].depth = n
      BY <1>1 DEF Layout, Nested
    <2> QED
      BY <2>1, <2>2, <2>3
  <1>6. L = Level(lo, hi, c, d) /\ lo <= hi /\ d = n + 1 /\ d <= use.maxDepth
    <2>1. tree[c].depth \in Nat /\ use.maxDepth \in Nat
      BY <1>1 DEF Usable
    <2> QED
      BY <1>1, <1>3, <1>4, <1>5, <2>1 DEF Cut
  <1>7. PICK N : N = Len(tree)
    OBVIOUS
  <1>8. ASSUME NEW k \in Chunks', k \notin Chunks
        PROVE  \E j \in 1..Len(L) : k = N + j /\ tree'[k] = L[j] /\ tree'[k].parent = c
                                    /\ tree'[k].call = "new"
    <2>1. PICK j : j = k - N
      OBVIOUS
    <2>2. j \in 1..Len(L)
      BY <1>1, <1>4, <1>7, <1>8, <2>1
    <2>3. Chunks' = Chunks \cup (Len(tree) + 1..Len(tree'))
          /\ \A i \in Len(tree) + 1..Len(tree') : tree'[i].parent = c /\ tree'[i].call = "new"
      BY <1>1 DEF Descended
    <2>4. k \in Len(tree) + 1..Len(tree') /\ k \in Int
      BY <1>8, <2>3, <1>5
    <2>5. k = N + j
      BY <2>1, <2>4, <1>5, <1>7
    <2>6. tree'[k] = L[j]
      BY <1>1, <1>4, <1>7, <2>2, <2>5
    <2> QED
      BY <2>2, <2>3, <2>4, <2>5, <2>6
  <1>9. ASSUME NEW k \in Chunks', k \notin Chunks
        PROVE  /\ lo <= tree'[k].lo /\ tree'[k].lo <= tree'[k].hi /\ tree'[k].hi <= hi
               /\ tree'[k].lo < tree'[k].hi => tree'[k].lo \in use.cuts /\ tree'[k].hi \in use.cuts
               /\ tree'[k].depth = d /\ (~tree'[k].leaf => d < use.maxDepth /\ tree'[k].lo < tree'[k].hi)
    <2>1. PICK j \in 1..Len(L) : tree'[k] = L[j]
      BY <1>8, <1>9
    <2>2. Usable /\ c \in Nat /\ L = Level(lo, hi, c, d) /\ lo <= hi
      BY <1>1, <1>5, <1>6
    <2>3. lo \in Nat /\ hi \in Nat /\ d \in Nat
      BY <1>3
    <2>4. j \in 1..Len(L)
      BY <2>1
    <2>5. Laid(L[j], lo, hi, d)
      BY <2>2, <2>3, <2>4, LevelPlaced
    <2> QED
      BY <2>1, <2>5 DEF Laid
  <1>10. Chunks \subseteq Chunks' /\ tree' # <<>>
    <2>1. Len(tree') \in Nat /\ Len(tree) < Len(tree') /\ Chunks \subseteq Chunks'
      BY <1>1 DEF Descended
    <2>2. Len(tree') # 0
      BY <2>1, <1>5
    <2> QED
      BY <2>1, <2>2
  <1>11. Placed'
    <2>1. PICK m : m = Max(use.cuts)
      OBVIOUS
    <2>2. hi <= m
      BY <1>3, <1>5, <2>1 DEF Layout, Placed
    <2>3. m \in Nat
      BY <1>1, <2>1, MaxIsGreatest DEF Usable
    <2> SUFFICES ASSUME NEW k \in Chunks'
                 PROVE  /\ 0 <= tree'[k].lo /\ tree'[k].lo <= tree'[k].hi /\ tree'[k].hi <= m
                        /\ tree'[k].lo < tree'[k].hi =>
                             tree'[k].lo \in use.cuts /\ tree'[k].hi \in use.cuts
                        /\ 1 <= tree'[k].depth /\ tree'[k].depth <= use.maxDepth
                        /\ ~tree'[k].leaf => tree'[k].depth < use.maxDepth /\ tree'[k].lo < tree'[k].hi
      BY <1>2, <1>10, <2>1 DEF Placed
    <2>4. CASE k \in Chunks
      <3>1. /\ 0 <= tree[k].lo /\ tree[k].lo <= tree[k].hi /\ tree[k].hi <= m
            /\ tree[k].lo < tree[k].hi => tree[k].lo \in use.cuts /\ tree[k].hi \in use.cuts
            /\ 1 <= tree[k].depth /\ tree[k].depth <= use.maxDepth
            /\ ~tree[k].leaf => tree[k].depth < use.maxDepth /\ tree[k].lo < tree[k].hi
        BY <2>1, <2>4 DEF Layout, Placed
      <3>2. Stays(k)
        BY <1>1, <2>4
      <3> QED
        BY <3>1, <3>2 DEF Stays
    <2>5. CASE k \notin Chunks
      <3>1. /\ lo <= tree'[k].lo /\ tree'[k].lo <= tree'[k].hi /\ tree'[k].hi <= hi
            /\ tree'[k].lo < tree'[k].hi => tree'[k].lo \in use.cuts /\ tree'[k].hi \in use.cuts
            /\ tree'[k].depth = d /\ (~tree'[k].leaf => d < use.maxDepth /\ tree'[k].lo < tree'[k].hi)
        BY <1>9, <2>5
      <3>2. tree'[k].lo \in Int /\ tree'[k].hi \in Int
        <4>1. tree' \in Seq(ChunkType)
          BY <1>1 DEF Descended
        <4>2. tree'[k] \in ChunkType
          BY <4>1 DEF Chunks
        <4> QED
          BY <4>2 DEF ChunkType
      <3>3. PICK a, b \in Int : a = tree'[k].lo /\ b = tree'[k].hi
        BY <3>2
      <3>4. 0 <= a /\ b <= m
        BY <2>2, <2>3, <3>1, <3>3
      <3> QED
        BY <1>5, <1>6, <3>1, <3>3, <3>4
    <2> QED
      BY <2>4, <2>5
  <1>12. Nested'
    <2>1. /\ Levels' = Levels \cup {n + 1} /\ frames'[n + 1] = Frame(Len(tree) + 1, Len(tree'))
          /\ Chunks' = Chunks \cup (Len(tree) + 1..Len(tree'))
          /\ \A i \in Levels : frames'[i].first = frames[i].first /\ frames'[i].last = frames[i].last
          /\ \A k \in Chunks : tree'[k].call = tree[k].call
      BY <1>1 DEF Descended
    <2>2. Calling' = Calling
      BY <1>8, <1>10, <2>1 DEF Calling
    <2>3. ASSUME NEW i \in Levels
          PROVE  /\ \A k \in Row(i)' : tree'[k].depth = i
                 /\ Cardinality(Calling' \cap Row(i)') <= use'.concurrent
      <3>1. Row(i)' = Row(i) /\ Row(i) \subseteq Chunks
        BY <2>1, RowFacts DEF Row
      <3>2. \A k \in Row(i) : tree[k].depth = i
        BY DEF Layout, Nested
      <3>3. \A k \in Row(i)' : tree'[k].depth = i
        BY <1>1, <3>1, <3>2 DEF Stays
      <3>4. Cardinality(Calling \cap Row(i)) <= use.concurrent
        BY DEF Layout, Nested
      <3> QED
        BY <1>2, <2>2, <3>1, <3>3, <3>4
    <2>4. Row(n + 1)' = Len(tree) + 1..Len(tree')
      BY <2>1 DEF Row, Frame
    <2>5. \A k \in Row(n + 1)' : k \in Chunks' /\ k \notin Chunks
      BY <1>5, <2>1, <2>4
    <2>6. Calling' \cap Row(n + 1)' = {}
      BY <2>2, <2>5 DEF Calling
    <2>7. Cardinality(Calling' \cap Row(n + 1)') <= use'.concurrent
      BY <1>2, <2>6, FS_EmptySet
    <2>8. \A k \in Row(n + 1)' : tree'[k].depth = n + 1
      BY <1>6, <1>9, <2>5
    <2> QED
      BY <2>1, <2>3, <2>7, <2>8 DEF Nested
  <1>13. Covered'
    <2> SUFFICES ASSUME Caught'
                 PROVE  (/\ outcome # "new" => All \subseteq Bytes({tree[k] : k \in Below(0)})
                         /\ \A x \in Chunks : Below(x) # {} =>
                              Extent(tree[x]) \subseteq Bytes({tree[k] : k \in Below(x)}))'
      BY DEF Covered
    <2>1. Caught /\ All' = All
      BY <1>2 DEF Caught, All
    <2>2. /\ outcome # "new" => All \subseteq Bytes({tree[k] : k \in Below(0)})
          /\ \A x \in Chunks : Below(x) # {} =>
               Extent(tree[x]) \subseteq Bytes({tree[k] : k \in Below(x)})
      BY <2>1 DEF Layout, Covered
    <2>3. ASSUME NEW x \in Chunks \cup {0}, x # c
          PROVE  Bytes({tree[k] : k \in Below(x)})' = Bytes({tree[k] : k \in Below(x)})
                 /\ Below(x)' = Below(x)
      <3>1. Below(x)' = Below(x)
        BY <1>1, <1>8, <1>10, <2>3 DEF Below, Stays
      <3>2. PICK B : B = Below(x)
        OBVIOUS
      <3>3. B \subseteq Chunks
        BY <3>2 DEF Below
      <3>5. \A k \in B : tree'[k].lo + 1..tree'[k].hi = tree[k].lo + 1..tree[k].hi
        BY <1>1, <3>3 DEF Stays
      <3>4. UNION {r.lo + 1..r.hi : r \in {tree'[k] : k \in B}}
              = UNION {r.lo + 1..r.hi : r \in {tree[k] : k \in B}}
        <4>1. {r.lo + 1..r.hi : r \in {tree'[k] : k \in B}} = {tree'[k].lo + 1..tree'[k].hi : k \in B}
          OBVIOUS
        <4>2. {r.lo + 1..r.hi : r \in {tree[k] : k \in B}} = {tree[k].lo + 1..tree[k].hi : k \in B}
          OBVIOUS
        <4>3. {tree'[k].lo + 1..tree'[k].hi : k \in B} = {tree[k].lo + 1..tree[k].hi : k \in B}
          BY <3>5
        <4> QED
          BY <4>1, <4>2, <4>3
      <3> QED
        BY <3>1, <3>2, <3>4 DEF Bytes
    <2>4. ASSUME NEW x \in Chunks, x # c, Below(x)' # {}
          PROVE  Extent(tree[x])' \subseteq Bytes({tree[k] : k \in Below(x)})'
      <3>1. Extent(tree[x])' = Extent(tree[x])
        BY <1>1 DEF Extent, Stays
      <3> QED
        BY <2>2, <2>3, <2>4, <3>1
    <2>5. Extent(tree[c])' \subseteq Bytes({tree[k] : k \in Below(c)})'
      <3>1. Extent(tree[c])' = lo + 1..hi
        BY <1>1, <1>3, <1>5 DEF Extent, Stays
      <3>2. ASSUME NEW b \in lo + 1..hi
            PROVE  \E k \in Below(c)' : b \in tree'[k].lo + 1..tree'[k].hi
        <4>1. b \in Nat /\ lo < b /\ b <= hi
          BY <3>2
        <4>2. PICK j \in 1..Len(L) : b \in L[j].lo + 1..L[j].hi
          <5>1. Usable /\ Caught /\ lo \in use.cuts /\ hi \in use.cuts /\ c \in Nat
            BY <1>1, <1>3, <1>5, <2>1
          <5>2. L = Level(lo, hi, c, d) /\ lo <= hi /\ lo < b /\ b <= hi /\ b \in Nat
            BY <1>6, <4>1
          <5>3. lo \in Nat /\ hi \in Nat /\ d \in Nat
            BY <1>3
          <5>4. \E j \in 1..Len(L) : b \in L[j].lo + 1..L[j].hi
            BY <5>1, <5>2, <5>3, LevelCovers
          <5> QED
            BY <5>4
        <4>3. N + j \in Chunks' /\ tree'[N + j] = L[j] /\ N + j \notin Chunks
          <5>1. N + j \in Chunks' /\ tree'[N + j] = L[j]
            BY <1>1, <1>4, <1>7
          <5> QED
            BY <1>5, <1>7, <5>1
        <4>4. N + j \in Below(c)'
          BY <1>8, <4>3 DEF Below
        <4> QED
          BY <4>2, <4>3, <4>4
      <3>3. lo + 1..hi \subseteq UNION {r.lo + 1..r.hi : r \in {tree'[k] : k \in Below(c)'}}
        BY <3>2
      <3> QED
        BY <3>1, <3>3 DEF Bytes
    <2>6. ASSUME NEW x \in Chunks', x \notin Chunks PROVE Below(x)' = {}
      <3>1. \A k \in Chunks : tree'[k].parent # x
        <4>1. \A k \in Chunks : tree[k].parent < k /\ tree[k].parent \in Nat
          BY ChunkFields DEF Typed, Shape, Descents
        <4>2. x \in Nat /\ Len(tree) < x
          <5>1. Chunks' = Chunks \cup (Len(tree) + 1..Len(tree'))
            BY <1>1 DEF Descended
          <5> QED
            BY <1>5, <2>6, <5>1
        <4>3. \A k \in Chunks : tree'[k].parent = tree[k].parent
          BY <1>1 DEF Stays
        <4>4. \A k \in Chunks : k <= Len(tree) /\ k \in Nat
          BY <1>5
        <4> QED
          BY <1>5, <4>1, <4>2, <4>3, <4>4
      <3>2. \A k \in Chunks' : k \notin Chunks => tree'[k].parent = c
        BY <1>8
      <3> QED
        BY <1>5, <2>6, <3>1, <3>2 DEF Below
    <2>7. outcome' # "new" => All' \subseteq Bytes({tree[k] : k \in Below(0)})'
      BY <1>2, <1>5, <2>1, <2>2, <2>3
    <2> QED
      BY <2>4, <2>5, <2>6, <2>7
  <1> QED
    BY <1>11, <1>12, <1>13 DEF Layout

LEMMA SameLayout ==
  ASSUME Typed, Shape, Layout, use.concurrent \in Nat, use' = use, Chunks' = Chunks,
         \A k \in Chunks : Stays(k), Levels' \subseteq Levels, Calling' \subseteq Calling,
         \A i \in Levels' : frames'[i].first = frames[i].first /\ frames'[i].last = frames[i].last,
         outcome = "new" <=> outcome' = "new"
  PROVE  Layout'
  <1>1. Placed /\ Nested /\ Covered
    BY DEF Layout
  <1>2. tree # <<>> => tree' # <<>>
    <2>1. tree \in Seq(ChunkType)
      BY DEF Typed
    <2>2. tree # <<>> => Chunks # {}
      <3>1. tree # <<>> => Len(tree) \in Nat \ {0}
        BY <2>1
      <3>2. tree # <<>> => 1 \in 1..Len(tree)
        BY <3>1
      <3>3. DOMAIN tree = 1..Len(tree)
        BY <2>1
      <3> QED
        BY <3>2, <3>3 DEF Chunks
    <2>3. Chunks # {} => tree' # <<>>
      BY DEF Chunks
    <2> QED
      BY <2>2, <2>3
  <1>3. Placed' /\ Covered'
    BY <1>1, <1>2, PlacedKept
  <1>4. Nested'
    BY <1>1, NestedKept
  <1> QED
    BY <1>3, <1>4 DEF Layout

LEMMA LayoutStep ==
  ASSUME IInv, [Next]_vars, Layout, use.concurrent \in Nat, 1 <= use.maxDepth
  PROVE  Layout'
  <1>1. Typed /\ Inside /\ Shape
    BY DEF IInv
  <1>2. CASE UNCHANGED <<use, tree, frames, outcome>>
    <2>1. /\ Chunks' = Chunks /\ Levels' = Levels /\ Calling' = Calling
          /\ \A k \in Chunks : Stays(k)
      BY <1>2 DEF Chunks, Levels, Calling, Stays
    <2> QED
      BY <1>1, <1>2, <2>1, SameLayout
  <1>3. CASE Begin
    BY <1>1, <1>3, BeginLayout
  <1>4. CASE Check \/ Join
    <2>1. /\ use' = use /\ tree' = tree /\ outcome' = outcome /\ outcome = "running"
      BY <1>4 DEF Check, Join, At
    <2>2. PICK f \in FrameType : SetTop(f) /\ f.first = Top.first /\ f.last = Top.last
      BY <1>1, <1>4, CheckTop, JoinTop
    <2>3. /\ Levels' = Levels /\ frames'[Len(frames)] = f /\ Top = frames[Len(frames)]
          /\ \A i \in Levels : i # Len(frames) => frames'[i] = frames[i]
      BY <1>1, <2>1, <2>2, SetTopFacts, TopFacts
    <2>4. \A i \in Levels : frames'[i].first = frames[i].first /\ frames'[i].last = frames[i].last
      BY <2>2, <2>3
    <2>5. /\ Chunks' = Chunks /\ Calling' = Calling /\ \A k \in Chunks : Stays(k)
      BY <2>1 DEF Chunks, Calling, Stays
    <2> QED
      BY <1>1, <2>1, <2>3, <2>4, <2>5, SameLayout
  <1>5. CASE Acquire
    <2>1. use' = use /\ outcome' = outcome /\ Chunks' = Chunks /\ Len(tree') = Len(tree)
      BY <1>1, <1>5, AcquireTree DEF Acquire
    <2>2. tree # <<>> => tree' # <<>>
      BY <1>1, <2>1 DEF Chunks
    <2>3. Placed' /\ Covered'
      BY <1>1, <1>5, <2>1, <2>2, AcquireStays, PlacedKept DEF Layout
    <2>4. Nested'
      BY <1>1, <1>5, AcquireNested DEF Layout
    <2> QED
      BY <2>3, <2>4 DEF Layout
  <1>6. CASE Descend
    BY <1>1, <1>6, DescendLayout
  <1>7. CASE Leave
    <2>1. /\ use' = use /\ tree' = tree /\ outcome # "new" /\ outcome' # "new"
          /\ Levels' \subseteq Levels /\ \A i \in Levels' : frames'[i] = frames[i]
      BY <1>1, <1>7, LeaveFacts
    <2>2. /\ Chunks' = Chunks /\ Calling' = Calling /\ \A k \in Chunks : Stays(k)
      BY <2>1 DEF Chunks, Calling, Stays
    <2> QED
      BY <1>1, <2>1, <2>2, SameLayout
  <1>8. CASE Raise
    <2>1. Chunks' = Chunks /\ \A k \in Chunks : Stays(k)
      BY <1>1, <1>8, RaiseStays
    <2>2. CASE Len(frames) = 1
      <3>1. /\ use' = use /\ tree' = tree /\ outcome # "new" /\ outcome' # "new" /\ frames' = <<>>
        BY <1>8, <2>2 DEF Raise, At
      <3>2. Calling' = Calling /\ Levels' = {}
        BY <3>1 DEF Calling, Chunks, Levels
      <3> QED
        BY <1>1, <2>1, <3>1, <3>2, SameLayout
    <2>3. CASE Len(frames) # 1
      <3>1. /\ use' = use /\ outcome' = outcome /\ Levels' \subseteq Levels
            /\ \A i \in Levels' : /\ frames'[i].first = frames[i].first
                                  /\ frames'[i].last = frames[i].last
            /\ \A k \in Chunks : tree'[k].call = tree[k].call
        BY <1>1, <1>8, <2>3, RaiseFacts
      <3>2. Calling' = Calling
        BY <2>1, <3>1 DEF Calling
      <3> QED
        BY <1>1, <2>1, <3>1, <3>2, SameLayout
    <2> QED
      BY <2>2, <2>3
  <1>9. ASSUME NEW c \in Calling, Succeed(c) PROVE Layout'
    <2>1. c \in Chunks
      BY DEF Calling
    <2>2. /\ use' = use /\ outcome' = outcome /\ frames' = frames
      BY <1>9 DEF Succeed
    <2>3. /\ Chunks' = Chunks /\ \A k \in Chunks : Stays(k)
          /\ \A k \in Chunks : tree'[k].call = (IF k = c THEN "done" ELSE tree[k].call)
      BY <1>1, <1>9, <2>1, SucceedTree, SucceedStays
    <2>4. Calling' \subseteq Calling /\ Levels' = Levels
      BY <2>2, <2>3 DEF Calling, Levels
    <2> QED
      BY <1>1, <2>2, <2>3, <2>4, SameLayout
  <1>10. ASSUME NEW c \in Calling, Refuse(c) PROVE Layout'
    <2>1. c \in Chunks
      BY DEF Calling
    <2>2. /\ use' = use /\ outcome' = outcome
      BY <1>10 DEF Refuse
    <2>3. /\ Chunks' = Chunks /\ \A k \in Chunks : Stays(k)
          /\ \A k \in Chunks : tree'[k].call = (IF k = c THEN "refused" ELSE tree[k].call)
      BY <1>1, <1>10, <2>1, RefuseTree, RefuseStays
    <2>4. Calling' \subseteq Calling
      BY <2>3 DEF Calling
    <2>5. /\ Levels' = Levels
          /\ \A i \in Levels : frames'[i].first = frames[i].first /\ frames'[i].last = frames[i].last
      BY <1>1, <1>10, <2>1, RefuseTop
    <2> QED
      BY <1>1, <2>2, <2>3, <2>4, <2>5, SameLayout
  <1>11. CASE Cancel
    BY <1>2, <1>11 DEF Cancel
  <1>12. \/ UNCHANGED <<use, tree, frames, cancelled, outcome>>
         \/ Main
         \/ Cancel
         \/ \E c \in Calling : Succeed(c) \/ Refuse(c)
    BY <1>1, StepCases
  <1> QED
    BY <1>2, <1>3, <1>4, <1>5, <1>6, <1>7, <1>8, <1>9, <1>10, <1>11, <1>12 DEF Main

-----------------------------------------------------------------------------
(* How far the callbacks, AddFile and the semantic chunker are.            *)

Done == {c \in Chunks : tree[c].call = "done"}

LEMMA Finished ==
  ASSUME IInv, outcome = "ok"
  PROVE  Calling = {} /\ Done = Chunks
  <1>1. Typed /\ Shape /\ Sound
    BY DEF IInv
  <1>2. frames = <<>>
    BY <1>1 DEF Shape, Stages
  <1>3. Levels = {}
    BY <1>2 DEF Levels
  <1>4. ~Failing /\ Clean
    BY DEF Failing, Raising, Clean
  <1>5. \A c \in Chunks : tree[c].call = "done"
    BY <1>1, <1>3, <1>4 DEF Sound, Well
  <1> QED
    BY <1>5 DEF Calling, Done

LEMMA ChunkerStep ==
  ASSUME IInv, IInv', [Next]_vars
  PROVE  /\ use' = use /\ Len(tree) \in Nat /\ Len(tree') \in Nat
         /\ Len(tree) <= Len(tree') /\ Chunks \subseteq Chunks'
         /\ Chunks = 1..Len(tree) /\ Chunks' = 1..Len(tree')
         /\ outcome = "ok" => outcome' = "ok" /\ tree' = tree
  <1>1. Typed /\ Inside /\ Shape
    BY DEF IInv
  <1>2. Len(tree) \in Nat /\ Len(tree') \in Nat /\ Chunks = 1..Len(tree) /\ Chunks' = 1..Len(tree')
    BY DEF IInv, Typed, Chunks
  <1>3. /\ use' = use /\ Chunks \subseteq Chunks'
        /\ outcome = "ok" => outcome' = "ok" /\ tree' = tree
    <2>1. CASE UNCHANGED <<use, tree, frames, cancelled, outcome>>
      BY <2>1 DEF Chunks
    <2>2. CASE Cancel
      BY <2>2 DEF Cancel, Chunks
    <2>3. ASSUME NEW c \in Calling, Succeed(c) \/ Refuse(c)
          PROVE  use' = use /\ Chunks \subseteq Chunks' /\ outcome # "ok"
      <3>1. c \in Chunks
        BY DEF Calling
      <3>2. use' = use /\ Chunks' = Chunks
        BY <1>1, <2>3, <3>1, SucceedTree, RefuseTree DEF Succeed, Refuse
      <3>3. outcome # "ok"
        BY Finished
      <3> QED
        BY <3>2, <3>3
    <2>4. CASE Begin
      BY <1>1, <2>4, BeginFacts DEF Begin, Chunks
    <2>5. CASE Check \/ Join
      BY <2>5 DEF Check, Join, At, Chunks
    <2>6. CASE Acquire
      BY <1>1, <2>6, AcquireTree DEF Acquire, At
    <2>7. CASE Descend
      <3>1. PICK n, c : Descended(n, c)
        BY <1>1, <2>7, DescendFacts
      <3> QED
        BY <2>7, <3>1 DEF Descended, Descend, At
    <2>8. CASE Leave
      BY <2>8 DEF Leave, At, Chunks
    <2>9. CASE Raise
      BY <1>1, <2>9, RaiseStays DEF Raise, At
    <2>10. \/ UNCHANGED <<use, tree, frames, cancelled, outcome>>
           \/ Main \/ Cancel \/ \E c \in Calling : Succeed(c) \/ Refuse(c)
      BY <1>1, StepCases
    <2> QED
      BY <2>1, <2>2, <2>3, <2>4, <2>5, <2>6, <2>7, <2>8, <2>9, <2>10 DEF Main
  <1>4. Len(tree) <= Len(tree')
    <2>1. PICK n, m \in Nat : n = Len(tree) /\ m = Len(tree')
      BY <1>2
    <2>2. 1..n \subseteq 1..m
      BY <1>2, <1>3, <2>1
    <2>3. n <= m
      <3>1. CASE n = 0
        BY <3>1
      <3>2. CASE n # 0
        <4>1. n \in 1..n
          BY <3>2
        <4>2. n \in 1..m
          BY <2>2, <4>1
        <4> QED
          BY <4>2
      <3> QED
        BY <3>1, <3>2
    <2> QED
      BY <2>1, <2>3
  <1> QED
    BY <1>2, <1>3, <1>4

\* The goroutine that called Chunk returns from no callback.
LEMMA MainDone ==
  ASSUME IInv, Main
  PROVE  Done' = Done
  <1>1. Typed /\ Shape /\ Sound
    BY DEF IInv
  <1>2. CASE Begin
    <2>1. tree = <<>> /\ \A k \in Chunks' : tree'[k].call = "new"
      BY <1>1, <1>2, BeginFacts
    <2>2. Chunks = {}
      BY <2>1 DEF Chunks
    <2> QED
      BY <2>1, <2>2 DEF Done
  <1>3. CASE Check \/ Join \/ Leave
    <2>1. tree' = tree
      BY <1>3 DEF Check, Join, Leave
    <2> QED
      BY <2>1 DEF Done, Chunks
  <1>4. CASE Acquire
    <2>1. PICK n, x : n = Len(frames) /\ x = Top.next
      OBVIOUS
    <2>2. /\ outcome = "running" /\ Top.at = "acquire"
      BY <1>4 DEF Acquire, At
    <2>3. /\ x \in Row(n) /\ x \in Chunks /\ Chunks' = Chunks /\ n \in Levels /\ Top = frames[n]
          /\ \A k \in Chunks : tree'[k].call = (IF k = x THEN "calling" ELSE tree[k].call)
      BY <1>1, <1>4, <2>1, <2>2, AcquireTree, TopFacts
    <2>4. Clean
      BY <2>2 DEF Clean, Failing, Raising
    <2>5. frames[n].next <= x
      <3>1. frames[n].next \in Nat
        BY <1>1, <2>3, RowFacts
      <3> QED
        BY <2>1, <2>3, <3>1
    <2>6. tree[x].call = "new"
      BY <1>1, <2>2, <2>3, <2>4, <2>5 DEF Sound, Calls
    <2> QED
      BY <2>3, <2>6 DEF Done
  <1>5. CASE Descend
    <2>1. PICK n, c : Descended(n, c)
      BY <1>1, <1>5, DescendFacts
    <2>2. /\ Chunks' = Chunks \cup (Len(tree) + 1..Len(tree'))
          /\ \A k \in Chunks : tree'[k].call = tree[k].call
          /\ \A k \in Len(tree) + 1..Len(tree') : tree'[k].call = "new"
      BY <2>1 DEF Descended
    <2> QED
      BY <2>2 DEF Done
  <1>6. CASE Raise
    <2>1. CASE Len(frames) = 1
      <3>1. tree' = tree
        BY <1>6, <2>1 DEF Raise
      <3> QED
        BY <3>1 DEF Done, Chunks
    <2>2. CASE Len(frames) # 1
      BY <1>1, <1>6, <2>2, RaiseFacts DEF Done
    <2> QED
      BY <2>1, <2>2
  <1> QED
    BY <1>2, <1>3, <1>4, <1>5, <1>6 DEF Main

LEMMA SucceedDone ==
  ASSUME Typed, NEW c \in Chunks, Succeed(c)
  PROVE  Done' = Done \cup {c} /\ Chunks' = Chunks
  BY SucceedTree DEF Done

\* Which steps there are, and what each leaves alone.
LEMMA Moves ==
  ASSUME IInv, [Next]_vars
  PROVE  \/ UNCHANGED <<semantic, upsert>> /\ Done' = Done
         \/ ~ByAddFile /\ UNCHANGED <<semantic, upsert>>
         \/ sem # "off" /\ UNCHANGED <<semantic, upsert>>
         \/ Segmenter /\ UNCHANGED upsert
         \/ HandOut \/ Chunked \/ Extract \/ Save \/ Embed \/ StoreAll
         \/ \E c \in Chunks : Load(c) \/ Store(c) \/ ((Answer(c) \/ Fallback(c)) /\ UNCHANGED upsert)
  <1>1. CASE UNCHANGED vars
    BY <1>1 DEF vars, chunker, Done, Chunks
  <1>2. CASE GiveUp
    BY <1>2 DEF GiveUp, Cancel, Done, Chunks
  <1>3. CASE AddFile
    BY <1>3, MainDone DEF AddFile
  <1>4. ASSUME NEW c \in Chunks, Worker(c)
        PROVE  \/ Load(c) \/ Store(c) \/ ((Answer(c) \/ Fallback(c)) /\ UNCHANGED upsert)
               \/ ~ByAddFile /\ UNCHANGED <<semantic, upsert>>
               \/ sem # "off" /\ UNCHANGED <<semantic, upsert>>
    BY <1>4 DEF Worker, Return, Collect
  <1> QED
    BY <1>1, <1>2, <1>3, <1>4 DEF Next

LEMMA PreparesStep ==
  ASSUME IInv, IInv', [Next]_vars, Prepares
  PROVE  Prepares' /\ (sem = "off" <=> sem' = "off")
  <1>1. use' = use
    BY ChunkerStep
  <1>2. sem = "off" <=> sem' = "off"
    <2>1. CASE UNCHANGED semantic
      BY <2>1 DEF semantic
    <2>2. CASE Segmenter
      BY <2>2 DEF Segmenter, Collected, Look, Ask, Merge, Adopt, Ascend, LevelOut
    <2>3. CASE HandOut
      BY <2>3 DEF HandOut, Deliver, Stumble
    <2>4. CASE Chunked \/ Extract \/ Save \/ Embed \/ StoreAll
      BY <2>4 DEF Chunked, Extract, Save, Embed, StoreAll, Quiet, Backend, semantic
    <2>5. ASSUME NEW c \in Chunks,
                 Load(c) \/ Store(c) \/ ((Answer(c) \/ Fallback(c)) /\ UNCHANGED upsert)
          PROVE  sem' = sem
      BY <2>5 DEF Load, Store, Answer, Fallback, Become, semantic
    <2> QED
      BY <2>1, <2>2, <2>3, <2>4, <2>5, Moves
  <1> QED
    BY <1>1, <1>2 DEF Prepares

LEMMA SliceStep ==
  ASSUME IInv, IInv', [Next]_vars, Prepares, Slice, delivered \in Nat
  PROVE  Slice'
  <1>1. /\ use' = use /\ Chunks \subseteq Chunks' /\ Structured' = Structured /\ ByAddFile' = ByAddFile
        /\ Inside /\ Typed
    BY ChunkerStep, PreparesStep DEF Structured, ByAddFile, IInv
  <1>2. raced \in BOOLEAN /\ graph \in BOOLEAN
    BY DEF Slice
  <1>3. ASSUME Structured
        PROVE  /\ chunks \subseteq Chunks /\ \A c \in DOMAIN local : local[c] \subseteq Chunks
               /\ ByAddFile /\ ~raced => chunks = Done
    BY <1>3 DEF Slice, Done
  <1>4. ASSUME ~Structured
        PROVE  chunks \subseteq 1..delivered /\ (ByAddFile => chunks = 1..delivered)
    BY <1>4 DEF Slice
  <1>5. ASSUME /\ chunks' = chunks /\ local' = local /\ raced' = raced /\ graph' \in BOOLEAN
               /\ ~Structured => delivered' = delivered
               /\ Structured /\ ByAddFile => Done' = Done
        PROVE  Slice'
    <2>1. CASE Structured
      BY <1>1, <1>2, <1>3, <1>5, <2>1 DEF Slice, Done
    <2>2. CASE ~Structured
      BY <1>1, <1>2, <1>4, <1>5, <2>2 DEF Slice
    <2> QED
      BY <2>1, <2>2
  <1>6. ASSUME tree' = tree PROVE Done' = Done
    BY <1>6 DEF Done, Chunks
  <1>7. CASE UNCHANGED <<semantic, upsert>>
             /\ (Done' = Done \/ ~ByAddFile \/ sem # "off")
    BY <1>2, <1>5, <1>7 DEF semantic, upsert, Structured
  <1>8. CASE Segmenter /\ UNCHANGED upsert
    <2>1. tree' = tree /\ delivered' = delivered
      BY <1>8 DEF Segmenter, Collected, Look, Ask, Merge, Adopt, Ascend, chunker
    <2> QED
      BY <1>2, <1>5, <1>6, <1>8, <2>1 DEF upsert
  <1>9. CASE HandOut
    <2>1. CASE Deliver /\ chunks' = (IF ByAddFile THEN chunks \cup {delivered'} ELSE chunks)
               /\ UNCHANGED <<local, phase, graph, stored, raced>>
      <3>1. ~Structured /\ delivered' = delivered + 1
        BY <2>1 DEF Deliver, Structured
      <3>2. chunks \subseteq 1..delivered /\ (ByAddFile => chunks = 1..delivered)
        BY <1>4, <3>1
      <3>3. PICK n, m \in Nat : n = delivered /\ m = delivered'
        BY <3>1
      <3>4. 1..m = 1..n \cup {m}
        BY <3>1, <3>3
      <3>5. chunks' \subseteq 1..m /\ (ByAddFile => chunks' = 1..m)
        BY <2>1, <3>2, <3>3, <3>4
      <3> QED
        BY <1>1, <1>2, <2>1, <3>1, <3>3, <3>5 DEF Slice
    <2>2. CASE ~ByAddFile /\ Stumble /\ UNCHANGED upsert
      BY <1>2, <1>5, <2>2 DEF Stumble, upsert
    <2> QED
      BY <1>9, <2>1, <2>2 DEF HandOut
  <1>10. CASE Chunked \/ Extract \/ Save \/ Embed \/ StoreAll
    <2>1. tree' = tree /\ delivered' = delivered /\ chunks' = chunks /\ local' = local
          /\ raced' = raced
      BY <1>10 DEF Chunked, Extract, Save, Embed, StoreAll, Quiet, Backend, semantic, chunker
    <2>2. graph' \in BOOLEAN
      BY <1>2, <1>10 DEF Chunked, Extract, Save, Embed, StoreAll
    <2> QED
      BY <1>5, <1>6, <2>1, <2>2
  <1>11. ASSUME NEW c \in Chunks, Load(c) PROVE Slice'
    <2>1. /\ Structured /\ tree' = tree /\ chunks' = chunks /\ raced' = raced /\ graph' = graph
          /\ local' = [k \in DOMAIN local \cup {c} |-> IF k = c THEN chunks ELSE local[k]]
      BY <1>11 DEF Load, chunker
    <2>2. \A k \in DOMAIN local' : local'[k] \subseteq Chunks'
      BY <1>1, <1>3, <2>1
    <2>3. chunks' \subseteq Chunks' /\ (ByAddFile' /\ ~raced' => chunks' = Done')
      BY <1>1, <1>3, <1>6, <2>1
    <2> QED
      BY <1>1, <1>2, <2>1, <2>2, <2>3 DEF Slice, Done
  <1>12. ASSUME NEW c \in Chunks, Store(c) PROVE Slice'
    <2>1. /\ c \in DOMAIN local /\ ByAddFile /\ Succeed(c) /\ UNCHANGED graph
          /\ local' = [k \in DOMAIN local \ {c} |-> local[k]]
          /\ raced' = (raced \/ chunks # local[c])
      BY <1>12 DEF Store
    <2>2. PICK x \in {c} \cup (chunks \ local[c]) : chunks' = local[c] \cup {x}
      BY <1>12 DEF Store
    <2>3. Structured /\ Done' = Done \cup {c} /\ Chunks' = Chunks
      BY <1>1, <2>1, SucceedDone DEF Inside
    <2>4. \A k \in DOMAIN local' : local'[k] \subseteq Chunks'
      BY <1>3, <2>1, <2>3
    <2>5. chunks' \subseteq Chunks'
      BY <1>3, <2>1, <2>2, <2>3
    <2>6. ASSUME ~raced' PROVE chunks' = Done'
      <3>1. ~raced /\ chunks = local[c]
        BY <2>1, <2>6
      <3>2. x = c
        BY <2>2, <3>1
      <3> QED
        BY <1>3, <2>1, <2>2, <2>3, <3>1, <3>2
    <2>7. raced' \in BOOLEAN /\ graph' \in BOOLEAN
      BY <1>2, <2>1
    <2> QED
      BY <1>1, <2>3, <2>4, <2>5, <2>6, <2>7 DEF Slice, Done
  <1>13. ASSUME NEW c \in Chunks, Answer(c) \/ Fallback(c), UNCHANGED upsert PROVE Slice'
    <2>1. tree' = tree /\ delivered' = delivered
      BY <1>13 DEF Answer, Fallback, Become
    <2> QED
      BY <1>2, <1>5, <1>6, <1>13, <2>1 DEF upsert
  <1> QED
    BY <1>7, <1>8, <1>9, <1>10, <1>11, <1>12, <1>13, Moves

LEMMA LessOf ==
  ASSUME NEW a \in Nat, NEW b \in Nat
  PROVE  Min({a, b}) \in 0..b
  <1>1. \E x \in {a, b} : \A y \in {a, b} : x <= y
    OBVIOUS
  <1>2. Min({a, b}) \in {a, b} /\ \A y \in {a, b} : Min({a, b}) <= y
    BY <1>1 DEF Min
  <1>3. PICK m : m = Min({a, b})
    OBVIOUS
  <1>4. m \in Nat /\ m <= b
    BY <1>2, <1>3
  <1> QED
    BY <1>3, <1>4

\* What Chunk has returned stays, and no callback is left.
LEMMA ResultKept ==
  ASSUME IInv, IInv', [Next]_vars, Prepares, Result = "ok"
  PROVE  Result' = "ok" /\ chunks' = chunks
  <1>1. Structured' = Structured
    BY PreparesStep DEF Structured
  <1>2. CASE Structured
    <2>1. outcome = "ok"
      BY <1>2 DEF Result
    <2>2. outcome' = "ok" /\ Calling = {}
      BY <2>1, ChunkerStep, Finished
    <2>3. chunks' = chunks
      <3>1. CASE HandOut
        BY <1>2, <3>1 DEF HandOut, Deliver, Stumble, Structured, upsert
      <3>2. CASE UNCHANGED upsert
        BY <3>2 DEF upsert
      <3>3. CASE Chunked \/ Extract \/ Save \/ Embed \/ StoreAll
        BY <3>3 DEF Chunked, Extract, Save, Embed, StoreAll
      <3>4. ASSUME NEW c \in Chunks, Load(c) \/ Store(c) PROVE chunks' = chunks
        BY <2>2, <3>4 DEF Load, Store, IInv, Inside
      <3> QED
        BY <3>1, <3>2, <3>3, <3>4, Moves
    <2> QED
      BY <1>1, <1>2, <2>2, <2>3 DEF Result
  <1>3. CASE ~Structured
    <2>1. sem = "ok"
      BY <1>3 DEF Result
    <2>2. sem' = "ok" /\ chunks' = chunks
      <3>1. CASE HandOut
        BY <2>1, <3>1 DEF HandOut, Deliver, Stumble
      <3>2. CASE UNCHANGED <<semantic, upsert>>
        BY <2>1, <3>2 DEF upsert, semantic
      <3>3. CASE Segmenter /\ UNCHANGED upsert
        BY <2>1, <3>3 DEF Segmenter, Collected, Look, Ask, Merge, Adopt, Ascend, LevelOut
      <3>4. CASE Chunked \/ Extract \/ Save \/ Embed \/ StoreAll
        BY <2>1, <3>4 DEF Chunked, Extract, Save, Embed, StoreAll, Quiet, Backend, semantic
      <3>5. ASSUME NEW c \in Chunks,
                   Load(c) \/ Store(c) \/ ((Answer(c) \/ Fallback(c)) /\ UNCHANGED upsert)
            PROVE  sem' = "ok" /\ chunks' = chunks
        <4>1. ~Store(c)
          BY <1>3 DEF Store, IInv, Inside
        <4> QED
          BY <2>1, <3>5, <4>1 DEF Load, Answer, Fallback, Become, semantic, upsert
      <3> QED
        BY <3>1, <3>2, <3>3, <3>4, <3>5, Moves
    <2> QED
      BY <1>1, <1>3, <2>2 DEF Result
  <1> QED
    BY <1>2, <1>3

LEMMA FaultsStep ==
  ASSUME [Next]_vars, faults \in 0..MaxFaults
  PROVE  faults' \in 0..MaxFaults
  <1>1. faults' = faults \/ (faults < MaxFaults /\ faults' = faults + 1)
    <2>1. CASE UNCHANGED vars
      BY <2>1 DEF vars, chunker
    <2>2. CASE GiveUp
      BY <2>2 DEF GiveUp, Cancel
    <2>3. CASE Main
      BY <2>3 DEF Main, Begin, Check, Acquire, Join, Descend, Leave, Raise
    <2>4. CASE Segmenter
      BY <2>4 DEF Segmenter, Collected, Look, Ask, Merge, Adopt, Ascend, chunker
    <2>5. CASE HandOut
      BY <2>5 DEF HandOut, Deliver, Stumble, chunker
    <2>6. CASE Chunked \/ Extract \/ Save \/ Embed \/ StoreAll
      BY <2>6 DEF Chunked, Extract, Save, Embed, StoreAll, Quiet, Fault, chunker
    <2>7. ASSUME NEW c \in Chunks, Worker(c)
          PROVE  faults' = faults \/ (faults < MaxFaults /\ faults' = faults + 1)
      BY <2>7 DEF Worker, Load, Store, Return, Collect, Answer, Fallback, Succeed, Refuse, chunker
    <2> QED
      BY <2>1, <2>2, <2>3, <2>4, <2>5, <2>6, <2>7 DEF Next, AddFile
  <1>2. MaxFaults \in Nat
    BY ChunkerAssumption
  <1> QED
    BY <1>1, <1>2

LEMMA PhasesStep ==
  ASSUME IInv, IInv', [Next]_vars, Prepares, Phases, Slice', delivered' \in Nat,
         IsFiniteSet(chunks), Cardinality(chunks) \in Nat
  PROVE  Phases'
  <1>1. /\ ByAddFile' = ByAddFile
    BY ChunkerStep DEF ByAddFile
  <1>2. faults' \in 0..MaxFaults
    BY FaultsStep DEF Phases
  <1>3. Result = "ok" => Result' = "ok" /\ chunks' = chunks
    BY ResultKept
  <1>4. IsFiniteSet(chunks') /\ Cardinality(chunks') \in Nat
    <2>1. chunks' \subseteq Chunks' \/ chunks' \subseteq 1..delivered'
      BY DEF Slice
    <2>2. IsFiniteSet(Chunks') /\ IsFiniteSet(1..delivered')
      BY ChunkerStep, FS_Interval
    <2> QED
      BY <2>1, <2>2, FS_Subset, FS_CardinalityType
  <1>5. /\ phase \in {"chunk", "extract", "save", "embed", "store", "ok", "error", "crashed"}
        /\ phase \notin {"chunk", "error"} => ByAddFile /\ Result = "ok"
        /\ stored \in 0..Cardinality(chunks) /\ (stored # 0 => Result = "ok")
        /\ phase = "ok" => stored = Cardinality(chunks)
    BY DEF Phases
  <1>6. ASSUME phase' = phase, stored' = stored PROVE Phases'
    <2>1. stored' \in 0..Cardinality(chunks')
      <3>1. CASE stored = 0
        BY <1>4, <1>6, <3>1
      <3>2. CASE stored # 0
        BY <1>3, <1>5, <1>6, <3>2
      <3> QED
        BY <3>1, <3>2
    <2>2. phase' = "ok" => stored' = Cardinality(chunks')
      BY <1>3, <1>5, <1>6
    <2> QED
      BY <1>1, <1>2, <1>3, <1>5, <1>6, <2>1, <2>2 DEF Phases
  <1>7. CASE UNCHANGED upsert
    BY <1>6, <1>7 DEF upsert
  <1>8. CASE HandOut
    BY <1>6, <1>8 DEF HandOut, upsert
  <1>9. ASSUME stored' = stored, Result = "ok", ByAddFile,
               phase' \in {"extract", "save", "embed", "store", "crashed", "error"}
        PROVE  Phases'
    <2>1. chunks' = chunks /\ Result' = "ok"
      BY <1>3, <1>9
    <2> QED
      BY <1>1, <1>2, <1>5, <1>9, <2>1 DEF Phases
  <1>10. CASE Chunked
    <2>1. CASE Result = "ok"
      BY <1>9, <1>10, <2>1 DEF Chunked
    <2>2. CASE Result # "ok"
      <3>1. phase' = "error" /\ chunks' = chunks /\ stored' = stored /\ stored = 0
        BY <1>5, <1>10, <2>2 DEF Chunked
      <3> QED
        BY <1>2, <1>5, <3>1 DEF Phases
    <2> QED
      BY <2>1, <2>2
  <1>11. CASE Extract \/ Save \/ Embed
    <2>1. phase \in {"extract", "save", "embed"} /\ stored' = stored
      BY <1>11 DEF Extract, Save, Embed
    <2>2. phase' \in {"extract", "save", "embed", "store", "crashed", "error"}
      BY <1>11 DEF Extract, Save, Embed
    <2> QED
      BY <1>5, <1>9, <2>1, <2>2
  <1>12. CASE StoreAll
    <2>1. phase = "store" /\ chunks' = chunks
      BY <1>12 DEF StoreAll
    <2>2. ByAddFile /\ Result = "ok" /\ Result' = "ok"
      BY <1>3, <1>5, <2>1
    <2>3. \/ phase' = "ok" /\ stored' = Cardinality(chunks)
          \/ /\ phase' = "error"
             /\ stored' \in {Min({k * BatchSize, Cardinality(chunks)}) : k \in 0..Cardinality(chunks)}
      BY <1>12 DEF StoreAll
    <2>4. stored' \in 0..Cardinality(chunks)
      <3>1. PICK n \in Nat : n = Cardinality(chunks)
        OBVIOUS
      <3>2. ASSUME NEW k \in 0..n PROVE Min({k * BatchSize, n}) \in 0..n
        <4>1. PICK b \in Nat : b = k * BatchSize
          <5>1. BatchSize \in Nat
            BY IngestAssumption
          <5> QED
            BY <5>1
        <4> QED
          BY <4>1, LessOf
      <3>3. n \in 0..n
        OBVIOUS
      <3> QED
        BY <2>3, <3>1, <3>2, <3>3
    <2> QED
      BY <1>1, <1>2, <2>1, <2>2, <2>3, <2>4 DEF Phases
  <1>13. ASSUME NEW c \in Chunks, Load(c) \/ Store(c) PROVE Phases'
    BY <1>6, <1>13 DEF Load, Store
  <1> QED
    BY <1>7, <1>8, <1>10, <1>11, <1>12, <1>13, Moves

-----------------------------------------------------------------------------
(* The segments of all windows, one after the other.                       *)

FlattenBody(f, s, i) == IF i = 1 THEN s[i] ELSE f[i-1] \o s[i]

LEMMA FlattenUnfolds ==
  ASSUME NEW s, Len(s) \in Nat \ {0}
  PROVE  \E f : f = [i \in 1..Len(s) |-> FlattenBody(f, s, i)] /\ FlattenSeq(s) = f[Len(s)]
  <1> DEFINE T == {n \in Nat : n <= Len(s) /\ ~\E f : f = [i \in 1..n |-> FlattenBody(f, s, i)]}
  <1>1. T = {}
    <2> SUFFICES ASSUME T # {} PROVE FALSE
      OBVIOUS
    <2>1. PICK n \in T : \A m \in T : n <= m
      <3>1. T \in SUBSET Nat
        OBVIOUS
      <3> HIDE DEF T
      <3> QED
        BY <3>1, Least
    <2>2. n \in Nat /\ n <= Len(s) /\ ~\E f : f = [i \in 1..n |-> FlattenBody(f, s, i)]
      OBVIOUS
    <2>3. n # 0
      <3> SUFFICES ASSUME n = 0 PROVE FALSE
        OBVIOUS
      <3> DEFINE f == [i \in {} |-> {}]
      <3>1. f = [i \in 1..n |-> FlattenBody(f, s, i)]
        OBVIOUS
      <3> QED
        BY <2>2, <3>1
    <2>4. n - 1 \in Nat /\ n - 1 <= Len(s) /\ n - 1 \notin T
      <3> HIDE DEF T
      <3> QED
        BY <2>1, <2>2, <2>3
    <2>5. PICK f : f = [i \in 1..n - 1 |-> FlattenBody(f, s, i)]
      BY <2>4
    <2> HIDE DEF T
    <2> DEFINE g == [i \in 1..n |-> FlattenBody(f, s, i)]
    <2>6. \A i \in 1..n - 1 : g[i] = f[i]
      BY <2>2, <2>5
    <2>7. ASSUME NEW i \in 1..n PROVE FlattenBody(g, s, i) = FlattenBody(f, s, i)
      <3>1. i = 1 \/ i - 1 \in 1..n - 1
        BY <2>2
      <3>2. i = 1 \/ g[i-1] = f[i-1]
        BY <3>1, <2>6
      <3> HIDE DEF g
      <3> QED
        BY <3>2 DEF FlattenBody
    <2>8. g = [i \in 1..n |-> FlattenBody(g, s, i)]
      <3>1. g = [i \in 1..n |-> FlattenBody(f, s, i)]
        OBVIOUS
      <3> HIDE DEF g
      <3> QED
        BY <3>1, <2>7
    <2> QED
      BY <2>2, <2>8
  <1>2. PICK f : f = [i \in 1..Len(s) |-> FlattenBody(f, s, i)]
    BY <1>1
  <1> DEFINE h == CHOOSE f_1 : f_1 = [i \in 1..Len(s) |-> FlattenBody(f_1, s, i)]
  <1>3. h = [i \in 1..Len(s) |-> FlattenBody(h, s, i)]
    BY <1>2, Zenon
  <1>4. FlattenSeq(s) = h[Len(s)]
    BY DEF FlattenSeq, FlattenBody
  <1> HIDE DEF h
  <1> QED
    BY <1>3, <1>4

LEMMA Joined ==
  ASSUME NEW T, NEW s \in Seq(T), NEW t \in Seq(T)
  PROVE  /\ s \o t \in Seq(T) /\ ToSet(s \o t) = ToSet(s) \cup ToSet(t)
         /\ s # <<>> => s \o t # <<>>
  <1>1. PICK m, n \in Nat : m = Len(s) /\ n = Len(t)
    OBVIOUS
  <1>2. s \o t \in Seq(T) /\ Len(s \o t) = m + n
    BY <1>1
  <1>3. \A i \in 1..m : (s \o t)[i] = s[i]
    BY <1>1
  <1>4. ASSUME NEW i \in 1..n PROVE (s \o t)[m + i] = t[i]
    <2>1. m + i \in 1..m + n /\ ~(m + i <= m) /\ m + i - m = i
      BY <1>1
    <2> QED
      BY <1>1, <2>1
  <1>5. DOMAIN s = 1..m /\ DOMAIN t = 1..n /\ DOMAIN (s \o t) = 1..m + n
    BY <1>1, <1>2
  <1>6. PICK r : r = s \o t
    OBVIOUS
  <1>7. ASSUME NEW i \in 1..m + n PROVE r[i] \in ToSet(s) \cup ToSet(t)
    <2>1. CASE i <= m
      <3>1. i \in 1..m
        BY <1>7, <2>1, <1>1
      <3> QED
        BY <1>3, <1>5, <1>6, <3>1 DEF ToSet
    <2>2. CASE ~(i <= m)
      <3>1. PICK j \in 1..n : i = m + j
        <4>1. i - m \in 1..n /\ i = m + (i - m)
          BY <1>1, <1>7, <2>2
        <4> QED
          BY <4>1
      <3> QED
        BY <1>4, <1>5, <1>6, <3>1 DEF ToSet
    <2> QED
      BY <2>1, <2>2
  <1>8. \A i \in 1..m : s[i] \in ToSet(r)
    <2>1. \A i \in 1..m : i \in 1..m + n
      BY <1>1
    <2> QED
      BY <1>3, <1>5, <1>6, <2>1 DEF ToSet
  <1>9. \A i \in 1..n : t[i] \in ToSet(r)
    <2>1. \A i \in 1..n : m + i \in 1..m + n
      BY <1>1
    <2> QED
      BY <1>4, <1>5, <1>6, <2>1 DEF ToSet
  <1>10. ToSet(r) = ToSet(s) \cup ToSet(t)
    <2>1. ToSet(r) \subseteq ToSet(s) \cup ToSet(t)
      BY <1>5, <1>6, <1>7 DEF ToSet
    <2>2. ToSet(s) \cup ToSet(t) \subseteq ToSet(r)
      BY <1>5, <1>8, <1>9 DEF ToSet
    <2> QED
      BY <2>1, <2>2
  <1>11. s # <<>> => r # <<>>
    <2> SUFFICES ASSUME s # <<>> PROVE r # <<>>
      OBVIOUS
    <2>1. m # 0
      BY <1>1
    <2>2. 1 \in 1..m + n
      BY <1>1, <2>1
    <2> QED
      BY <1>5, <1>6, <2>2
  <1> QED
    BY <1>2, <1>6, <1>10, <1>11

LEMMA Flattened ==
  ASSUME NEW T, NEW s, Len(s) \in Nat \ {0}, \A i \in 1..Len(s) : s[i] \in Seq(T)
  PROVE  /\ FlattenSeq(s) \in Seq(T)
         /\ \A x : x \in ToSet(FlattenSeq(s)) <=> \E i \in 1..Len(s) : x \in ToSet(s[i])
         /\ s[1] # <<>> => FlattenSeq(s) # <<>>
  <1>1. PICK f : f = [i \in 1..Len(s) |-> FlattenBody(f, s, i)] /\ FlattenSeq(s) = f[Len(s)]
    BY FlattenUnfolds
  <1>2. PICK m \in Nat \ {0} : m = Len(s)
    OBVIOUS
  <1> DEFINE Good(i) == /\ f[i] \in Seq(T)
                        /\ \A x : x \in ToSet(f[i]) <=> \E j \in 1..i : x \in ToSet(s[j])
                        /\ (s[1] # <<>> => f[i] # <<>>)
             Bad == {i \in Nat : i \in 1..m /\ ~Good(i)}
  <1>3. Good(1)
    <2>1. f[1] = s[1]
      BY <1>1, <1>2 DEF FlattenBody
    <2>2. 1..1 = {1} /\ 1 \in 1..m
      BY <1>2
    <2>3. \A x : x \in ToSet(s[1]) <=> \E j \in 1..1 : x \in ToSet(s[j])
      BY <2>2
    <2> QED
      BY <1>2, <2>1, <2>2, <2>3
  <1>4. ASSUME NEW i \in Nat, i + 1 \in 1..m, i # 0, Good(i) PROVE Good(i + 1)
    <2>1. f[i + 1] = f[i] \o s[i + 1]
      <3>1. i + 1 # 1 /\ (i + 1) - 1 = i
        BY <1>4
      <3>2. PICK k \in 1..m : k = i + 1
        BY <1>4
      <3>3. f[k] = f[k-1] \o s[k]
        BY <1>1, <1>2, <3>1, <3>2 DEF FlattenBody
      <3> QED
        BY <3>1, <3>2, <3>3
    <2>2. s[i + 1] \in Seq(T) /\ f[i] \in Seq(T)
      BY <1>2, <1>4
    <2>3. /\ f[i + 1] \in Seq(T) /\ ToSet(f[i + 1]) = ToSet(f[i]) \cup ToSet(s[i + 1])
          /\ f[i] # <<>> => f[i + 1] # <<>>
      BY <2>1, <2>2, Joined
    <2>4. 1..i + 1 = (1..i) \cup {i + 1}
      BY <1>4
    <2>5. ASSUME NEW x PROVE x \in ToSet(f[i + 1]) <=> \E j \in 1..i + 1 : x \in ToSet(s[j])
      BY <1>4, <2>3, <2>4
    <2> QED
      BY <1>4, <2>3, <2>5
  <1> HIDE DEF Good
  <1>5. Bad = {}
    <2> SUFFICES ASSUME Bad # {} PROVE FALSE
      OBVIOUS
    <2>1. PICK n \in Bad : \A k \in Bad : n <= k
      <3>1. Bad \in SUBSET Nat
        OBVIOUS
      <3> HIDE DEF Bad
      <3> QED
        BY <3>1, Least
    <2>2. n \in Nat /\ n \in 1..m /\ ~Good(n)
      OBVIOUS
    <2>3. n # 1
      BY <1>3, <2>2
    <2>4. PICK i \in Nat : n = i + 1 /\ i # 0 /\ i \in 1..m /\ i < n
      <3>1. n - 1 \in Nat /\ n = (n - 1) + 1 /\ n - 1 # 0 /\ n - 1 \in 1..m /\ n - 1 < n
        BY <1>2, <2>2, <2>3
      <3> QED
        BY <3>1
    <2>5. i \notin Bad
      BY <2>1, <2>4
    <2>6. Good(i)
      BY <2>4, <2>5
    <2> QED
      BY <1>4, <2>2, <2>4, <2>6
  <1>6. Good(m)
    BY <1>2, <1>5
  <1> QED
    BY <1>1, <1>2, <1>6 DEF Good

\* A segment of an answer as it is merged.
Segment(a, k) == [lo |-> a.segments[k][1], hi |-> a.segments[k][2], orphan |-> a.fallback]

LEMMA FlatFacts ==
  ASSUME Len(tree) \in Nat \ {0}, \A w \in 1..Len(tree) : Answered(answers[w])
  PROVE  /\ Flat \in Seq(SegmentType) /\ Flat # <<>>
         /\ \A x : x \in ToSet(Flat) <=>
              \E w \in 1..Len(tree) : \E k \in DOMAIN answers[w].segments : x = Segment(answers[w], k)
  <1> DEFINE Of(w) == [k \in DOMAIN answers[w].segments |-> Segment(answers[w], k)]
             s == [w \in 1..Len(tree) |-> Of(w)]
  <1>1. Flat = FlattenSeq(s)
    BY DEF Flat, Segment
  <1>2. Len(s) = Len(tree) /\ \A w \in 1..Len(tree) : s[w] = Of(w)
    OBVIOUS
  <1>3. ASSUME NEW w \in 1..Len(tree)
        PROVE  /\ Of(w) \in Seq(SegmentType) /\ Of(w) # <<>>
               /\ \A x : x \in ToSet(Of(w)) <=>
                    \E k \in DOMAIN answers[w].segments : x = Segment(answers[w], k)
    <2>1. PICK a : a = answers[w]
      OBVIOUS
    <2>2. PICK q \in Seq(Nat \X Nat) : q = a.segments
      BY <2>1 DEF Answered
    <2>3. DOMAIN q = 1..Len(q) /\ Len(q) \in Nat \ {0}
      BY <2>1, <2>2 DEF Answered
    <2>4. a.fallback \in BOOLEAN
      BY <2>1 DEF Answered
    <2>5. ASSUME NEW k \in 1..Len(q) PROVE Segment(a, k) \in SegmentType
      <3>1. q[k] \in Nat \X Nat
        BY <2>5
      <3>2. q[k][1] \in Nat /\ q[k][2] \in Nat
        BY <3>1
      <3> QED
        BY <2>2, <2>4, <3>2 DEF Segment, SegmentType
    <2>6. PICK r : r = [k \in 1..Len(q) |-> Segment(a, k)]
      OBVIOUS
    <2>7. r \in Seq(SegmentType) /\ Len(r) = Len(q) /\ r # <<>>
      BY <2>3, <2>5, <2>6
    <2>8. \A x : x \in ToSet(r) <=> \E k \in 1..Len(q) : x = Segment(a, k)
      BY <2>6 DEF ToSet
    <2>9. Of(w) = r
      BY <2>1, <2>2, <2>3, <2>6
    <2> QED
      BY <2>1, <2>2, <2>3, <2>7, <2>8, <2>9
  <1> HIDE DEF s, Of
  <1>4. \A w \in 1..Len(s) : s[w] \in Seq(SegmentType)
    BY <1>2, <1>3
  <1>5. /\ FlattenSeq(s) \in Seq(SegmentType)
        /\ \A x : x \in ToSet(FlattenSeq(s)) <=> \E i \in 1..Len(s) : x \in ToSet(s[i])
        /\ s[1] # <<>> => FlattenSeq(s) # <<>>
    BY <1>2, <1>4, Flattened
  <1>6. s[1] # <<>>
    BY <1>2, <1>3
  <1>7. \A x : x \in ToSet(FlattenSeq(s)) <=>
              \E w \in 1..Len(tree) : \E k \in DOMAIN answers[w].segments : x = Segment(answers[w], k)
    <2> SUFFICES ASSUME NEW x
                 PROVE  x \in ToSet(FlattenSeq(s)) <=>
                   \E w \in 1..Len(tree) : \E k \in DOMAIN answers[w].segments :
                     x = Segment(answers[w], k)
      OBVIOUS
    <2>1. \A i \in 1..Len(tree) : x \in ToSet(s[i]) <=>
            \E k \in DOMAIN answers[i].segments : x = Segment(answers[i], k)
      BY <1>2, <1>3
    <2> QED
      BY <1>2, <1>5, <2>1
  <1> QED
    BY <1>1, <1>5, <1>6, <1>7

\* What Become makes of the answers.
LEMMA BecomeFacts ==
  ASSUME NEW w, NEW segments, NEW fallback, Become(w, segments, fallback)
  PROVE  /\ asked' = asked \ {w} /\ DOMAIN answers' = DOMAIN answers \cup {w}
         /\ answers'[w].segments = segments /\ answers'[w].fallback = fallback
         /\ \A x \in DOMAIN answers : x # w => answers'[x] = answers[x]
  BY DEF Become

LEMMA WindowsStep ==
  ASSUME IInv, IInv', [Next]_vars, Prepares, Placed, Windows,
         pieces \in Seq(PieceType), pieces' \in Seq(PieceType),
         sem = "output" => Len(pieces) <= Len(pieces'),
         sem = "output" /\ sem' = "ok" => Len(pieces') = Len(pieces)
  PROVE  Windows'
  <1>1. /\ use' = use /\ Len(tree) \in Nat /\ Len(tree') \in Nat /\ Len(tree) <= Len(tree')
        /\ Chunks = 1..Len(tree) /\ (sem = "off" <=> sem' = "off")
        /\ outcome = "ok" => outcome' = "ok" /\ tree' = tree
    BY ChunkerStep, PreparesStep
  <1>2. /\ sem \in {"off", "windows", "segment", "acquire", "output", "ok", "error"}
        /\ sem \in {"segment", "acquire", "output", "ok"} => outcome = "ok"
        /\ window \in 1..Len(tree) + 1 /\ (window # 1 => outcome = "ok")
        /\ sem \in {"off", "windows"} => window = 1
        /\ sem \in {"off", "windows", "segment", "acquire"} => base = <<>> /\ pieces = <<>>
        /\ asked \subseteq 1..window - 1 /\ asked \cup DOMAIN answers = 1..window - 1
        /\ asked \cap DOMAIN answers = {} /\ (sem # "off" => Cardinality(asked) <= use.asks)
        /\ \A w \in DOMAIN answers : Answered(answers[w])
        /\ sem = "acquire" => window <= Len(tree)
        /\ sem \in {"output", "ok"} => window = Len(tree) + 1 /\ asked = {} /\ base = Flat
        /\ delivered \in 0..Len(pieces) /\ (sem = "ok" => delivered = Len(pieces))
        /\ base \in Seq(SegmentType)
    BY DEF Windows
  <1>3. Len(pieces) \in Nat /\ Len(pieces') \in Nat /\ window \in Nat /\ use' = use
        /\ window \in 1..Len(tree') + 1
    BY <1>1, <1>2
  <1>4. tree' = tree /\ answers' = answers => Flat' = Flat
    BY DEF Flat
  <1>5. CASE UNCHANGED semantic
    <2>1. sem' = sem /\ window' = window /\ asked' = asked /\ answers' = answers /\ base' = base
          /\ pieces' = pieces /\ delivered' = delivered
      BY <1>5 DEF semantic
    <2>2. /\ sem \in {"segment", "acquire", "output", "ok"} => outcome' = "ok" /\ tree' = tree
          /\ window # 1 => outcome' = "ok"
          /\ sem \in {"output", "ok"} => Flat' = Flat
      BY <1>1, <1>2, <1>4, <2>1
    <2> QED
      BY <1>1, <1>2, <1>3, <2>1, <2>2 DEF Windows
  <1>6. CASE Collected
    <2>1. /\ sem = "windows" /\ ((sem' = "segment" /\ outcome = "ok") \/ sem' = "error")
          /\ tree' = tree /\ window' = window /\ asked' = asked /\ answers' = answers /\ base' = base
          /\ pieces' = pieces /\ delivered' = delivered
      BY <1>6 DEF Collected, chunker, progress
    <2> QED
      BY <1>1, <1>2, <1>3, <2>1 DEF Windows
  <1>7. CASE Look
    <2>1. /\ sem = "segment" /\ window <= Len(tree) /\ (sem' = "acquire" \/ sem' = "error")
          /\ tree' = tree /\ window' = window /\ asked' = asked /\ answers' = answers /\ base' = base
          /\ pieces' = pieces /\ delivered' = delivered
      BY <1>7 DEF Look, chunker, progress
    <2> QED
      BY <1>1, <1>2, <1>3, <2>1 DEF Windows
  <1>8. CASE Ask
    <2>1. /\ sem = "acquire" /\ sem' = "segment" /\ window' = window + 1
          /\ asked' = asked \cup {window} /\ Cardinality(asked) < use.asks
          /\ tree' = tree /\ answers' = answers /\ base' = base
          /\ pieces' = pieces /\ delivered' = delivered
      BY <1>8 DEF Ask, chunker
    <2>2. window <= Len(tree) /\ outcome = "ok" /\ base = <<>> /\ pieces = <<>>
      BY <1>2, <2>1
    <2>3. PICK w \in Nat : w = window
      BY <1>3
    <2>4. 1..(w + 1) - 1 = (1..w - 1) \cup {w} /\ w \notin 1..w - 1 /\ w # 0
      BY <1>2, <2>3
    <2>5. asked' \subseteq 1..window' - 1 /\ asked' \cup DOMAIN answers' = 1..window' - 1
          /\ asked' \cap DOMAIN answers' = {}
      BY <1>2, <2>1, <2>3, <2>4
    <2>6. Cardinality(asked') <= use.asks
      <3>1. IsFiniteSet(asked) /\ Cardinality(asked) \in Nat
        <4>1. IsFiniteSet(1..w - 1)
          BY FS_Interval
        <4> QED
          BY <1>2, <2>3, <4>1, FS_Subset, FS_CardinalityType
      <3>2. Cardinality(asked \cup {w}) <= Cardinality(asked) + 1 /\ Cardinality(asked \cup {w}) \in Nat
        <4>1. Cardinality(asked \cup {w}) = IF w \in asked THEN Cardinality(asked)
                                            ELSE Cardinality(asked) + 1
          BY <3>1, FS_AddElement
        <4> QED
          BY <3>1, <4>1
      <3>3. use.asks \in Nat
        BY <2>1 DEF Prepares
      <3>4. PICK m, n \in Nat : m = Cardinality(asked) /\ n = Cardinality(asked \cup {w})
        BY <3>1, <3>2
      <3>5. n <= m + 1 /\ m < use.asks
        BY <2>1, <3>2, <3>4
      <3>6. n <= use.asks
        BY <3>3, <3>5
      <3> QED
        BY <2>1, <2>3, <3>4, <3>6
    <2>7. window' \in 1..Len(tree') + 1
      BY <1>1, <1>2, <2>1, <2>2
    <2> QED
      BY <1>1, <1>2, <1>3, <2>1, <2>2, <2>5, <2>6, <2>7 DEF Windows
  <1>9. CASE Merge
    <2>1. /\ sem = "segment" /\ window > Len(tree) /\ asked = {} /\ sem' = "output"
          /\ tree' = tree /\ window' = window /\ asked' = asked /\ answers' = answers
          /\ delivered' = delivered /\ base' = Flat
      BY <1>9 DEF Merge, Flat, chunker
    <2>2. outcome = "ok" /\ pieces = <<>> /\ delivered = 0 /\ outcome' = "ok" /\ window = Len(tree) + 1
      BY <1>1, <1>2, <2>1
    <2>3. Flat \in Seq(SegmentType) /\ Flat' = Flat
      <3>1. Len(tree) \in Nat \ {0}
        <4>1. tree # <<>> /\ tree \in Seq(ChunkType)
          BY <2>2 DEF Placed, IInv, Typed
        <4> QED
          BY <4>1
      <3>2. \A w \in 1..Len(tree) : Answered(answers[w])
        <4>1. DOMAIN answers = 1..Len(tree)
          BY <1>1, <1>2, <2>1, <2>2
        <4> QED
          BY <1>2, <4>1
      <3> QED
        BY <1>4, <2>1, <3>1, <3>2, FlatFacts
    <2> QED
      BY <1>1, <1>2, <1>3, <2>1, <2>2, <2>3 DEF Windows
  <1>10. CASE Adopt \/ Ascend
    <2>1. /\ sem = "output" /\ sem' \in {"output", "ok", "error"} /\ delivered = Len(pieces)
          /\ tree' = tree /\ window' = window /\ asked' = asked /\ answers' = answers
          /\ base' = base /\ delivered' = delivered
      BY <1>10 DEF Adopt, Ascend, LevelOut, chunker, progress
    <2>2. outcome = "ok" /\ outcome' = "ok" /\ Flat' = Flat
      BY <1>1, <1>2, <1>4, <2>1
    <2>3. delivered' \in 0..Len(pieces') /\ (sem' = "ok" => delivered' = Len(pieces'))
      BY <1>3, <2>1
    <2> QED
      BY <1>1, <1>2, <1>3, <2>1, <2>2, <2>3 DEF Windows
  <1>11. CASE HandOut
    <2>1. /\ sem = "output" /\ delivered < Len(pieces)
          /\ \/ sem' = "output" /\ delivered' = delivered + 1
             \/ sem' = "error" /\ delivered' = delivered
          /\ tree' = tree /\ window' = window /\ asked' = asked /\ answers' = answers
          /\ base' = base /\ pieces' = pieces
      BY <1>11 DEF HandOut, Deliver, Stumble, chunker, progress
    <2>2. outcome = "ok" /\ outcome' = "ok" /\ Flat' = Flat
      BY <1>1, <1>2, <1>4, <2>1
    <2>3. delivered' \in 0..Len(pieces')
      BY <1>2, <1>3, <2>1
    <2> QED
      BY <1>1, <1>2, <1>3, <2>1, <2>2, <2>3 DEF Windows
  <1>12. CASE Chunked \/ Extract \/ Save \/ Embed \/ StoreAll
    BY <1>5, <1>12 DEF Chunked, Extract, Save, Embed, StoreAll, Quiet, Backend
  <1>13. ASSUME NEW c \in Chunks, Load(c) \/ Store(c) PROVE Windows'
    BY <1>5, <1>13 DEF Load, Store
  <1>14. ASSUME NEW c \in Chunks, Answer(c) \/ Fallback(c) PROVE Windows'
    <2>1. /\ c \in asked
          /\ \E l, f : /\ Become(c, l, f) /\ f \in BOOLEAN
                       /\ l \in Seq(Nat \X Nat) /\ l # <<>>
      <3>1. tree[c].lo \in Nat /\ tree[c].hi \in Nat
        <4>1. 0 <= tree[c].lo /\ tree[c].lo <= tree[c].hi
          BY DEF Placed
        <4> QED
          BY <4>1, ChunkFields DEF IInv, Typed
      <3>2. CASE Fallback(c)
        <4>1. PICK a, b \in Nat : a = tree[c].lo /\ b = tree[c].hi
          BY <3>1
        <4>2. c \in asked /\ Become(c, <<(<<a, b>>)>>, TRUE)
          BY <3>2, <4>1 DEF Fallback
        <4>3. <<(<<a, b>>)>> \in Seq(Nat \X Nat) /\ <<(<<a, b>>)>> # <<>>
          OBVIOUS
        <4> QED
          BY <4>2, <4>3
      <3>3. CASE Answer(c)
        <4>1. c \in asked
          BY <3>3 DEF Answer
        <4>2. PICK n \in 1..MaxAnswer : \E l \in [1..n -> Valid(c)] : Become(c, l, FALSE)
          BY <3>3 DEF Answer
        <4>3. PICK l \in [1..n -> Valid(c)] : Become(c, l, FALSE)
          BY <4>2
        <4>4. Valid(c) \subseteq Nat \X Nat
          BY DEF Valid, IInv, Typed, Usable
        <4>5. n \in Nat \ {0}
          BY SemanticAssumption, <4>2
        <4>6. l \in Seq(Nat \X Nat) /\ Len(l) = n
          BY <4>3, <4>4, <4>5
        <4>7. l # <<>>
          BY <4>5, <4>6
        <4> QED
          BY <4>1, <4>3, <4>6, <4>7
      <3> QED
        BY <1>14, <3>2, <3>3
    <2>2. PICK l, f : Become(c, l, f) /\ f \in BOOLEAN /\ l \in Seq(Nat \X Nat) /\ l # <<>>
      BY <2>1
    <2>3. /\ asked' = asked \ {c} /\ DOMAIN answers' = DOMAIN answers \cup {c}
          /\ answers'[c].segments = l /\ answers'[c].fallback = f
          /\ \A x \in DOMAIN answers : x # c => answers'[x] = answers[x]
      BY <2>2, BecomeFacts
    <2>4. /\ tree' = tree /\ outcome' = outcome /\ sem' = sem /\ window' = window /\ base' = base
          /\ pieces' = pieces /\ delivered' = delivered
      BY <2>2 DEF Become
    <2>5. \A w \in DOMAIN answers' : Answered(answers'[w])
      <3>1. Answered(answers'[c])
        BY <2>2, <2>3 DEF Answered
      <3> QED
        BY <1>2, <2>3, <3>1
    <2>6. c \in asked /\ sem \notin {"output", "ok"}
      BY <1>2, <2>1
    <2>7. asked' \subseteq 1..window' - 1 /\ asked' \cup DOMAIN answers' = 1..window' - 1
          /\ asked' \cap DOMAIN answers' = {}
      BY <1>2, <2>3, <2>4, <2>6
    <2>8. sem # "off" => Cardinality(asked') <= use.asks
      <3> SUFFICES ASSUME sem # "off" PROVE Cardinality(asked') <= use.asks
        OBVIOUS
      <3>1. IsFiniteSet(asked)
        <4>1. IsFiniteSet(1..window - 1)
          BY <1>3, FS_Interval
        <4> QED
          BY <1>2, <4>1, FS_Subset
      <3>2. /\ Cardinality(asked') <= Cardinality(asked) /\ Cardinality(asked) \in Nat
            /\ Cardinality(asked') \in Nat
        <4>1. asked' \subseteq asked
          BY <2>3
        <4> QED
          BY <3>1, <4>1, FS_Subset, FS_CardinalityType
      <3>3. PICK m, n \in Nat : m = Cardinality(asked') /\ n = Cardinality(asked)
        BY <3>2
      <3>4. m <= n /\ n <= use.asks /\ use.asks \in Nat
        BY <1>2, <3>2, <3>3 DEF Prepares
      <3>5. m <= use.asks
        BY <3>4
      <3> QED
        BY <3>3, <3>5
    <2> QED
      BY <1>1, <1>2, <1>3, <2>3, <2>4, <2>5, <2>6, <2>7, <2>8 DEF Windows
  <1> QED
    BY <1>5, <1>6, <1>7, <1>8, <1>9, <1>10, <1>11, <1>12, <1>13, <1>14, Moves DEF Segmenter

-----------------------------------------------------------------------------
(* The levels of the semantic chunker.                                     *)

LEMMA PieceFields ==
  ASSUME pieces \in Seq(PieceType)
  PROVE  /\ Len(pieces) \in Nat /\ DOMAIN pieces = 1..Len(pieces)
         /\ \A i \in DOMAIN pieces :
              /\ i \in Nat /\ pieces[i] \in PieceType
              /\ pieces[i].first \in Nat /\ pieces[i].last \in Nat
              /\ pieces[i].depth \in Nat /\ pieces[i].parent \in Nat
  <1>1. Len(pieces) \in Nat /\ DOMAIN pieces = 1..Len(pieces)
    OBVIOUS
  <1>2. ASSUME NEW i \in DOMAIN pieces
        PROVE  /\ i \in Nat /\ pieces[i] \in PieceType
               /\ pieces[i].first \in Nat /\ pieces[i].last \in Nat
               /\ pieces[i].depth \in Nat /\ pieces[i].parent \in Nat
    <2>1. i \in Nat /\ pieces[i] \in PieceType
      BY <1>1
    <2> QED
      BY <2>1 DEF PieceType
  <1> QED
    BY <1>1, <1>2

\* The lowest level comes first, and the last one that was made is the highest.
LEMMA DepthFacts ==
  ASSUME Piles, pieces # <<>>
  PROVE  /\ Len(pieces) \in Nat \ {0} /\ Len(pieces) \in LevelOf(Depth)
         /\ Depth \in 1..use.levels /\ Depth \in Nat
         /\ \A i \in DOMAIN pieces : Depth <= pieces[i].depth
         /\ \A d : LevelOf(d) \subseteq 1..Len(pieces)
         /\ \A i, j \in DOMAIN pieces : i < j /\ i \in LevelOf(Depth) => j \in LevelOf(Depth)
  <1>1. /\ pieces \in Seq(PieceType)
        /\ \A i \in DOMAIN pieces : pieces[i].depth \in 1..use.levels
        /\ \A i, j \in DOMAIN pieces : i < j => pieces[i].depth >= pieces[j].depth
    BY DEF Piles
  <1>2. PICK n \in Nat \ {0} : n = Len(pieces)
    BY <1>1
  <1>3. DOMAIN pieces = 1..n /\ n \in 1..n
    BY <1>1, <1>2
  <1>4. PICK e : e = pieces[n].depth
    OBVIOUS
  <1>5. Depth = e
    BY <1>2, <1>4 DEF Depth
  <1>6. e \in 1..use.levels /\ e \in Nat
    BY <1>1, <1>3, <1>4
  <1>7. ASSUME NEW i \in 1..n PROVE e <= pieces[i].depth /\ pieces[i].depth \in Nat
    <2>1. pieces[i].depth \in Nat
      BY <1>1, <1>3
    <2>2. CASE i = n
      BY <1>4, <1>6, <2>2
    <2>3. CASE i # n
      <3>1. i < n
        BY <2>3
      <3>2. pieces[i].depth >= pieces[n].depth
        BY <1>1, <1>3, <3>1
      <3> QED
        BY <1>4, <1>6, <2>1, <3>2
    <2> QED
      BY <2>1, <2>2, <2>3
  <1>8. ASSUME NEW i \in 1..n, NEW j \in 1..n, i < j, pieces[i].depth = e
        PROVE  pieces[j].depth = e
    <2>1. pieces[j].depth <= e
      BY <1>1, <1>3, <1>7, <1>8
    <2> QED
      BY <1>6, <1>7, <2>1
  <1> QED
    BY <1>2, <1>3, <1>4, <1>5, <1>6, <1>7, <1>8 DEF LevelOf

\* A chunk has the text of each it holds.
LEMMA HoldsText ==
  ASSUME base \in Seq(SegmentType), pieces \in Seq(PieceType),
         NEW p \in DOMAIN pieces, NEW c \in DOMAIN pieces, Holds(p, c),
         1 <= pieces[c].first, pieces[c].first <= pieces[c].last, pieces[c].last <= Len(base)
  PROVE  HasText(pieces[p], pieces[c])
  <1>1. PICK a, b, f, l \in Nat : /\ a = pieces[c].first /\ b = pieces[c].last
                                  /\ f = pieces[p].first /\ l = pieces[p].last
    BY PieceFields
  <1>2. f <= a /\ b <= l /\ 1 <= a /\ a <= b /\ b <= Len(base)
    BY <1>1 DEF Holds
  <1>3. a \in f..l - (b - a)
    BY <1>2
  <1>4. ASSUME NEW k \in 0..b - a
        PROVE  base[a + k].lo <= base[a + k].lo /\ base[a + k].hi <= base[a + k].hi
    <2>1. a + k \in 1..Len(base)
      BY <1>2
    <2>2. base[a + k] \in SegmentType
      BY <2>1
    <2>3. base[a + k].lo \in Nat /\ base[a + k].hi \in Nat
      BY <2>2 DEF SegmentType
    <2> QED
      BY <2>3
  <1>5. PICK P, C : P = pieces[p] /\ C = pieces[c]
    OBVIOUS
  <1>6. C.first = a /\ C.last = b /\ P.first = f /\ P.last = l
    BY <1>1, <1>5
  <1>7. HasText(P, C)
    BY <1>3, <1>4, <1>6 DEF HasText
  <1> QED
    BY <1>5, <1>7

\* A chunk of a level is in at most one chunk of another, and those to the left of it
\* in none to the right.
LEMMA Apart ==
  ASSUME pieces \in Seq(PieceType), NEW d, NEW e, Spans(d), Spans(e),
         NEW p \in LevelOf(d), NEW q \in LevelOf(d), NEW c \in LevelOf(e), NEW k \in LevelOf(e),
         Holds(p, c), Holds(q, k), k <= c
  PROVE  q <= p
  <1> SUFFICES ASSUME ~(q <= p) PROVE FALSE
    OBVIOUS
  <1>1. p \in DOMAIN pieces /\ q \in DOMAIN pieces /\ c \in DOMAIN pieces /\ k \in DOMAIN pieces
    BY DEF LevelOf
  <1>2. p < q
    BY <1>1, PieceFields
  <1>3. pieces[p].last < pieces[q].first
    BY <1>2 DEF Spans
  <1>4. PICK pl, qf, cf, cl, kf, kl \in Nat :
          /\ pl = pieces[p].last /\ qf = pieces[q].first /\ cf = pieces[c].first
          /\ cl = pieces[c].last /\ kf = pieces[k].first /\ kl = pieces[k].last
    BY <1>1, PieceFields
  <1>5. cf <= cl /\ kf <= kl
    BY <1>4 DEF Spans
  <1>6. cl <= pl /\ qf <= kf
    BY <1>4 DEF Holds
  <1>7. kl <= cl
    <2>1. CASE k = c
      BY <1>4, <2>1
    <2>2. CASE k # c
      <3>1. k < c
        BY <1>1, <2>2, PieceFields
      <3>2. kl < cf
        BY <1>4, <3>1 DEF Spans
      <3> QED
        BY <1>4, <1>5, <3>2
    <2> QED
      BY <2>1, <2>2
  <1> QED
    BY <1>3, <1>4, <1>5, <1>6, <1>7

\* The lowest level as it is made.
LEMMA MergePiles ==
  ASSUME NEW n \in Nat \ {0}, NEW L \in Nat \ {0}, base' \in Seq(SegmentType), Len(base') = n,
         use'.levels = L, pieces' = [k \in 1..n |-> Piece(k, k, L, 0)], sem' = "output"
  PROVE  Piles' /\ pieces' \in Seq(PieceType) /\ Len(pieces') = n
  <1>1. ASSUME NEW k \in 1..n
        PROVE  /\ pieces'[k] \in PieceType /\ pieces'[k].first = k /\ pieces'[k].last = k
               /\ pieces'[k].depth = L /\ pieces'[k].parent = 0
    <2>1. pieces'[k] = [first |-> k, last |-> k, depth |-> L, parent |-> 0]
      BY DEF Piece
    <2> QED
      BY <2>1 DEF PieceType
  <1>2. pieces' \in Seq(PieceType) /\ Len(pieces') = n /\ DOMAIN pieces' = 1..n
    <2>1. pieces' = [k \in 1..n |-> pieces'[k]]
      OBVIOUS
    <2> QED
      BY <1>1, <2>1
  <1>3. pieces' # <<>> /\ n \in 1..n
    BY <1>2
  <1>4. Depth' = L
    BY <1>1, <1>2, <1>3 DEF Depth
  <1>5. \A i : i \in LevelOf(L)' <=> i \in 1..n
    BY <1>1, <1>2 DEF LevelOf
  <1>6. \A d, i : d # L => i \notin LevelOf(d)'
    BY <1>1, <1>2 DEF LevelOf
  <1>7. DOMAIN base' = 1..n
    OBVIOUS
  <1>8. \A i, j \in 1..n : i < j => pieces'[i].depth >= pieces'[j].depth
    BY <1>1
  <1>9. \A i \in 1..n : pieces'[i].depth \in 1..L /\ pieces'[i].parent \in 0..n
    BY <1>1
  <1>10. Spans(L)' /\ LevelOf(L)' # {}
    <2>1. \A i \in LevelOf(L)' : 1 <= pieces'[i].first /\ pieces'[i].first <= pieces'[i].last
                                 /\ pieces'[i].last <= Len(base')
      BY <1>1, <1>5
    <2>2. \A s \in DOMAIN base' : \E i \in LevelOf(L)' : pieces'[i].first <= s /\ s <= pieces'[i].last
      BY <1>1, <1>5, <1>7
    <2>3. \A i, j \in LevelOf(L)' : i < j => pieces'[i].last < pieces'[j].first
      BY <1>1, <1>5
    <2> QED
      BY <1>3, <1>5, <2>1, <2>2, <2>3 DEF Spans
  <1>11. \A d \in L..L : Spans(d)' /\ LevelOf(d)' # {}
    BY <1>10
  <1>12. \A d \in L..L - 1 : FALSE
    OBVIOUS
  <1>13. \A d \in L + 1..L - 1 : FALSE
    OBVIOUS
  <1>14. \A c : c \notin LevelOf(Depth + 1)'
    <2>1. L + 1 # L
      OBVIOUS
    <2>2. \A c \in 1..n : pieces'[c].depth # L + 1
      BY <1>1, <2>1
    <2> QED
      BY <1>2, <1>4, <2>2 DEF LevelOf
  <1>15. \A c : c \in LevelOf(Depth)' => pieces'[c].parent = 0
    BY <1>1, <1>2, <1>4 DEF LevelOf
  <1>16. Served'
    BY <1>14 DEF Served
  <1> QED
    BY <1>2, <1>3, <1>4, <1>8, <1>9, <1>11, <1>12, <1>13, <1>14, <1>15, <1>16 DEF Piles

\* Chunks that change parents only.
Reshaped ==
  /\ pieces' \in Seq(PieceType) /\ Len(pieces') = Len(pieces)
  /\ \A i \in DOMAIN pieces : /\ pieces'[i].first = pieces[i].first
                              /\ pieces'[i].last = pieces[i].last
                              /\ pieces'[i].depth = pieces[i].depth
  /\ base' = base /\ use' = use

\* HasText of the segments f..l and those of a child, m..n.
Found(b, f, l, m, n) ==
  \E i \in f..l - (n - m) : \A k \in 0..n - m :
    LET big == b[i + k] small == b[m + k] IN
    /\ big.lo <= small.lo /\ small.hi <= big.hi
    /\ k > 0 => big.lo = small.lo
    /\ k < n - m => big.hi = small.hi

LEMMA ReshapedFacts ==
  ASSUME Reshaped, pieces \in Seq(PieceType)
  PROVE  /\ Depth' = Depth
         /\ \A d : LevelOf(d)' = LevelOf(d)
         /\ \A d : Spans(d)' <=> Spans(d)
         /\ \A p, c \in DOMAIN pieces : Holds(p, c)' <=> Holds(p, c)
         /\ \A p, c \in DOMAIN pieces : HasText(pieces[p], pieces[c])' <=> HasText(pieces[p], pieces[c])
  <1>1. DOMAIN pieces' = DOMAIN pieces /\ DOMAIN pieces = 1..Len(pieces)
    BY DEF Reshaped
  <1>2. pieces' = <<>> <=> pieces = <<>>
    BY <1>1 DEF Reshaped
  <1>3. pieces # <<>> => Len(pieces) \in DOMAIN pieces
    BY <1>1
  <1>4. Depth' = Depth
    BY <1>2, <1>3 DEF Depth, Reshaped
  <1>5. ASSUME NEW d PROVE LevelOf(d)' = LevelOf(d)
    BY <1>1 DEF LevelOf, Reshaped
  <1>6. ASSUME NEW d PROVE \A i \in LevelOf(d) : /\ pieces'[i].first = pieces[i].first
                                                 /\ pieces'[i].last = pieces[i].last
    BY DEF LevelOf, Reshaped
  <1>7. ASSUME NEW d PROVE Spans(d)' <=> Spans(d)
    <2>1. base' = base
      BY DEF Reshaped
    <2> QED
      BY <1>5, <1>6, <2>1 DEF Spans
  <1>8. \A p, c \in DOMAIN pieces : Holds(p, c)' <=> Holds(p, c)
    BY DEF Holds, Reshaped
  <1>9. ASSUME NEW p \in DOMAIN pieces, NEW c \in DOMAIN pieces
        PROVE  HasText(pieces[p], pieces[c])' <=> HasText(pieces[p], pieces[c])
    <2>1. /\ pieces'[p].first = pieces[p].first /\ pieces'[p].last = pieces[p].last
          /\ pieces'[c].first = pieces[c].first /\ pieces'[c].last = pieces[c].last
          /\ base' = base
      BY DEF Reshaped
    <2>2. HasText(pieces[p], pieces[c]) <=>
            Found(base, pieces[p].first, pieces[p].last, pieces[c].first, pieces[c].last)
      BY DEF HasText, Found
    <2>3. HasText(pieces[p], pieces[c])' <=>
            Found(base', pieces'[p].first, pieces'[p].last, pieces'[c].first, pieces'[c].last)
      BY DEF HasText, Found
    <2> QED
      BY <2>1, <2>2, <2>3
  <1> QED
    BY <1>4, <1>5, <1>7, <1>8, <1>9

\* The next parent in turn holds the children that come before one it holds and that
\* have no parent yet: a parent to its left would have taken them.
LEMMA NextHolds ==
  ASSUME Piles, sem \in {"output", "ok"}, use.levels \in Nat, NEW d \in Nat, d = Depth, d \in Depth..use.levels - 1,
         Turn # {}, NEW p, p = Min(Turn), NEW c \in LevelOf(d + 1), Holds(p, c),
         NEW k \in LevelOf(d + 1), pieces[k].parent = 0, k <= c
  PROVE  Holds(p, k)
  <1>1. /\ pieces \in Seq(PieceType) /\ Grouped(d) /\ Served
        /\ \A e \in Depth..use.levels : Spans(e)
    BY DEF Piles
  <1>2. Depth \in Nat
    <2>1. pieces # <<>>
      BY DEF Piles
    <2>2. Depth \in 1..use.levels /\ Depth \in Nat
      BY <2>1, DepthFacts
    <2> QED
      BY <2>2
  <1>3. Spans(d) /\ Spans(d + 1)
    <2>1. d \in Depth..use.levels /\ d + 1 \in Depth..use.levels
      BY <1>2
    <2> QED
      BY <1>1, <2>1
  <1>4. Turn \subseteq LevelOf(d) /\ LevelOf(d) \subseteq Nat
    BY <1>1, PieceFields DEF Turn, LevelOf
  <1>5. p \in Turn /\ \A y \in Turn : p <= y
    BY <1>4, MinIsLeast
  <1>6. PICK q \in LevelOf(d) : Holds(q, k)
    BY <1>1 DEF Grouped
  <1>7. q <= p
    <2>1. p \in LevelOf(d)
      BY <1>4, <1>5
    <2> QED
      BY <1>1, <1>3, <1>6, <2>1, Apart
  <1>8. CASE q = p
    BY <1>6, <1>8
  <1>9. CASE q # p
    <2>1. q \notin Turn
      BY <1>4, <1>5, <1>6, <1>7, <1>9
    <2>2. pieces[k].parent # 0
      BY <1>1, <1>6, <2>1 DEF Served
    <2> QED
      BY <2>2
  <1> QED
    BY <1>8, <1>9

\* What the next parent in turn takes is of the level below and has no parent yet.
\* All that it holds is in it; and nothing else is if the level is plain.
LEMMA AdoptFacts ==
  ASSUME Piles, base \in Seq(SegmentType), sem = "output", use.levels \in Nat, Adopt
  PROVE  \E d \in Nat \ {0}, p \in Turn, taken \in SUBSET Waiting :
           /\ d = Depth /\ d \in Depth..use.levels - 1
           /\ \A y \in Turn : p <= y
           /\ pieces' = [c \in DOMAIN pieces |->
                IF c \in taken THEN [pieces[c] EXCEPT !.parent = p] ELSE pieces[c]]
           /\ \A c \in Waiting : Holds(p, c) => c \in taken
           /\ Plain(d) => \A c \in taken : Holds(p, c)
           /\ taken # {}
  <1>1. PICK d : d = Depth
    OBVIOUS
  <1>2. Waiting # {} /\ Turn # {} /\ pieces # <<>>
    BY DEF Adopt, Piles
  <1>3. d \in 1..use.levels /\ d \in Nat \ {0} /\ LevelOf(d) \subseteq 1..Len(pieces)
    <2>1. d \in 1..use.levels /\ d \in Nat /\ LevelOf(d) \subseteq 1..Len(pieces)
      BY <1>1, <1>2, DepthFacts
    <2> QED
      BY <2>1
  <1>4. pieces \in Seq(PieceType) /\ \A i \in DOMAIN pieces : pieces[i].depth \in 1..use.levels
    BY DEF Piles
  <1>5. d < use.levels
    <2>1. PICK c \in LevelOf(d + 1) : TRUE
      BY <1>1, <1>2 DEF Waiting
    <2>2. d + 1 \in 1..use.levels
      BY <1>4, <2>1 DEF LevelOf
    <2> QED
      BY <1>3, <2>2
  <1>6. d \in Depth..use.levels - 1
    BY <1>1, <1>3, <1>5
  <1>7. Spans(d) /\ Spans(d + 1) /\ Grouped(d) /\ Adopted(d)
    <2>1. d \in Depth..use.levels /\ d + 1 \in Depth..use.levels
      BY <1>1, <1>3, <1>5
    <2> QED
      BY <1>6, <2>1 DEF Piles
  <1>8. Waiting \subseteq LevelOf(d + 1) /\ \A c \in Waiting : pieces[c].parent = 0
    BY <1>1 DEF Waiting
  <1>9. Waiting \subseteq Nat /\ Turn \subseteq LevelOf(d) /\ Turn \subseteq Nat
    BY <1>1, <1>4, PieceFields DEF Waiting, Turn, LevelOf
  <1>10. PICK p : p = Min(Turn)
    OBVIOUS
  <1>11. p \in Turn /\ \A y \in Turn : p <= y
    BY <1>2, <1>9, <1>10, MinIsLeast
  <1>12. p \in LevelOf(d) /\ p \in DOMAIN pieces /\ p \in Nat
    BY <1>9, <1>11 DEF LevelOf
  <1> DEFINE fit == {c \in Waiting : \A k \in Waiting : k <= c => HasText(pieces[p], pieces[k])}
             share == Max({1, Cardinality(Waiting) \div Cardinality(LevelOf(Depth))})
             taken == IF fit # {} THEN fit ELSE {c \in Waiting : c < Min(Waiting) + share}
  <1>13. pieces' = [c \in DOMAIN pieces |->
           IF c \in taken THEN [pieces[c] EXCEPT !.parent = p] ELSE pieces[c]]
    BY <1>10 DEF Adopt
  <1>14. ASSUME NEW c \in Waiting, Holds(p, c) PROVE c \in fit
    <2> SUFFICES ASSUME NEW k \in Waiting, k <= c PROVE HasText(pieces[p], pieces[k])
      OBVIOUS
    <2>1. k \in LevelOf(d + 1) /\ pieces[k].parent = 0 /\ k \in DOMAIN pieces
      BY <1>8 DEF LevelOf
    <2>2. Holds(p, k)
      BY <1>1, <1>2, <1>6, <1>3, <1>8, <1>10, <1>14, <2>1, NextHolds
    <2>3. 1 <= pieces[k].first /\ pieces[k].first <= pieces[k].last /\ pieces[k].last <= Len(base)
      BY <1>7, <2>1 DEF Spans
    <2> QED
      BY <1>4, <1>12, <2>1, <2>2, <2>3, HoldsText
  <1>15. ASSUME Plain(d) PROVE fit # {}
    <2>1. PICK c \in LevelOf(d + 1) : Holds(p, c)
      BY <1>7, <1>12 DEF Grouped
    <2>2. CASE pieces[c].parent = 0
      <3>1. c \in Waiting
        BY <1>1, <2>1, <2>2 DEF Waiting
      <3> QED
        BY <1>14, <2>1, <3>1
    <2>3. CASE pieces[c].parent # 0
      <3>1. PICK q : q = pieces[c].parent
        OBVIOUS
      <3>2. q \in LevelOf(d) /\ Holds(q, c)
        BY <1>7, <1>15, <2>1, <2>3, <3>1 DEF Adopted
      <3>3. c \in Nat /\ c <= c /\ q \in Nat /\ c \in DOMAIN pieces
        BY <1>4, <2>1, <3>2, PieceFields DEF LevelOf
      <3>4. p <= q
        BY <1>4, <1>7, <1>12, <2>1, <3>2, <3>3, Apart
      <3>5. q < p
        BY <1>11, <3>1, <3>3 DEF Turn
      <3> QED
        BY <1>12, <3>3, <3>4, <3>5
    <2> QED
      BY <2>2, <2>3
  <1>16. ASSUME Plain(d), NEW c \in fit PROVE Holds(p, c)
    <2>1. c \in Waiting /\ c \in Nat
      BY <1>9
    <2>2. HasText(pieces[p], pieces[c])
      BY <2>1
    <2> QED
      BY <1>8, <1>12, <1>16, <2>1, <2>2 DEF Plain
  <1>17. taken # {}
    <2>1. CASE fit # {}
      BY <2>1
    <2>2. CASE fit = {}
      <3>1. Min(Waiting) \in Waiting
        BY <1>2, <1>9, MinIsLeast
      <3>2. share \in Nat \ {0}
        <4>1. \A a \in Int : Max({1, a}) \in Nat \ {0}
          <5> SUFFICES ASSUME NEW a \in Int PROVE Max({1, a}) \in Nat \ {0}
            OBVIOUS
          <5>1. \E x \in {1, a} : \A y \in {1, a} : x >= y
            OBVIOUS
          <5>2. Max({1, a}) \in {1, a} /\ \A y \in {1, a} : Max({1, a}) >= y
            BY <5>1 DEF Max
          <5>3. PICK m : m = Max({1, a})
            OBVIOUS
          <5>4. m \in Int /\ m >= 1
            BY <5>2, <5>3
          <5> QED
            BY <5>3, <5>4
        <4>2. Cardinality(Waiting) \in Nat
          <5>1. Waiting \subseteq 1..Len(pieces) /\ IsFiniteSet(1..Len(pieces))
            <6>1. Len(pieces) \in Nat /\ DOMAIN pieces = 1..Len(pieces)
              BY <1>4
            <6> QED
              BY <1>8, <6>1, FS_Interval DEF LevelOf
          <5> QED
            BY <5>1, FS_Subset, FS_CardinalityType
        <4>3. Cardinality(LevelOf(Depth)) \in Nat \ {0}
          <5>1. Len(pieces) \in Nat
            BY <1>4
          <5>2. IsFiniteSet(LevelOf(d)) /\ LevelOf(d) # {}
            <6>1. IsFiniteSet(1..Len(pieces))
              BY <5>1, FS_Interval
            <6> QED
              BY <1>3, <1>12, <6>1, FS_Subset
          <5>3. Cardinality(LevelOf(d)) \in Nat /\ Cardinality(LevelOf(d)) # 0
            BY <5>2, FS_CardinalityType, FS_EmptySet
          <5> QED
            BY <1>1, <5>3
        <4>4. PICK a \in Nat, b \in Nat \ {0} : a = Cardinality(Waiting) /\ b = Cardinality(LevelOf(Depth))
          BY <4>2, <4>3
        <4>5. a \div b \in Int
          BY Divided
        <4> QED
          BY <4>1, <4>4, <4>5
      <3> HIDE DEF share
      <3>3. Min(Waiting) \in Nat
        BY <1>9, <3>1
      <3>4. Min(Waiting) < Min(Waiting) + share
        BY <3>2, <3>3
      <3> QED
        BY <2>2, <3>1, <3>4
    <2> QED
      BY <2>1, <2>2
  <1> HIDE DEF share
  <1>18. taken \in SUBSET Waiting
    OBVIOUS
  <1>19. \A c \in Waiting : Holds(p, c) => c \in taken
    BY <1>14
  <1>20. Plain(d) => \A c \in taken : Holds(p, c)
    BY <1>15, <1>16
  <1> HIDE DEF taken
  <1> QED
    BY <1>1, <1>3, <1>6, <1>11, <1>13, <1>17, <1>18, <1>19, <1>20

LEMMA AdoptPiles ==
  ASSUME Piles, base \in Seq(SegmentType), sem = "output", use.levels \in Nat, Adopt
  PROVE  Piles' /\ pieces' \in Seq(PieceType) /\ Len(pieces') = Len(pieces)
  <1>1. PICK d \in Nat \ {0}, p \in Turn, taken \in SUBSET Waiting :
          /\ d = Depth /\ d \in Depth..use.levels - 1
          /\ \A y \in Turn : p <= y
          /\ pieces' = [c \in DOMAIN pieces |->
               IF c \in taken THEN [pieces[c] EXCEPT !.parent = p] ELSE pieces[c]]
          /\ \A c \in Waiting : Holds(p, c) => c \in taken
          /\ Plain(d) => \A c \in taken : Holds(p, c)
          /\ taken # {}
    BY AdoptFacts
  <1>2. /\ pieces \in Seq(PieceType) /\ pieces # <<>>
        /\ \A i \in DOMAIN pieces : /\ pieces[i].depth \in 1..use.levels
                                    /\ pieces[i].parent \in 0..Len(pieces)
        /\ \A i, j \in DOMAIN pieces : i < j => pieces[i].depth >= pieces[j].depth
    BY DEF Piles
  <1>3. PICK n \in Nat \ {0} : n = Len(pieces) /\ DOMAIN pieces = 1..n
    BY <1>2
  <1>4. p \in LevelOf(d) /\ p \in 1..n /\ \A c \in 1..n : pieces[c].parent < p
    BY <1>1, <1>3 DEF Turn, LevelOf
  <1>5. taken \subseteq LevelOf(d + 1) /\ \A c \in taken : c \in 1..n /\ pieces[c].parent = 0
    BY <1>1, <1>3 DEF Waiting, LevelOf
  <1>6. ASSUME NEW c \in 1..n
        PROVE  /\ pieces'[c] \in PieceType
               /\ pieces'[c].first = pieces[c].first /\ pieces'[c].last = pieces[c].last
               /\ pieces'[c].depth = pieces[c].depth
               /\ pieces'[c].parent = IF c \in taken THEN p ELSE pieces[c].parent
    <2>1. pieces'[c] = IF c \in taken THEN [pieces[c] EXCEPT !.parent = p] ELSE pieces[c]
      BY <1>1, <1>3
    <2>2. PICK e : e = pieces[c]
      OBVIOUS
    <2>3. e \in PieceType
      BY <1>2, <1>3, <2>2
    <2>4. [e EXCEPT !.parent = p] \in PieceType /\ [e EXCEPT !.parent = p].parent = p
          /\ [e EXCEPT !.parent = p].first = e.first /\ [e EXCEPT !.parent = p].last = e.last
          /\ [e EXCEPT !.parent = p].depth = e.depth
      BY <1>4, <2>3 DEF PieceType
    <2> QED
      BY <2>1, <2>2, <2>3, <2>4
  <1>7. pieces' \in Seq(PieceType) /\ Len(pieces') = n /\ DOMAIN pieces' = 1..n /\ pieces' # <<>>
    <2>1. pieces' = [c \in 1..n |-> pieces'[c]]
      BY <1>1, <1>3
    <2>2. pieces' \in Seq(PieceType) /\ Len(pieces') = n /\ DOMAIN pieces' = 1..n
      BY <1>6, <2>1
    <2> QED
      BY <2>2
  <1>8. base' = base /\ use' = use /\ sem' = sem
    BY DEF Adopt, progress, chunker
  <1>9. Reshaped
    BY <1>3, <1>6, <1>7, <1>8 DEF Reshaped
  <1>10. /\ Depth' = d
         /\ \A e : LevelOf(e)' = LevelOf(e)
         /\ \A e : Spans(e)' <=> Spans(e)
         /\ \A x, y \in 1..n : Holds(x, y)' <=> Holds(x, y)
         /\ \A x, y \in 1..n : HasText(pieces[x], pieces[y])' <=> HasText(pieces[x], pieces[y])
    BY <1>1, <1>2, <1>3, <1>9, ReshapedFacts
  <1>11. \A e : LevelOf(e) \subseteq 1..n
    BY <1>3 DEF LevelOf
  <1>12. ASSUME NEW e PROVE Grouped(e)' <=> Grouped(e)
    BY <1>10, <1>11 DEF Grouped
  <1>13. ASSUME NEW e PROVE Plain(e)' <=> Plain(e)
    <2>1. ASSUME NEW c \in LevelOf(e + 1), NEW x \in LevelOf(e)
          PROVE  (HasText(pieces[x], pieces[c]) => Holds(x, c))' <=> (HasText(pieces[x], pieces[c]) => Holds(x, c))
      BY <1>10, <1>11
    <2> QED
      BY <1>10, <2>1 DEF Plain
  <1>14. /\ \A e \in d..use.levels : Spans(e) /\ LevelOf(e) # {}
         /\ \A e \in d..use.levels - 1 : Grouped(e) /\ Adopted(e)
         /\ \A e \in d + 1..use.levels - 1 : \A c \in LevelOf(e + 1) : pieces[c].parent # 0
         /\ \A c \in LevelOf(d) : pieces[c].parent = 0
         /\ Served
    BY <1>1 DEF Piles
  <1>15. ASSUME NEW e, e # d, e + 1 # d + 1, NEW c \in LevelOf(e + 1)
         PROVE  pieces'[c].parent = pieces[c].parent
    <2>1. c \in 1..n /\ pieces[c].depth = e + 1
      BY <1>3 DEF LevelOf
    <2>2. c \notin taken
      BY <1>5, <1>15, <2>1 DEF LevelOf
    <2> QED
      BY <1>6, <2>1, <2>2
  <1>16. ASSUME NEW e \in d..use.levels - 1 PROVE Adopted(e)'
    <2> SUFFICES ASSUME NEW c \in LevelOf(e + 1), pieces'[c].parent # 0
                 PROVE  /\ pieces'[c].parent \in LevelOf(e)
                        /\ Plain(e) => Holds(pieces'[c].parent, c)
      <3>1. ASSUME NEW c \in LevelOf(e + 1), pieces'[c].parent # 0
            PROVE  /\ pieces'[c].parent \in LevelOf(e)'
                   /\ Plain(e)' => Holds(pieces[c].parent, c)'
        <4>1. pieces'[c].parent \in LevelOf(e) /\ (Plain(e) => Holds(pieces'[c].parent, c))
          BY <3>1
        <4>2. PICK x : x = pieces'[c].parent
          OBVIOUS
        <4>3. x \in 1..n /\ c \in 1..n
          BY <1>11, <4>1, <4>2
        <4>4. Holds(x, c)' <=> Holds(x, c)
          BY <1>10, <4>3
        <4>5. Holds(pieces[c].parent, c)' <=> Holds(x, c)'
          BY <4>2 DEF Holds
        <4> QED
          BY <1>10, <1>13, <4>1, <4>2, <4>4, <4>5
      <3> QED
        BY <1>10, <3>1 DEF Adopted
    <2>1. c \in 1..n
      BY <1>11
    <2>2. CASE c \in taken
      <3>1. pieces'[c].parent = p
        BY <1>6, <2>1, <2>2
      <3>2. e = d
        <4>1. pieces[c].depth = e + 1 /\ pieces[c].depth = d + 1
          BY <1>5, <2>2 DEF LevelOf
        <4>2. e \in Int
          OBVIOUS
        <4> QED
          BY <4>1, <4>2
      <3> QED
        BY <1>1, <1>4, <2>2, <3>1, <3>2
    <2>3. CASE c \notin taken
      <3>1. pieces'[c].parent = pieces[c].parent
        BY <1>6, <2>1, <2>3
      <3>2. Adopted(e)
        BY <1>14
      <3> QED
        BY <3>1, <3>2 DEF Adopted
    <2> QED
      BY <2>2, <2>3
  <1>17. ASSUME NEW e \in d + 1..use.levels - 1, NEW c \in LevelOf(e + 1) PROVE pieces'[c].parent # 0
    <2>1. e # d /\ e + 1 # d + 1
      OBVIOUS
    <2> QED
      BY <1>14, <1>15, <2>1
  <1>18. ASSUME NEW c \in LevelOf(d) PROVE pieces'[c].parent = 0
    <2>1. c \in 1..n /\ pieces[c].depth = d
      BY <1>3 DEF LevelOf
    <2>2. c \notin taken
      <3>1. d # d + 1
        OBVIOUS
      <3> QED
        BY <1>5, <2>1, <3>1 DEF LevelOf
    <2> QED
      BY <1>6, <1>14, <2>1, <2>2
  <1>19. ASSUME NEW q \in LevelOf(d), q \notin Turn', NEW c \in LevelOf(d + 1), Holds(q, c)
         PROVE  pieces'[c].parent # 0
    <2>1. q \in 1..n /\ c \in 1..n
      BY <1>11
    <2>2. CASE pieces[c].parent # 0
      BY <1>4, <1>6, <2>1, <2>2
    <2>3. CASE pieces[c].parent = 0
      <3>1. q \in Turn
        BY <1>1, <1>14, <1>19, <2>3 DEF Served
      <3>2. q = p
        <4> SUFFICES ASSUME q # p PROVE FALSE
          OBVIOUS
        <4>1. p < q
          BY <1>1, <1>4, <2>1, <3>1
        <4>2. ASSUME NEW k \in 1..n PROVE pieces'[k].parent < q
          <5>1. CASE k \in taken
            BY <1>6, <4>1, <5>1
          <5>2. CASE k \notin taken
            BY <1>6, <3>1, <1>3, <5>2 DEF Turn
          <5> QED
            BY <5>1, <5>2
        <4>3. q \in LevelOf(Depth)'
          BY <1>10 DEF LevelOf
        <4>4. q \in Turn'
          BY <1>7, <4>2, <4>3 DEF Turn
        <4> QED
          BY <1>19, <4>4
      <3>3. c \in Waiting
        BY <1>1, <2>3 DEF Waiting
      <3>4. c \in taken
        BY <1>1, <1>19, <3>2, <3>3
      <3>5. pieces'[c].parent = p /\ p # 0
        BY <1>4, <1>6, <2>1, <3>4
      <3> QED
        BY <3>5
    <2> QED
      BY <2>2, <2>3
  <1>20. /\ \A q : q \in LevelOf(Depth)' <=> q \in LevelOf(d)
         /\ \A c : c \in LevelOf(Depth + 1)' <=> c \in LevelOf(d + 1)
    <2>1. \A e : \A c : c \in LevelOf(e) <=> c \in DOMAIN pieces' /\ pieces'[c].depth = e
      BY <1>10 DEF LevelOf
    <2> QED
      BY <1>10, <2>1 DEF LevelOf
  <1>21. Served'
    <2> SUFFICES ASSUME NEW q \in LevelOf(Depth)', q \notin Turn', NEW c \in LevelOf(Depth + 1)', Holds(q, c)'
                 PROVE  pieces'[c].parent # 0
      BY DEF Served
    <2>1. q \in LevelOf(d) /\ c \in LevelOf(d + 1)
      BY <1>20
    <2>2. Holds(q, c)
      BY <1>10, <1>11, <2>1
    <2> QED
      BY <1>19, <2>1, <2>2
  <1>22. \A e \in d..use.levels : Spans(e)' /\ LevelOf(e)' # {}
    BY <1>10, <1>14
  <1>23. \A e \in d..use.levels - 1 : Grouped(e)' /\ Adopted(e)'
    BY <1>12, <1>14, <1>16
  <1>24. \A e \in d + 1..use.levels - 1 : \A c \in LevelOf(e + 1)' : pieces'[c].parent # 0
    BY <1>10, <1>17
  <1>25. \A c \in LevelOf(Depth)' : pieces'[c].parent = 0
    BY <1>18, <1>20
  <1>26. \A i \in DOMAIN pieces' : pieces'[i].depth \in 1..use.levels /\ pieces'[i].parent \in 0..Len(pieces')
    <2> SUFFICES ASSUME NEW i \in 1..n
                 PROVE  pieces'[i].depth \in 1..use.levels /\ pieces'[i].parent \in 0..n
      BY <1>7
    <2>1. pieces'[i].depth \in 1..use.levels
      BY <1>2, <1>3, <1>6
    <2>2. pieces'[i].parent \in 0..n
      BY <1>2, <1>3, <1>4, <1>6
    <2> QED
      BY <2>1, <2>2
  <1>27. \A i, j \in DOMAIN pieces' : i < j => pieces'[i].depth >= pieces'[j].depth
    BY <1>2, <1>3, <1>6, <1>7
  <1>28. sem' # "ok"
    BY <1>8
  <1> QED
    BY <1>3, <1>7, <1>8, <1>10, <1>21, <1>22, <1>23, <1>24, <1>25, <1>26, <1>27, <1>28 DEF Piles

\* The first and the last of the g-th of the groups that n chunks after the first one
\* are cut into.
From(lo, size, g) == lo + (g - 1) * size
To(lo, size, n, g) == lo + Min({g * size, n}) - 1

\* The g-th group begins after y chunks and ends with the m-th.
Grouping(lo, size, n, g, y, m) ==
  /\ y = (g - 1) * size /\ g * size = y + size
  /\ From(lo, size, g) = lo + y /\ To(lo, size, n, g) = lo + m - 1
  /\ m <= n /\ m <= y + size /\ (m = n \/ m = y + size) /\ y < m

LEMMA Smaller ==
  ASSUME NEW a \in Nat, NEW b \in Nat
  PROVE  \E m \in Nat : m = Min({a, b}) /\ m <= a /\ m <= b /\ (m = a \/ m = b)
  <1>1. \E x \in {a, b} : \A y \in {a, b} : x <= y
    OBVIOUS
  <1>2. Min({a, b}) \in {a, b} /\ \A y \in {a, b} : Min({a, b}) <= y
    BY <1>1 DEF Min
  <1>3. PICK m : m = Min({a, b})
    OBVIOUS
  <1>4. m \in Nat /\ m <= a /\ m <= b /\ (m = a \/ m = b)
    BY <1>2, <1>3
  <1> QED
    BY <1>3, <1>4

\* They do not overlap and leave none out.
LEMMA GroupRanges ==
  ASSUME NEW n \in Nat \ {0}, NEW size \in Nat \ {0}, NEW lo \in Nat \ {0}
  PROVE  \E all \in Nat \ {0} :
           /\ all = (n - 1) \div size + 1
           /\ \A g \in 1..all :
                /\ From(lo, size, g) \in Nat /\ To(lo, size, n, g) \in Nat
                /\ lo <= From(lo, size, g) /\ From(lo, size, g) <= To(lo, size, n, g)
                /\ To(lo, size, n, g) <= lo + n - 1
           /\ To(lo, size, n, all) = lo + n - 1
           /\ \A j, k \in 1..all : j < k => To(lo, size, n, j) < From(lo, size, k)
           /\ \A i \in lo..lo + n - 1 :
                \E g \in 1..all : From(lo, size, g) <= i /\ i <= To(lo, size, n, g)
  <1>1. PICK q \in Nat, x \in Nat : q = (n - 1) \div size /\ x = q * size /\ x <= n - 1 /\ n - 1 < x + size
    <2>1. PICK a \in Nat : a = n - 1
      OBVIOUS
    <2>2. LET q == a \div size IN q \in Nat /\ q * size \in Nat /\ q * size <= a /\ a < q * size + size
      BY Divided
    <2> QED
      BY <2>1, <2>2
  <1> DEFINE all == q + 1
  <1>2. \A j, k \in Nat : j < k => j * size < k * size
    BY Multiplied
  <1>3. \A j, k \in Nat : j <= k => j * size <= k * size
    <2> SUFFICES ASSUME NEW j \in Nat, NEW k \in Nat, j <= k PROVE j * size <= k * size
      OBVIOUS
    <2>1. CASE j = k
      BY <2>1
    <2>2. CASE j < k
      <3>1. j * size < k * size /\ j * size \in Nat /\ k * size \in Nat
        BY <2>2, Multiplied
      <3> QED
        BY <3>1
    <2> QED
      BY <2>1, <2>2
  <1>4. ASSUME NEW g \in Nat, 1 <= g, g <= all
        PROVE  \E y, m \in Nat : Grouping(lo, size, n, g, y, m) /\ (g = all => m = n)
    <2>1. PICK h \in Nat : h = g - 1 /\ h <= q /\ g = h + 1
      <3>1. g - 1 \in Nat /\ g - 1 <= q /\ g = g - 1 + 1
        BY <1>4
      <3> QED
        BY <3>1
    <2>2. PICK y \in Nat : y = h * size
      OBVIOUS
    <2>3. y <= x
      BY <1>1, <1>3, <2>1, <2>2
    <2>4. g * size = y + size
      <3>1. (h + 1) * size = h * size + size
        OBVIOUS
      <3> QED
        BY <2>1, <2>2, <3>1
    <2>5. PICK m \in Nat : /\ m = Min({y + size, n}) /\ m <= y + size /\ m <= n
                           /\ (m = y + size \/ m = n)
      <3>1. y + size \in Nat /\ n \in Nat
        OBVIOUS
      <3> QED
        BY <3>1, Smaller
    <2>6. From(lo, size, g) = lo + y
      BY <2>1, <2>2 DEF From
    <2>7. To(lo, size, n, g) = lo + m - 1
      BY <2>4, <2>5 DEF To
    <2>8. y < m
      BY <1>1, <2>3, <2>5
    <2>9. g = all => m = n
      <3> SUFFICES ASSUME g = all PROVE m = n
        OBVIOUS
      <3>1. h = q
        BY <2>1
      <3>2. y = x
        BY <1>1, <2>2, <3>1
      <3> QED
        BY <1>1, <2>5, <3>2
    <2>10. y = (g - 1) * size
      BY <2>1, <2>2
    <2>11. Grouping(lo, size, n, g, y, m)
      BY <2>4, <2>5, <2>6, <2>7, <2>8, <2>10 DEF Grouping
    <2> QED
      BY <2>9, <2>11
  <1>5. all \in Nat \ {0} /\ all = (n - 1) \div size + 1
    BY <1>1
  <1>6. ASSUME NEW g \in 1..all
        PROVE  /\ From(lo, size, g) \in Nat /\ To(lo, size, n, g) \in Nat
               /\ lo <= From(lo, size, g) /\ From(lo, size, g) <= To(lo, size, n, g)
               /\ To(lo, size, n, g) <= lo + n - 1
               /\ (g = all => To(lo, size, n, g) = lo + n - 1)
    <2>1. g \in Nat /\ 1 <= g /\ g <= all
      OBVIOUS
    <2>2. PICK y, m \in Nat : Grouping(lo, size, n, g, y, m) /\ (g = all => m = n)
      BY <1>4, <2>1
    <2> QED
      BY <2>2 DEF Grouping
  <1>7. ASSUME NEW j \in 1..all, NEW k \in 1..all, j < k
        PROVE  To(lo, size, n, j) < From(lo, size, k)
    <2>1. j \in Nat /\ 1 <= j /\ j <= all /\ k \in Nat /\ 1 <= k /\ k <= all
      OBVIOUS
    <2>2. PICK y, m \in Nat : Grouping(lo, size, n, j, y, m)
      BY <1>4, <2>1
    <2>3. PICK z, r \in Nat : Grouping(lo, size, n, k, z, r)
      BY <1>4, <2>1
    <2>4. PICK h \in Nat : h = k - 1 /\ j <= h
      <3>1. k - 1 \in Nat /\ j <= k - 1
        BY <1>7
      <3> QED
        BY <3>1
    <2>5. j * size <= h * size
      BY <1>3, <2>1, <2>4
    <2>6. y + size <= z
      <3>1. j * size = y + size /\ z = h * size
        BY <2>2, <2>3, <2>4 DEF Grouping
      <3> QED
        BY <2>5, <3>1
    <2>7. To(lo, size, n, j) = lo + m - 1 /\ m <= y + size /\ From(lo, size, k) = lo + z
      BY <2>2, <2>3 DEF Grouping
    <2> QED
      BY <2>6, <2>7
  <1>8. ASSUME NEW i \in lo..lo + n - 1
        PROVE  \E g \in 1..all : From(lo, size, g) <= i /\ i <= To(lo, size, n, g)
    <2>1. PICK a \in Nat : a = i - lo /\ a <= n - 1 /\ i = lo + a
      <3>1. i - lo \in Nat /\ i - lo <= n - 1 /\ i = lo + (i - lo)
        OBVIOUS
      <3> QED
        BY <3>1
    <2>2. PICK r \in Nat, z \in Nat : z = r * size /\ z <= a /\ a < z + size
      <3>1. LET r == a \div size IN r \in Nat /\ r * size \in Nat /\ r * size <= a /\ a < r * size + size
        BY Divided
      <3> QED
        BY <3>1
    <2>3. r <= q
      <3> SUFFICES ASSUME q < r PROVE FALSE
        OBVIOUS
      <3>1. q + 1 <= r /\ q + 1 \in Nat
        OBVIOUS
      <3>2. (q + 1) * size <= r * size
        BY <1>3, <3>1
      <3>3. (q + 1) * size = q * size + size
        OBVIOUS
      <3>4. x + size <= z
        BY <1>1, <2>2, <3>2, <3>3
      <3> QED
        BY <1>1, <2>1, <2>2, <3>4
    <2>4. PICK g \in Nat : g = r + 1 /\ 1 <= g /\ g <= all
      BY <2>3
    <2>5. PICK y, m \in Nat : Grouping(lo, size, n, g, y, m)
      BY <1>4, <2>4
    <2>6. y = z
      <3>1. y = (g - 1) * size /\ g - 1 = r
        BY <2>4, <2>5 DEF Grouping
      <3> QED
        BY <2>2, <3>1
    <2>7. From(lo, size, g) <= i /\ i <= To(lo, size, n, g)
      <3>1. From(lo, size, g) = lo + y /\ To(lo, size, n, g) = lo + m - 1
            /\ (m = n \/ m = y + size)
        BY <2>5 DEF Grouping
      <3> QED
        BY <2>1, <2>2, <2>6, <3>1
    <2> QED
      BY <2>4, <2>7
  <1>9. all \in 1..all
    BY <1>5
  <1>10. To(lo, size, n, all) = lo + n - 1
    BY <1>6, <1>9
  <1> HIDE DEF all
  <1>11. \A g \in 1..all :
           /\ From(lo, size, g) \in Nat /\ To(lo, size, n, g) \in Nat
           /\ lo <= From(lo, size, g) /\ From(lo, size, g) <= To(lo, size, n, g)
           /\ To(lo, size, n, g) <= lo + n - 1
    BY <1>6
  <1>12. \A j, k \in 1..all : j < k => To(lo, size, n, j) < From(lo, size, k)
    BY <1>7
  <1>13. \A i \in lo..lo + n - 1 :
           \E g \in 1..all : From(lo, size, g) <= i /\ i <= To(lo, size, n, g)
    BY <1>8
  <1> QED
    BY <1>5, <1>10, <1>11, <1>12, <1>13, Zenon

\* A[k]..B[k], one after the other, are all of lo..hi.
Splits(lo, hi, m, A, B) ==
  /\ A \in [1..m -> Nat] /\ B \in [1..m -> Nat]
  /\ \A k \in 1..m : lo <= A[k] /\ A[k] <= B[k] /\ B[k] <= hi
  /\ \A j, k \in 1..m : j < k => B[j] < A[k]
  /\ \A i \in lo..hi : \E k \in 1..m : A[k] <= i /\ i <= B[k]

\* The next level, if there is one: ranges of chunks of the level below, one after the
\* other, which leave none out.
LEMMA NextLevelFacts ==
  ASSUME NEW d \in Nat \ {0}, NEW L \in Nat, use.levels = L, use.unit \in Nat,
         NEW lo \in Nat \ {0}, NEW hi \in Nat, lo <= hi, LevelOf(d + 1) = lo..hi
  PROVE  \/ NextLevel(d) = <<>>
         \/ \E m \in Nat \ {0} : \E A, B :
              /\ Splits(lo, hi, m, A, B)
              /\ NextLevel(d) = [k \in 1..m |-> Piece(pieces[A[k]].first, pieces[B[k]].last, d, 0)]
  <1>1. PICK n \in Nat \ {0} : n = hi - lo + 1 /\ hi = lo + n - 1
    <2>1. hi - lo + 1 \in Nat \ {0} /\ hi = lo + (hi - lo + 1) - 1
      OBVIOUS
    <2> QED
      BY <2>1
  <1>2. Cardinality(lo..hi) = n
    BY <1>1, FS_Interval
  <1>3. Min(lo..hi) = lo
    <2>1. lo..hi \in SUBSET Nat /\ lo..hi # {} /\ lo \in lo..hi
      <3>1. lo \in lo..hi
        OBVIOUS
      <3>2. \A x \in lo..hi : x \in Nat
        OBVIOUS
      <3> QED
        BY <3>1, <3>2
    <2>2. Min(lo..hi) \in lo..hi /\ \A y \in lo..hi : Min(lo..hi) <= y
      BY <2>1, MinIsLeast
    <2>3. PICK x : x = Min(lo..hi)
      OBVIOUS
    <2>4. x \in lo..hi /\ x <= lo
      BY <2>1, <2>2, <2>3
    <2> QED
      BY <2>3, <2>4
  <1>4. PICK size \in Nat \ {0} : size = Max({2, use.levels - d + 1})
    <2>1. L - d + 1 \in Int
      OBVIOUS
    <2>2. Max({2, L - d + 1}) \in Int /\ 2 <= Max({2, L - d + 1})
      BY <2>1, Pairs
    <2>3. PICK x : x = Max({2, L - d + 1})
      OBVIOUS
    <2>4. x \in Nat \ {0}
      BY <2>2, <2>3
    <2> QED
      BY <2>3, <2>4
  <1>5. PICK all \in Nat \ {0} :
          /\ all = (n - 1) \div size + 1
          /\ \A g \in 1..all :
               /\ From(lo, size, g) \in Nat /\ To(lo, size, n, g) \in Nat
               /\ lo <= From(lo, size, g) /\ From(lo, size, g) <= To(lo, size, n, g)
               /\ To(lo, size, n, g) <= lo + n - 1
          /\ To(lo, size, n, all) = lo + n - 1
          /\ \A j, k \in 1..all : j < k => To(lo, size, n, j) < From(lo, size, k)
          /\ \A i \in lo..lo + n - 1 :
               \E g \in 1..all : From(lo, size, g) <= i /\ i <= To(lo, size, n, g)
    BY GroupRanges
  <1> DEFINE S(g) == <<pieces[lo + (g - 1) * size].first, pieces[lo + Min({g * size, n}) - 1].last>>
             joins == /\ n % size = 1 /\ all > 1
                      /\ LET s == S(all - 1) t == S(all)
                         IN Width(s[1], s[2]) + Width(t[1], t[2]) <=
                              use.unit * (use.levels - d + 2) * 2
  <1>6. Groups(d, lo..hi) =
          IF n <= 1 THEN <<>>
          ELSE IF joins
          THEN [g \in 1..all - 1 |-> IF g = all - 1 THEN <<S(g)[1], S(all)[2]>> ELSE S(g)]
          ELSE [g \in 1..all |-> S(g)]
    BY <1>2, <1>3, <1>4, <1>5, Zenon DEF Groups
  <1> DEFINE G == Groups(d, lo..hi)
  <1>7. NextLevel(d) = [k \in DOMAIN G |-> Piece(G[k][1], G[k][2], d, 0)]
    BY DEF NextLevel
  <1>8. \A g : S(g)[1] = pieces[From(lo, size, g)].first /\ S(g)[2] = pieces[To(lo, size, n, g)].last
    BY DEF From, To
  <1> HIDE DEF S, joins
  <1>9. CASE n <= 1
    <2>1. G = <<>>
      BY <1>6, <1>9
    <2> HIDE DEF G
    <2>2. NextLevel(d) = <<>>
      BY <1>7, <2>1
    <2> QED
      BY <2>2
  <1>10. CASE ~(n <= 1) /\ ~joins
    <2> DEFINE A == [k \in 1..all |-> From(lo, size, k)]
               B == [k \in 1..all |-> To(lo, size, n, k)]
    <2>1. G = [g \in 1..all |-> S(g)]
      BY <1>6, <1>10
    <2> HIDE DEF G
    <2>2. NextLevel(d) = [k \in 1..all |-> Piece(pieces[A[k]].first, pieces[B[k]].last, d, 0)]
      BY <1>7, <1>8, <2>1
    <2>3. A \in [1..all -> Nat] /\ B \in [1..all -> Nat]
      BY <1>5
    <2>4. \A k \in 1..all : A[k] = From(lo, size, k) /\ B[k] = To(lo, size, n, k)
      OBVIOUS
    <2> HIDE DEF A, B
    <2>5. \A k \in 1..all : lo <= A[k] /\ A[k] <= B[k] /\ B[k] <= hi
      BY <1>1, <1>5, <2>4
    <2>6. \A j, k \in 1..all : j < k => B[j] < A[k]
      BY <1>5, <2>4
    <2>7. ASSUME NEW i \in lo..hi PROVE \E k \in 1..all : A[k] <= i /\ i <= B[k]
      <3>1. i \in lo..lo + n - 1
        BY <1>1
      <3>2. PICK k \in 1..all : From(lo, size, k) <= i /\ i <= To(lo, size, n, k)
        BY <1>5, <3>1
      <3>3. A[k] <= i /\ i <= B[k]
        BY <2>4, <3>2
      <3> QED
        BY <3>3
    <2>8. Splits(lo, hi, all, A, B)
      BY <2>3, <2>5, <2>6, <2>7 DEF Splits
    <2> QED
      BY <2>2, <2>8
  <1>11. CASE ~(n <= 1) /\ joins
    <2>1. PICK m \in Nat \ {0} : m = all - 1 /\ all = m + 1
      <3>1. all > 1
        BY <1>11 DEF joins
      <3>2. all - 1 \in Nat \ {0} /\ all = all - 1 + 1
        BY <3>1
      <3> QED
        BY <3>2
    <2> DEFINE A == [k \in 1..m |-> From(lo, size, k)]
               B == [k \in 1..m |-> IF k = m THEN To(lo, size, n, all) ELSE To(lo, size, n, k)]
    <2>2. G = [g \in 1..m |-> IF g = m THEN <<S(g)[1], S(all)[2]>> ELSE S(g)]
      BY <1>6, <1>11, <2>1
    <2> HIDE DEF G
    <2>3. \A k \in 1..m : k \in 1..all /\ m \in 1..m /\ all \in 1..all
      BY <2>1
    <2>4. NextLevel(d) = [k \in 1..m |-> Piece(pieces[A[k]].first, pieces[B[k]].last, d, 0)]
      <3>1. ASSUME NEW k \in 1..m
            PROVE  G[k][1] = pieces[A[k]].first /\ G[k][2] = pieces[B[k]].last
        <4>1. CASE k = m
          BY <1>8, <2>2, <4>1
        <4>2. CASE k # m
          BY <1>8, <2>2, <4>2
        <4> QED
          BY <4>1, <4>2
      <3>2. DOMAIN G = 1..m
        BY <2>2
      <3> HIDE DEF A, B
      <3> QED
        BY <1>7, <3>1, <3>2
    <2>5. A \in [1..m -> Nat] /\ B \in [1..m -> Nat]
      BY <1>5, <2>3
    <2>6. \A k \in 1..m : A[k] = From(lo, size, k) /\ B[k] = IF k = m THEN lo + n - 1 ELSE To(lo, size, n, k)
      BY <1>5
    <2> HIDE DEF A, B
    <2>7. ASSUME NEW k \in 1..m PROVE lo <= A[k] /\ A[k] <= B[k] /\ B[k] <= hi
      <3>1. k \in 1..all
        BY <2>3
      <3>2. lo <= From(lo, size, k) /\ From(lo, size, k) <= lo + n - 1
            /\ From(lo, size, k) <= To(lo, size, n, k) /\ To(lo, size, n, k) <= lo + n - 1
        <4>1. PICK f, t \in Nat : f = From(lo, size, k) /\ t = To(lo, size, n, k)
          BY <1>5, <3>1
        <4>2. lo <= f /\ f <= t /\ t <= lo + n - 1
          BY <1>5, <3>1, <4>1
        <4> QED
          BY <4>1, <4>2
      <3> QED
        BY <1>1, <2>6, <3>2
    <2>8. ASSUME NEW j \in 1..m, NEW k \in 1..m, j < k PROVE B[j] < A[k]
      <3>1. j # m /\ j \in 1..all /\ k \in 1..all
        BY <2>3, <2>8
      <3> QED
        BY <1>5, <2>6, <2>8, <3>1
    <2>9. ASSUME NEW i \in lo..hi PROVE \E k \in 1..m : A[k] <= i /\ i <= B[k]
      <3>1. PICK g \in 1..all : From(lo, size, g) <= i /\ i <= To(lo, size, n, g)
        BY <1>1, <1>5
      <3>2. CASE g = all
        <4>1. From(lo, size, m) <= i
          <5>1. PICK f, t, u \in Nat : /\ f = From(lo, size, m) /\ t = To(lo, size, n, m)
                                       /\ u = From(lo, size, all)
            <6>1. m \in 1..all /\ all \in 1..all
              BY <2>1
            <6>2. From(lo, size, m) \in Nat /\ To(lo, size, n, m) \in Nat
              BY <1>5, <6>1
            <6>3. From(lo, size, all) \in Nat
              BY <1>5, <6>1
            <6> QED
              BY <6>2, <6>3
          <5>2. f <= t /\ t < u
            <6>1. m < all /\ m \in 1..all /\ all \in 1..all
              BY <2>1
            <6> QED
              BY <1>5, <5>1, <6>1
          <5> QED
            BY <3>1, <3>2, <5>1, <5>2
        <4>2. m \in 1..m
          OBVIOUS
        <4>3. A[m] <= i /\ i <= B[m]
          BY <1>1, <2>6, <4>1, <4>2
        <4> QED
          BY <4>2, <4>3
      <3>3. CASE g # all /\ g # m
        <4>1. g \in 1..m
          BY <2>1, <3>3
        <4> QED
          BY <2>6, <3>1, <3>3, <4>1
      <3>4. CASE g = m
        <4>1. m \in 1..m
          OBVIOUS
        <4>2. A[m] <= i /\ i <= B[m]
          BY <1>1, <2>6, <3>1, <3>4, <4>1
        <4> QED
          BY <4>1, <4>2
      <3> QED
        BY <3>2, <3>3, <3>4
    <2>10. Splits(lo, hi, m, A, B)
      BY <2>5, <2>7, <2>8, <2>9 DEF Splits
    <2> QED
      BY <2>4, <2>10
  <1> QED
    BY <1>9, <1>10, <1>11

\* A level that is appended leaves those below as they are.
LEMMA AppendedFacts ==
  ASSUME pieces \in Seq(PieceType), pieces' \in Seq(PieceType), Len(pieces) <= Len(pieces'),
         \A i \in DOMAIN pieces : pieces'[i] = pieces[i],
         base' = base, NEW e, \A i \in DOMAIN pieces' \ DOMAIN pieces : pieces'[i].depth = e
  PROVE  /\ \A x : x # e => LevelOf(x)' = LevelOf(x) /\ (Spans(x)' <=> Spans(x))
         /\ \A x : x # e /\ x + 1 # e =>
              (Grouped(x)' <=> Grouped(x)) /\ (Adopted(x)' <=> Adopted(x))
         /\ \A p, c \in DOMAIN pieces : Holds(p, c)' <=> Holds(p, c)
  <1>1. DOMAIN pieces \subseteq DOMAIN pieces'
    <2>1. DOMAIN pieces = 1..Len(pieces) /\ DOMAIN pieces' = 1..Len(pieces')
          /\ Len(pieces) \in Nat /\ Len(pieces') \in Nat
      OBVIOUS
    <2> QED
      BY <2>1
  <1>2. ASSUME NEW x, x # e PROVE LevelOf(x)' = LevelOf(x)
    BY <1>1, <1>2 DEF LevelOf
  <1>3. ASSUME NEW x PROVE LevelOf(x) \subseteq DOMAIN pieces
    BY DEF LevelOf
  <1>4. ASSUME NEW x, x # e PROVE Spans(x)' <=> Spans(x)
    BY <1>2, <1>3, <1>4 DEF Spans
  <1>5. ASSUME NEW p \in DOMAIN pieces, NEW c \in DOMAIN pieces PROVE Holds(p, c)' <=> Holds(p, c)
    BY DEF Holds
  <1>6. ASSUME NEW p \in DOMAIN pieces, NEW c \in DOMAIN pieces
        PROVE  HasText(pieces[p], pieces[c])' <=> HasText(pieces[p], pieces[c])
    <2>1. pieces'[p] = pieces[p] /\ pieces'[c] = pieces[c]
      OBVIOUS
    <2>2. HasText(pieces[p], pieces[c]) <=>
            Found(base, pieces[p].first, pieces[p].last, pieces[c].first, pieces[c].last)
      BY DEF HasText, Found
    <2>3. HasText(pieces[p], pieces[c])' <=>
            Found(base', pieces'[p].first, pieces'[p].last, pieces'[c].first, pieces'[c].last)
      BY DEF HasText, Found
    <2> QED
      BY <2>1, <2>2, <2>3
  <1>7. ASSUME NEW x, x # e, x + 1 # e
        PROVE  (Grouped(x)' <=> Grouped(x)) /\ (Adopted(x)' <=> Adopted(x))
    <2>1. LevelOf(x)' = LevelOf(x) /\ LevelOf(x + 1)' = LevelOf(x + 1)
      BY <1>2, <1>7
    <2>2. LevelOf(x) \subseteq DOMAIN pieces /\ LevelOf(x + 1) \subseteq DOMAIN pieces
      BY <1>3
    <2>3. Grouped(x)' <=> Grouped(x)
      BY <1>5, <2>1, <2>2 DEF Grouped
    <2>4. Plain(x)' <=> Plain(x)
      <3>1. ASSUME NEW c \in LevelOf(x + 1), NEW p \in LevelOf(x)
            PROVE  (HasText(pieces[p], pieces[c]) => Holds(p, c))' <=> (HasText(pieces[p], pieces[c]) => Holds(p, c))
        BY <1>5, <1>6, <2>2
      <3> QED
        BY <2>1, <3>1 DEF Plain
    <2>5. ASSUME NEW c \in LevelOf(x + 1), pieces[c].parent # 0
          PROVE  (pieces[c].parent \in LevelOf(x) /\ (Plain(x) => Holds(pieces[c].parent, c)))' <=>
                 (pieces[c].parent \in LevelOf(x) /\ (Plain(x) => Holds(pieces[c].parent, c)))
      <3>1. PICK q : q = pieces[c].parent
        OBVIOUS
      <3>2. c \in DOMAIN pieces /\ pieces'[c].parent = q
        BY <2>2, <3>1
      <3>3. CASE q \in LevelOf(x)
        <4>1. Holds(q, c)' <=> Holds(q, c)
          BY <1>5, <2>2, <3>2, <3>3
        <4>2. Holds(pieces[c].parent, c)' <=> Holds(q, c)'
          BY <3>2 DEF Holds
        <4> QED
          BY <2>1, <2>4, <3>1, <3>2, <4>1, <4>2
      <3>4. CASE q \notin LevelOf(x)
        BY <2>1, <3>1, <3>2, <3>4
      <3> QED
        BY <3>3, <3>4
    <2>6. \A c \in LevelOf(x + 1) : pieces'[c].parent = pieces[c].parent
      BY <2>2
    <2>7. Adopted(x)' <=> Adopted(x)
      BY <2>1, <2>5, <2>6 DEF Adopted
    <2> QED
      BY <2>3, <2>7
  <1> QED
    BY <1>2, <1>4, <1>5, <1>7

\* When no parent has its turn, or no child waits, each child has a parent.
LEMMA AllAdopted ==
  ASSUME Piles, sem \in {"output", "ok"}, use.levels \in Nat, Waiting = {} \/ Turn = {}
  PROVE  \A c \in LevelOf(Depth + 1) : pieces[c].parent # 0
  <1>1. PICK d : d = Depth
    OBVIOUS
  <1> SUFFICES ASSUME NEW c \in LevelOf(d + 1) PROVE pieces[c].parent # 0
    BY <1>1
  <1>2. CASE Waiting = {}
    BY <1>1, <1>2 DEF Waiting
  <1>3. CASE Turn = {}
    <2>1. pieces # <<>> /\ Served /\ \A i \in DOMAIN pieces : pieces[i].depth \in 1..use.levels
      BY DEF Piles
    <2>2. d \in Nat
      BY <1>1, <2>1, DepthFacts
    <2>3. d + 1 \in 1..use.levels
      BY <2>1 DEF LevelOf
    <2>4. d \in Depth..use.levels - 1
      BY <1>1, <2>2, <2>3
    <2>5. PICK p \in LevelOf(d) : Holds(p, c)
      BY <2>4 DEF Piles, Grouped
    <2> QED
      BY <1>1, <1>3, <2>1, <2>5 DEF Served
  <1> QED
    BY <1>2, <1>3

\* Along a level the text goes on.
LEMMA SpansGrow ==
  ASSUME pieces \in Seq(PieceType), NEW d, Spans(d),
         NEW i \in LevelOf(d), NEW j \in LevelOf(d), i <= j
  PROVE  pieces[i].first <= pieces[j].first /\ pieces[i].last <= pieces[j].last
         /\ pieces[i].first <= pieces[j].last
  <1>1. i \in DOMAIN pieces /\ j \in DOMAIN pieces
    BY DEF LevelOf
  <1>2. PICK f, l, g, m \in Nat : /\ f = pieces[i].first /\ l = pieces[i].last
                                  /\ g = pieces[j].first /\ m = pieces[j].last
    BY <1>1, PieceFields
  <1>3. f <= l /\ g <= m
    BY <1>2 DEF Spans
  <1>4. CASE i = j
    BY <1>2, <1>3, <1>4
  <1>5. CASE i # j
    <2>1. i < j
      BY <1>1, <1>5, PieceFields
    <2>2. l < g
      BY <1>2, <2>1 DEF Spans
    <2> QED
      BY <1>2, <1>3, <2>2
  <1> QED
    BY <1>4, <1>5

\* The level that was made last is at the end.
LEMMA LastLevel ==
  ASSUME Piles, pieces # <<>>
  PROVE  \E lo \in Nat \ {0} : lo <= Len(pieces) /\ LevelOf(Depth) = lo..Len(pieces)
  <1>1. PICK n, d : n = Len(pieces) /\ d = Depth
    OBVIOUS
  <1>2. /\ n \in Nat \ {0} /\ n \in LevelOf(d) /\ LevelOf(d) \subseteq 1..n /\ DOMAIN pieces = 1..n
        /\ \A i, j \in 1..n : i < j /\ i \in LevelOf(d) => j \in LevelOf(d)
    <2>1. pieces \in Seq(PieceType)
      BY DEF Piles
    <2>2. DOMAIN pieces = 1..n
      BY <1>1, <2>1
    <2> QED
      BY <1>1, <2>2, DepthFacts
  <1>3. PICK lo : lo = Min(LevelOf(d))
    OBVIOUS
  <1>4. lo \in LevelOf(d) /\ \A y \in LevelOf(d) : lo <= y
    <2>1. LevelOf(d) \in SUBSET Nat /\ LevelOf(d) # {}
      BY <1>2
    <2> QED
      BY <1>3, <2>1, MinIsLeast
  <1>5. lo \in 1..n
    BY <1>2, <1>4
  <1>6. ASSUME NEW i \in lo..n PROVE i \in LevelOf(d)
    <2>1. i \in 1..n
      BY <1>2, <1>5
    <2>2. CASE i = lo
      BY <1>4, <2>2
    <2>3. CASE i # lo
      <3>1. lo < i
        BY <1>5, <2>3
      <3> QED
        BY <1>2, <1>4, <1>5, <2>1, <3>1
    <2> QED
      BY <2>2, <2>3
  <1>7. \A i \in LevelOf(d) : i \in lo..n
    BY <1>2, <1>4, <1>5
  <1>8. LevelOf(d) = lo..n
    BY <1>6, <1>7
  <1> QED
    BY <1>1, <1>5, <1>8

\* The next level, of ranges of the chunks of the one before.
Rising(n, d, e, lo, m, A, B) ==
  /\ n = Len(pieces) /\ d = Depth /\ d = e + 1 /\ lo <= n /\ LevelOf(d) = lo..n
  /\ Splits(lo, n, m, A, B)

\* The new level is appended.
Raised(e, m, A, B) ==
  pieces' = pieces \o [k \in 1..m |-> Piece(pieces[A[k]].first, pieces[B[k]].last, e, 0)]

LEMMA RisePiles ==
  ASSUME Piles, sem = "output", base \in Seq(SegmentType), use.levels \in Nat,
         use' = use, base' = base, sem' = "output", Waiting = {} \/ Turn = {},
         NEW n \in Nat \ {0}, NEW d \in Nat, NEW e \in Nat \ {0}, NEW lo \in Nat \ {0},
         NEW m \in Nat \ {0}, NEW A, NEW B, Rising(n, d, e, lo, m, A, B), Raised(e, m, A, B)
  PROVE  Piles' /\ pieces' \in Seq(PieceType) /\ Len(pieces') = n + m
  <1>0. n = Len(pieces) /\ d = Depth /\ d = e + 1 /\ lo <= n /\ LevelOf(d) = lo..n
    BY DEF Rising
  <1>a. /\ \A k \in 1..m : /\ A[k] \in Nat /\ B[k] \in Nat
                           /\ lo <= A[k] /\ A[k] <= B[k] /\ B[k] <= n
        /\ \A j, k \in 1..m : j < k => B[j] < A[k]
    BY DEF Rising, Splits
  <1>b. \A i \in lo..n : \E k \in 1..m : A[k] <= i /\ i <= B[k]
    BY DEF Rising, Splits
  <1>c. e < d /\ d # e
    BY <1>0
  <1>1. /\ pieces \in Seq(PieceType)
        /\ \A i \in DOMAIN pieces : /\ pieces[i].depth \in 1..use.levels
                                    /\ pieces[i].parent \in 0..Len(pieces)
        /\ \A i, j \in DOMAIN pieces : i < j => pieces[i].depth >= pieces[j].depth
        /\ \A x \in d..use.levels : Spans(x) /\ LevelOf(x) # {}
        /\ \A x \in d..use.levels - 1 : Grouped(x) /\ Adopted(x)
        /\ \A x \in d + 1..use.levels - 1 : \A c \in LevelOf(x + 1) : pieces[c].parent # 0
        /\ \A c \in LevelOf(d) : pieces[c].parent = 0
        /\ pieces # <<>>
    BY <1>0 DEF Piles
  <1>2. DOMAIN pieces = 1..n
    BY <1>0, <1>1
  <1>3. \A c \in LevelOf(d + 1) : pieces[c].parent # 0
    BY <1>0, AllAdopted
  <1>4. d \in 1..use.levels /\ \A i \in 1..n : d <= pieces[i].depth /\ pieces[i].depth \in Nat
    BY <1>0, <1>1, <1>2, DepthFacts, PieceFields
  <1>d. PICK new : /\ new = [k \in 1..m |-> Piece(pieces[A[k]].first, pieces[B[k]].last, e, 0)]
                   /\ pieces' = pieces \o new
    BY DEF Raised
  <1>5. Spans(d)
    <2>1. d \in d..use.levels
      BY <1>4
    <2> QED
      BY <1>1, <2>1
  <1>6. ASSUME NEW k \in 1..m
        PROVE  /\ A[k] \in LevelOf(d) /\ B[k] \in LevelOf(d) /\ A[k] \in 1..n /\ B[k] \in 1..n
               /\ new[k] \in PieceType
               /\ new[k].first = pieces[A[k]].first /\ new[k].last = pieces[B[k]].last
               /\ new[k].depth = e /\ new[k].parent = 0
    <2>1. /\ A[k] \in Nat /\ B[k] \in Nat
          /\ lo <= A[k] /\ A[k] <= B[k] /\ B[k] <= n
      BY <1>a
    <2>5. A[k] \in lo..n /\ B[k] \in lo..n /\ A[k] \in 1..n /\ B[k] \in 1..n
      BY <2>1
    <2>2. A[k] \in LevelOf(d) /\ B[k] \in LevelOf(d) /\ A[k] \in 1..n /\ B[k] \in 1..n
      BY <1>0, <2>5
    <2>3. PICK f, l \in Nat : f = pieces[A[k]].first /\ l = pieces[B[k]].last
      BY <1>1, <1>2, <2>2, PieceFields
    <2>4. new[k] = [first |-> f, last |-> l, depth |-> e, parent |-> 0]
      BY <1>d, <2>3 DEF Piece
    <2>6. [first |-> f, last |-> l, depth |-> e, parent |-> 0] \in PieceType
      BY DEF PieceType
    <2>7. PICK t : t = new[k]
      OBVIOUS
    <2>8. t.first = f /\ t.last = l /\ t.depth = e /\ t.parent = 0 /\ t \in PieceType
      BY <2>4, <2>6, <2>7
    <2> QED
      BY <2>2, <2>3, <2>7, <2>8
  <1>7. new \in Seq(PieceType) /\ Len(new) = m
    <2>1. new = [k \in 1..m |-> new[k]]
      BY <1>d
    <2>2. \A k \in 1..m : new[k] \in PieceType
      BY <1>6
    <2> QED
      BY <2>1, <2>2
  <1>8. pieces' = pieces \o new
    BY <1>d
  <1>9. pieces' \in Seq(PieceType) /\ Len(pieces') = n + m
    <2>1. pieces \in Seq(PieceType) /\ Len(pieces) = n
      BY <1>0, <1>1
    <2>2. \A s, t \in Seq(PieceType) : s \o t \in Seq(PieceType) /\ Len(s \o t) = Len(s) + Len(t)
      OBVIOUS
    <2> QED
      BY <1>7, <1>8, <2>1, <2>2
  <1>10. DOMAIN pieces' = 1..n + m /\ pieces' # <<>> /\ n + m \in 1..n + m
    BY <1>9
  <1>11. ASSUME NEW i \in 1..n PROVE pieces'[i] = pieces[i] /\ i \in 1..n + m
    BY <1>0, <1>1, <1>7, <1>8
  <1>12. ASSUME NEW k \in 1..m PROVE pieces'[n + k] = new[k] /\ n + k \in 1..n + m /\ n + k > n
    <2>1. n + k \in 1..n + m /\ ~(n + k <= n) /\ n + k - n = k /\ n + k > n
      OBVIOUS
    <2> QED
      BY <1>0, <1>1, <1>7, <1>8, <2>1
  <1>13. ASSUME NEW i \in 1..n + m, i \notin 1..n PROVE \E k \in 1..m : i = n + k
    <2>1. i - n \in 1..m /\ i = n + (i - n)
      BY <1>13
    <2> QED
      BY <2>1
  <1>14. \A i \in DOMAIN pieces' \ DOMAIN pieces : pieces'[i].depth = e /\ pieces'[i].parent = 0
    <2> SUFFICES ASSUME NEW i \in 1..n + m, i \notin 1..n
                 PROVE  pieces'[i].depth = e /\ pieces'[i].parent = 0
      BY <1>2, <1>10
    <2>1. PICK k \in 1..m : i = n + k
      BY <1>13
    <2> QED
      BY <1>6, <1>12, <2>1
  <1>15. /\ \A x : x # e => LevelOf(x)' = LevelOf(x) /\ (Spans(x)' <=> Spans(x))
         /\ \A x : x # e /\ x + 1 # e =>
              (Grouped(x)' <=> Grouped(x)) /\ (Adopted(x)' <=> Adopted(x))
         /\ \A p, c \in DOMAIN pieces : Holds(p, c)' <=> Holds(p, c)
    <2>1. Len(pieces) <= Len(pieces')
      BY <1>0, <1>9
    <2>2. \A i \in DOMAIN pieces : pieces'[i] = pieces[i]
      BY <1>2, <1>11
    <2>3. \A i \in DOMAIN pieces' \ DOMAIN pieces : pieces'[i].depth = e
      BY <1>14
    <2> QED
      BY <1>1, <1>9, <2>1, <2>2, <2>3, AppendedFacts
  <1>16. ASSUME NEW i PROVE i \in LevelOf(e)' <=> \E k \in 1..m : i = n + k
    <2>1. ASSUME i \in LevelOf(e)' PROVE \E k \in 1..m : i = n + k
      <3>1. i \in 1..n + m /\ pieces'[i].depth = e
        BY <1>10, <2>1 DEF LevelOf
      <3>2. i \notin 1..n
        <4> SUFFICES ASSUME i \in 1..n PROVE FALSE
          OBVIOUS
        <4>1. d <= pieces[i].depth /\ pieces[i].depth = e
          BY <1>4, <1>11, <3>1
        <4> QED
          BY <1>c, <4>1
      <3> QED
        BY <1>13, <3>1, <3>2
    <2>2. ASSUME NEW k \in 1..m, i = n + k PROVE i \in LevelOf(e)'
      BY <1>6, <1>10, <1>12, <2>2 DEF LevelOf
    <2> QED
      BY <2>1, <2>2
  <1>17. Depth' = e
    <2>1. m \in 1..m
      OBVIOUS
    <2>2. pieces'[n + m].depth = e
      BY <1>6, <1>12, <2>1
    <2> QED
      BY <1>9, <1>10, <2>2 DEF Depth
  <1>18. ASSUME NEW i \in 1..n + m
         PROVE  pieces'[i].depth \in 1..use.levels /\ pieces'[i].parent \in 0..n + m
    <2>1. CASE i \in 1..n
      <3>1. pieces'[i].depth \in 1..use.levels /\ pieces'[i].parent \in 0..n
        BY <1>0, <1>1, <1>2, <1>11, <2>1
      <3> QED
        BY <3>1
    <2>2. CASE i \notin 1..n
      <3>1. pieces'[i].depth = e /\ pieces'[i].parent = 0
        BY <1>2, <1>10, <1>14, <2>2
      <3>2. e \in 1..use.levels
        BY <1>c, <1>4
      <3> QED
        BY <3>1, <3>2
    <2> QED
      BY <2>1, <2>2
  <1>19. ASSUME NEW i \in 1..n + m, NEW j \in 1..n + m, i < j
         PROVE  pieces'[i].depth >= pieces'[j].depth
    <2>1. CASE j \in 1..n
      <3>1. i \in 1..n
        BY <1>19, <2>1
      <3> QED
        BY <1>1, <1>2, <1>11, <1>19, <2>1, <3>1
    <2>2. CASE j \notin 1..n
      <3>1. pieces'[j].depth = e
        BY <1>2, <1>10, <1>14, <2>2
      <3>2. CASE i \in 1..n
        <4>1. d <= pieces'[i].depth /\ pieces'[i].depth \in Nat
          BY <1>4, <1>11, <3>2
        <4> QED
          BY <1>c, <3>1, <4>1
      <3>3. CASE i \notin 1..n
        <4>1. pieces'[i].depth = e
          BY <1>2, <1>10, <1>14, <3>3
        <4> QED
          BY <3>1, <4>1
      <3> QED
        BY <3>2, <3>3
    <2> QED
      BY <2>1, <2>2
  <1>20. ASSUME NEW k \in 1..m
         PROVE  /\ pieces'[n + k].first = pieces[A[k]].first
                /\ pieces'[n + k].last = pieces[B[k]].last
    BY <1>6, <1>12
  <1>21. Spans(e)'
    <2>1. ASSUME NEW i \in LevelOf(e)'
          PROVE  1 <= pieces'[i].first /\ pieces'[i].first <= pieces'[i].last
                 /\ pieces'[i].last <= Len(base')
      <3>1. PICK k \in 1..m : i = n + k
        BY <1>16
      <3>2. A[k] <= B[k] /\ A[k] \in LevelOf(d) /\ B[k] \in LevelOf(d)
        BY <1>a, <1>6
      <3>3. 1 <= pieces[A[k]].first /\ pieces[B[k]].last <= Len(base)
        BY <1>5, <3>2 DEF Spans
      <3>4. pieces[A[k]].first <= pieces[B[k]].last
        BY <1>1, <1>5, <3>2, SpansGrow
      <3> QED
        BY <1>20, <3>1, <3>3, <3>4
    <2>2. ASSUME NEW s \in DOMAIN base'
          PROVE  \E i \in LevelOf(e)' : pieces'[i].first <= s /\ s <= pieces'[i].last
      <3>1. PICK i \in LevelOf(d) : pieces[i].first <= s /\ s <= pieces[i].last
        BY <1>5 DEF Spans
      <3>2. PICK k \in 1..m : A[k] <= i /\ i <= B[k]
        BY <1>0, <1>b
      <3>3. A[k] \in LevelOf(d) /\ B[k] \in LevelOf(d)
        BY <1>6
      <3>4. pieces[A[k]].first <= pieces[i].first
        BY <1>1, <1>5, <3>2, <3>3, SpansGrow
      <3>5. pieces[i].last <= pieces[B[k]].last
        BY <1>1, <1>5, <3>2, <3>3, SpansGrow
      <3>6. n + k \in LevelOf(e)'
        BY <1>16
      <3>7. PICK a, b, f, g, t \in Nat : /\ a = pieces[A[k]].first /\ b = pieces[B[k]].last
                                         /\ f = pieces[i].first /\ g = pieces[i].last /\ t = s
        <4>1. i \in 1..n
          BY <1>2 DEF LevelOf
        <4>2. A[k] \in DOMAIN pieces /\ B[k] \in DOMAIN pieces /\ i \in DOMAIN pieces
          BY <1>2, <1>6, <4>1
        <4>3. /\ pieces[A[k]].first \in Nat /\ pieces[B[k]].last \in Nat
              /\ pieces[i].first \in Nat /\ pieces[i].last \in Nat
          BY <1>1, <4>2, PieceFields
        <4>4. s \in Nat
          <5>1. s \in DOMAIN base /\ DOMAIN base = 1..Len(base)
            BY <2>2
          <5> QED
            BY <5>1
        <4> QED
          BY <4>3, <4>4
      <3>8. a <= t /\ t <= b
        <4>1. a <= f /\ f <= t /\ t <= g /\ g <= b
          BY ONLY <3>1, <3>4, <3>5, <3>7
        <4>2. a \in Nat /\ b \in Nat /\ f \in Nat /\ g \in Nat /\ t \in Nat
          BY <3>7
        <4> QED
          BY ONLY <4>1, <4>2
      <3> QED
        BY <1>20, <3>6, <3>7, <3>8
    <2>3. ASSUME NEW i \in LevelOf(e)', NEW j \in LevelOf(e)', i < j
          PROVE  pieces'[i].last < pieces'[j].first
      <3>1. PICK k \in 1..m : i = n + k
        BY <1>16
      <3>2. PICK r \in 1..m : j = n + r
        BY <1>16
      <3>3. k < r
        BY <2>3, <3>1, <3>2
      <3>4. B[k] < A[r] /\ B[k] \in LevelOf(d) /\ A[r] \in LevelOf(d)
        BY <1>a, <1>6, <3>3
      <3>5. pieces[B[k]].last < pieces[A[r]].first
        BY <1>5, <3>4 DEF Spans
      <3> QED
        BY <1>20, <3>1, <3>2, <3>5
    <2> QED
      BY <2>1, <2>2, <2>3 DEF Spans
  <1>22. LevelOf(d)' = LevelOf(d) /\ LevelOf(e + 1)' = LevelOf(d)
    BY <1>0, <1>c, <1>15
  <1>23. Grouped(e)'
    <2>1. ASSUME NEW p \in LevelOf(e)' PROVE \E c \in LevelOf(e + 1)' : Holds(p, c)'
      <3>1. PICK k \in 1..m : p = n + k
        BY <1>16
      <3>2. A[k] <= B[k] /\ A[k] \in LevelOf(d) /\ B[k] \in LevelOf(d) /\ A[k] \in 1..n
        BY <1>a, <1>6
      <3>3. pieces[A[k]].last <= pieces[B[k]].last
        BY <1>1, <1>5, <3>2, SpansGrow
      <3>4. pieces[A[k]].first <= pieces[A[k]].first
        BY <1>1, <1>2, <3>2, PieceFields
      <3>5. pieces'[A[k]] = pieces[A[k]]
        BY <1>11, <3>2
      <3>6. Holds(p, A[k])'
        BY <1>20, <3>1, <3>3, <3>4, <3>5 DEF Holds
      <3> QED
        BY <1>22, <3>2, <3>6
    <2>2. ASSUME NEW c \in LevelOf(e + 1)' PROVE \E p \in LevelOf(e)' : Holds(p, c)'
      <3>1. c \in LevelOf(d) /\ c \in 1..n /\ c \in lo..n
        BY <1>0, <1>2, <1>22 DEF LevelOf
      <3>2. PICK k \in 1..m : A[k] <= c /\ c <= B[k]
        BY <1>b, <3>1
      <3>3. A[k] \in LevelOf(d) /\ B[k] \in LevelOf(d)
        BY <1>6
      <3>4. pieces[A[k]].first <= pieces[c].first
        BY <1>1, <1>5, <3>1, <3>2, <3>3, SpansGrow
      <3>5. pieces[c].last <= pieces[B[k]].last
        BY <1>1, <1>5, <3>1, <3>2, <3>3, SpansGrow
      <3>6. n + k \in LevelOf(e)'
        BY <1>16
      <3>7. pieces'[c] = pieces[c]
        BY <1>11, <3>1
      <3>8. Holds(n + k, c)'
        BY <1>20, <3>4, <3>5, <3>7 DEF Holds
      <3> QED
        BY <3>6, <3>8
    <2> QED
      BY <2>1, <2>2 DEF Grouped
  <1>24. \A c \in LevelOf(d) : pieces'[c].parent = 0
    BY <1>1, <1>2, <1>11 DEF LevelOf
  <1>25. Adopted(e)'
    BY <1>22, <1>24 DEF Adopted
  <1>26. \A x \in e..use.levels : Spans(x)' /\ LevelOf(x)' # {}
    <2> SUFFICES ASSUME NEW x \in e..use.levels PROVE Spans(x)' /\ LevelOf(x)' # {}
      OBVIOUS
    <2>1. CASE x = e
      <3>1. n + 1 \in LevelOf(e)'
        BY <1>16
      <3> QED
        BY <1>21, <2>1, <3>1
    <2>2. CASE x # e
      <3>1. x \in d..use.levels
        BY <1>0, <2>2
      <3> QED
        BY <1>1, <1>15, <2>2, <3>1
    <2> QED
      BY <2>1, <2>2
  <1>27. \A x \in e..use.levels - 1 : Grouped(x)' /\ Adopted(x)'
    <2> SUFFICES ASSUME NEW x \in e..use.levels - 1 PROVE Grouped(x)' /\ Adopted(x)'
      OBVIOUS
    <2>1. CASE x = e
      BY <1>23, <1>25, <2>1
    <2>2. CASE x # e
      <3>1. x \in d..use.levels - 1 /\ x + 1 # e
        BY <1>0, <2>2
      <3> QED
        BY <1>1, <1>15, <2>2, <3>1
    <2> QED
      BY <2>1, <2>2
  <1>28. ASSUME NEW x \in e + 1..use.levels - 1, NEW c \in LevelOf(x + 1)'
         PROVE  pieces'[c].parent # 0
    <2>1. x + 1 # e
      OBVIOUS
    <2>2. c \in LevelOf(x + 1)
      BY <1>15, <2>1
    <2>3. c \in 1..n
      BY <1>2, <2>2 DEF LevelOf
    <2>4. pieces[c].parent # 0
      <3>1. CASE x = d
        BY <1>3, <2>2, <3>1
      <3>2. CASE x # d
        <4>1. x \in d + 1..use.levels - 1
          BY <1>0, <3>2
        <4> QED
          BY <1>1, <2>2, <4>1
      <3> QED
        BY <3>1, <3>2
    <2> QED
      BY <1>11, <2>3, <2>4
  <1>29. \A i : i \in LevelOf(Depth)' <=> i \in LevelOf(e)'
    BY <1>17 DEF LevelOf
  <1>30. ASSUME NEW c \in LevelOf(Depth)' PROVE pieces'[c].parent = 0
    <2>1. PICK k \in 1..m : c = n + k
      BY <1>16, <1>29
    <2> QED
      BY <1>6, <1>12, <2>1
  <1>31. ASSUME NEW p \in LevelOf(Depth)' PROVE p \in Turn'
    <2>1. PICK k \in 1..m : p = n + k
      BY <1>16, <1>29
    <2>2. ASSUME NEW c \in 1..n + m PROVE pieces'[c].parent < p
      <3>1. CASE c \in 1..n
        <4>1. pieces'[c].parent \in 0..n
          BY <1>0, <1>1, <1>2, <1>11, <3>1
        <4> QED
          BY <2>1, <4>1
      <3>2. CASE c \notin 1..n
        <4>1. pieces'[c].parent = 0
          BY <1>2, <1>10, <1>14, <3>2
        <4> QED
          BY <2>1, <4>1
      <3> QED
        BY <3>1, <3>2
    <2> QED
      BY <1>10, <2>2 DEF Turn
  <1>32. Served'
    BY <1>31 DEF Served
  <1>33. sem' # "ok" /\ use'.levels = use.levels
    OBVIOUS
  <1>34. \A i \in DOMAIN pieces' : pieces'[i].depth \in 1..use.levels /\ pieces'[i].parent \in 0..Len(pieces')
    BY <1>9, <1>10, <1>18
  <1>35. \A i, j \in DOMAIN pieces' : i < j => pieces'[i].depth >= pieces'[j].depth
    BY <1>10, <1>19
  <1>36. \A x \in e + 1..use.levels - 1 : \A c \in LevelOf(x + 1)' : pieces'[c].parent # 0
    BY <1>28
  <1>37. \A c \in LevelOf(Depth)' : pieces'[c].parent = 0
    BY <1>30
  <1> QED
    BY <1>9, <1>10, <1>17, <1>26, <1>27, <1>32, <1>33, <1>34, <1>35, <1>36, <1>37 DEF Piles

LEMMA SameLevels ==
  ASSUME pieces' = pieces, base' = base, use' = use
  PROVE  /\ Depth' = Depth
         /\ \A x : /\ LevelOf(x)' = LevelOf(x) /\ (Spans(x)' <=> Spans(x))
                   /\ (Grouped(x)' <=> Grouped(x)) /\ (Adopted(x)' <=> Adopted(x))
         /\ LevelOf(Depth)' = LevelOf(Depth) /\ LevelOf(Depth + 1)' = LevelOf(Depth + 1)
         /\ (Served' <=> Served)
  <1>1. Depth' = Depth
    BY DEF Depth
  <1>2. ASSUME NEW x PROVE LevelOf(x)' = LevelOf(x)
    BY DEF LevelOf
  <1>3. ASSUME NEW x PROVE Spans(x)' <=> Spans(x)
    BY <1>2 DEF Spans
  <1>4. ASSUME NEW p, NEW c PROVE Holds(p, c)' <=> Holds(p, c)
    BY DEF Holds
  <1>5. ASSUME NEW x PROVE Grouped(x)' <=> Grouped(x)
    BY <1>2, <1>4 DEF Grouped
  <1>6. ASSUME NEW p, NEW c PROVE HasText(pieces[p], pieces[c])' <=> HasText(pieces[p], pieces[c])
    <2>1. HasText(pieces[p], pieces[c]) <=>
            Found(base, pieces[p].first, pieces[p].last, pieces[c].first, pieces[c].last)
      BY DEF HasText, Found
    <2>2. HasText(pieces[p], pieces[c])' <=>
            Found(base', pieces'[p].first, pieces'[p].last, pieces'[c].first, pieces'[c].last)
      BY DEF HasText, Found
    <2> QED
      BY <2>1, <2>2
  <1>7. ASSUME NEW x PROVE Plain(x)' <=> Plain(x)
    <2>1. ASSUME NEW p, NEW c
          PROVE  (HasText(pieces[p], pieces[c]) => Holds(p, c))' <=> (HasText(pieces[p], pieces[c]) => Holds(p, c))
      BY <1>4, <1>6
    <2> QED
      BY <1>2, <2>1 DEF Plain
  <1>8. ASSUME NEW x PROVE Adopted(x)' <=> Adopted(x)
    <2>1. ASSUME NEW c PROVE Holds(pieces[c].parent, c)' <=> Holds(pieces[c].parent, c)
      BY DEF Holds
    <2> QED
      BY <1>2, <1>7, <2>1 DEF Adopted
  <1>9. LevelOf(Depth)' = LevelOf(Depth) /\ LevelOf(Depth + 1)' = LevelOf(Depth + 1)
    BY <1>1 DEF LevelOf
  <1>10. Turn' = Turn
    BY <1>9 DEF Turn
  <1>11. Served' <=> Served
    BY <1>4, <1>9, <1>10 DEF Served
  <1> QED
    BY <1>1, <1>2, <1>3, <1>5, <1>8, <1>9, <1>11

LEMMA SamePiles ==
  ASSUME Piles, pieces' = pieces, base' = base, use' = use,
         sem' \in {"output", "ok"} => sem \in {"output", "ok"},
         sem' = "ok" => sem = "ok" \/ \A c \in LevelOf(Depth + 1) : pieces[c].parent # 0
  PROVE  Piles'
  <1>1. /\ Depth' = Depth
        /\ \A x : /\ LevelOf(x)' = LevelOf(x) /\ (Spans(x)' <=> Spans(x))
                  /\ (Grouped(x)' <=> Grouped(x)) /\ (Adopted(x)' <=> Adopted(x))
        /\ LevelOf(Depth)' = LevelOf(Depth) /\ LevelOf(Depth + 1)' = LevelOf(Depth + 1)
        /\ (Served' <=> Served)
    BY SameLevels
  <1>2. /\ pieces' \in Seq(PieceType)
        /\ \A i \in DOMAIN pieces' : /\ pieces'[i].depth \in 1..use'.levels
                                     /\ pieces'[i].parent \in 0..Len(pieces')
        /\ \A i, j \in DOMAIN pieces' : i < j => pieces'[i].depth >= pieces'[j].depth
    BY DEF Piles
  <1>3. CASE sem' \notin {"output", "ok"}
    BY <1>2, <1>3 DEF Piles
  <1>4. CASE sem' \in {"output", "ok"}
    <2>1. /\ pieces # <<>>
          /\ \A d \in Depth..use.levels : Spans(d) /\ LevelOf(d) # {}
          /\ \A d \in Depth..use.levels - 1 : Grouped(d) /\ Adopted(d)
          /\ \A d \in Depth + 1..use.levels - 1 : \A c \in LevelOf(d + 1) : pieces[c].parent # 0
          /\ \A c \in LevelOf(Depth) : pieces[c].parent = 0
          /\ Served
          /\ sem = "ok" => \A c \in LevelOf(Depth + 1) : pieces[c].parent # 0
      BY <1>4 DEF Piles
    <2>2. /\ pieces' # <<>>
          /\ \A d \in Depth'..use'.levels : Spans(d)' /\ LevelOf(d)' # {}
          /\ \A d \in Depth'..use'.levels - 1 : Grouped(d)' /\ Adopted(d)'
          /\ Served'
      BY <1>1, <2>1
    <2>3. /\ \A d \in Depth' + 1..use'.levels - 1 : \A c \in LevelOf(d + 1)' : pieces'[c].parent # 0
          /\ \A c \in LevelOf(Depth)' : pieces'[c].parent = 0
          /\ sem' = "ok" => \A c \in LevelOf(Depth + 1)' : pieces'[c].parent # 0
      BY <1>1, <2>1
    <2> QED
      BY <1>2, <2>2, <2>3 DEF Piles
  <1> QED
    BY <1>3, <1>4

LEMMA AscendPiles ==
  ASSUME Piles, sem = "output", base \in Seq(SegmentType), use.levels \in Nat, use.unit \in Nat, Ascend
  PROVE  /\ Piles' /\ pieces' \in Seq(PieceType) /\ Len(pieces) <= Len(pieces')
         /\ sem' = "ok" => Len(pieces') = Len(pieces)
  <1>1. PICK d : d = Depth
    OBVIOUS
  <1>2. PICK next : next = IF d = 1 \/ cancelled THEN <<>> ELSE NextLevel(d - 1)
    OBVIOUS
  <1>3. /\ pieces' = pieces \o next
        /\ sem' = IF d > 1 /\ cancelled THEN "error" ELSE IF next = <<>> THEN "ok" ELSE "output"
        /\ base' = base /\ use' = use /\ (Waiting = {} \/ Turn = {})
    BY <1>1, <1>2 DEF Ascend, progress, chunker
  <1>4. pieces \in Seq(PieceType) /\ pieces # <<>>
    BY DEF Piles
  <1>5. Len(pieces) \in Nat \ {0} /\ d \in Nat \ {0}
    <2>1. Len(pieces) \in Nat \ {0} /\ d \in Nat /\ d \in 1..use.levels
      BY <1>1, <1>4, DepthFacts
    <2> QED
      BY <2>1
  <1>6. CASE next = <<>>
    <2>1. pieces' = pieces
      BY <1>3, <1>4, <1>6
    <2>2. \A c \in LevelOf(Depth + 1) : pieces[c].parent # 0
      BY <1>3, AllAdopted
    <2>3. Piles'
      BY <1>3, <2>1, <2>2, SamePiles
    <2> QED
      BY <1>4, <1>5, <2>1, <2>3
  <1>7. CASE next # <<>>
    <2>1. d # 1 /\ ~cancelled /\ next = NextLevel(d - 1) /\ sem' = "output"
      BY <1>2, <1>3, <1>7
    <2>2. PICK e \in Nat \ {0} : e = d - 1 /\ d = e + 1
      <3>1. d - 1 \in Nat \ {0} /\ d = d - 1 + 1
        BY <1>5, <2>1
      <3> QED
        BY <3>1
    <2>3. PICK lo \in Nat \ {0} : lo <= Len(pieces) /\ LevelOf(d) = lo..Len(pieces)
      BY <1>1, <1>4, LastLevel
    <2>4. PICK n \in Nat \ {0} : n = Len(pieces)
      BY <1>5
    <2>5. LevelOf(e + 1) = lo..n /\ lo <= n
      BY <2>2, <2>3, <2>4
    <2>6. PICK m \in Nat \ {0} : \E A, B :
            /\ Splits(lo, n, m, A, B)
            /\ NextLevel(e) = [k \in 1..m |-> Piece(pieces[A[k]].first, pieces[B[k]].last, e, 0)]
      <3>1. NextLevel(e) # <<>>
        BY <1>7, <2>1, <2>2
      <3>2. PICK L \in Nat : use.levels = L
        OBVIOUS
      <3> QED
        BY <2>5, <3>1, <3>2, NextLevelFacts
    <2>7. PICK A, B :
            /\ Splits(lo, n, m, A, B)
            /\ NextLevel(e) = [k \in 1..m |-> Piece(pieces[A[k]].first, pieces[B[k]].last, e, 0)]
      BY <2>6
    <2>8. Rising(n, d, e, lo, m, A, B)
      BY <1>1, <2>2, <2>3, <2>4, <2>5, <2>7 DEF Rising
    <2>9. Raised(e, m, A, B)
      BY <1>3, <2>1, <2>2, <2>7 DEF Raised
    <2>10. Piles' /\ pieces' \in Seq(PieceType) /\ Len(pieces') = n + m
      BY <1>3, <1>5, <2>1, <2>8, <2>9, RisePiles
    <2>11. Len(pieces) <= Len(pieces')
      BY <2>4, <2>10
    <2> QED
      BY <2>1, <2>10, <2>11
  <1> QED
    BY <1>6, <1>7

LEMMA PilesStep ==
  ASSUME IInv, IInv', [Next]_vars, Prepares, Placed, Windows, Piles
  PROVE  /\ Piles' /\ pieces' \in Seq(PieceType)
         /\ sem = "output" => Len(pieces) <= Len(pieces')
         /\ sem = "output" /\ sem' = "ok" => Len(pieces') = Len(pieces)
  <1>1. /\ use' = use /\ Chunks = 1..Len(tree) /\ pieces \in Seq(PieceType) /\ Len(pieces) \in Nat
        /\ base \in Seq(SegmentType)
    BY ChunkerStep DEF Piles, Windows
  <1>2. CASE /\ pieces' = pieces /\ base' = base
             /\ sem' \in {"output", "ok"} => sem \in {"output", "ok"} /\ sem' = sem
    <2>1. Piles'
      BY <1>1, <1>2, SamePiles
    <2> QED
      BY <1>1, <1>2, <2>1
  <1>3. CASE UNCHANGED semantic
    BY <1>2, <1>3 DEF semantic
  <1>4. CASE Collected \/ Look \/ Ask
    BY <1>2, <1>4 DEF Collected, Look, Ask, progress
  <1>5. CASE Merge
    <2>1. /\ sem = "segment" /\ window > Len(tree) /\ asked = {} /\ sem' = "output" /\ base' = Flat
          /\ pieces' = [k \in 1..Len(base') |-> Piece(k, k, use.levels, 0)]
      BY <1>5 DEF Merge, Flat
    <2>2. outcome = "ok" /\ window \in 1..Len(tree) + 1
      BY <2>1 DEF Windows
    <2>3. Len(tree) \in Nat \ {0}
      <3>1. tree # <<>> /\ tree \in Seq(ChunkType)
        BY <2>2 DEF Placed, IInv, Typed
      <3> QED
        BY <3>1
    <2>4. \A w \in 1..Len(tree) : Answered(answers[w])
      <3>1. window = Len(tree) + 1
        BY <2>1, <2>2, <2>3
      <3>2. DOMAIN answers = 1..Len(tree)
        BY <2>1, <2>3, <3>1 DEF Windows
      <3> QED
        BY <3>2 DEF Windows
    <2>5. Flat \in Seq(SegmentType) /\ Flat # <<>>
      BY <2>3, <2>4, FlatFacts
    <2>6. PICK n \in Nat \ {0} : n = Len(base')
      BY <2>1, <2>5
    <2>7. use.levels \in Nat \ {0}
      BY <2>1 DEF Prepares
    <2>8. Piles' /\ pieces' \in Seq(PieceType)
      BY <1>1, <2>1, <2>5, <2>6, <2>7, MergePiles
    <2> QED
      BY <2>1, <2>8
  <1>6. CASE Adopt \/ Ascend
    <2>1. sem = "output" /\ use.levels \in Nat /\ use.unit \in Nat
      BY <1>6 DEF Adopt, Ascend, LevelOut, Prepares
    <2>2. CASE Adopt
      BY <1>1, <2>1, <2>2, AdoptPiles
    <2>3. CASE Ascend
      BY <1>1, <2>1, <2>3, AscendPiles
    <2> QED
      BY <1>6, <2>2, <2>3
  <1>7. CASE HandOut
    <2>1. /\ sem = "output" /\ (sem' = "output" \/ sem' = "error")
          /\ base' = base /\ pieces' = pieces
      BY <1>7 DEF HandOut, Deliver, Stumble, progress
    <2> QED
      BY <1>2, <2>1
  <1>8. CASE Chunked \/ Extract \/ Save \/ Embed \/ StoreAll
    BY <1>3, <1>8 DEF Chunked, Extract, Save, Embed, StoreAll, Quiet, Backend
  <1>9. ASSUME NEW c \in Chunks,
               Load(c) \/ Store(c) \/ ((Answer(c) \/ Fallback(c)) /\ UNCHANGED upsert)
        PROVE  UNCHANGED semantic
               \/ (pieces' = pieces /\ base' = base /\ sem' = sem)
    BY <1>9 DEF Load, Store, Answer, Fallback, Become
  <1> QED
    BY <1>2, <1>3, <1>4, <1>5, <1>6, <1>7, <1>8, <1>9, Moves DEF Segmenter

-----------------------------------------------------------------------------
(* The invariant, and what it says.                                        *)

LEMMA PreparedAsks ==
  ASSUME NEW u \in Uses
  PROVE  /\ Prepared(u).kind = u.kind
         /\ u.kind = "semantic" => /\ Prepared(u).asks \in Nat \ {0}
                                   /\ Prepared(u).levels \in Nat \ {0}
                                   /\ Prepared(u).unit \in Nat \ {0}
  <1>1. u \in UseType
    BY SemanticAssumption DEF UseType
  <1>2. CASE u.kind # "semantic"
    BY <1>2 DEF Prepared
  <1>3. CASE u.kind = "semantic"
    <2> DEFINE overlap == IF u.overlap <= 0 \/ u.overlap > u.unit THEN 50 ELSE u.overlap
               size == IF u.context <= 0 THEN u.unit * u.levels * 3 ELSE u.context
               asks == IF u.asks <= 0 THEN 4 ELSE u.asks
    <2>1. Prepared(u) = [u EXCEPT !.overlap = overlap, !.size = size, !.maxDepth = 1, !.asks = asks]
      BY <1>3 DEF Prepared
    <2>2. u.levels \in Nat \ {0} /\ u.unit \in Nat \ {0}
      BY <1>3, SemanticAssumption
    <2>3. u.asks \in Int
      BY <1>1 DEF UseType
    <2>4. asks \in Nat \ {0}
      BY <2>3
    <2> HIDE DEF overlap, size, asks
    <2>5. PICK q \in UseType : q = u
      BY <1>1
    <2>6. PICK r : r = [q EXCEPT !.overlap = overlap, !.size = size, !.maxDepth = 1, !.asks = asks]
      OBVIOUS
    <2>7. r.kind = q.kind /\ r.asks = asks /\ r.levels = q.levels /\ r.unit = q.unit
      BY <2>6 DEF UseType
    <2> QED
      BY <2>1, <2>2, <2>4, <2>5, <2>6, <2>7
  <1> QED
    BY <1>2, <1>3

LEMMA FixedMore ==
  ASSUME NEW v \in UseType
  PROVE  /\ Fixed(v).kind = v.kind /\ Fixed(v).asks = v.asks /\ Fixed(v).levels = v.levels
         /\ Fixed(v).unit = v.unit
         /\ Fixed(v).maxDepth \in Nat \ {0} /\ Fixed(v).concurrent \in Nat \ {0}
  <1> DEFINE depth == Max({1, Min({5, v.maxDepth})})
             times == IF v.multiplier <= 0 THEN 3 ELSE v.multiplier
             many == IF v.concurrent <= 0 THEN 10 ELSE v.concurrent
  <1>1. Fixed(v) = [v EXCEPT !.maxDepth = depth, !.multiplier = times, !.concurrent = many]
    BY DEF Fixed
  <1>2. v.maxDepth \in Int /\ v.concurrent \in Int
    BY DEF UseType
  <1>3. depth \in Nat \ {0}
    <2>1. PICK d \in Int : d = v.maxDepth
      BY <1>2
    <2>2. Min({5, d}) \in Int
      <3>1. 5 \in Int
        OBVIOUS
      <3> QED
        BY <3>1, Pairs
    <2>3. PICK m \in Int : m = Min({5, v.maxDepth})
      BY <2>1, <2>2
    <2>4. Max({1, m}) \in Int /\ 1 <= Max({1, m})
      BY Pairs
    <2>5. depth = Max({1, m})
      BY <2>3
    <2> HIDE DEF depth
    <2>6. depth \in Int /\ 1 <= depth
      BY <2>4, <2>5
    <2> QED
      BY <2>6
  <1>4. many \in Nat \ {0}
    BY <1>2
  <1> HIDE DEF depth, times, many
  <1> QED
    BY <1>1, <1>3, <1>4 DEF UseType

LEMMA TextInit ==
  ASSUME Init
  PROVE  TextInv
  <1>1. PICK u \in Uses : use = Fixed(Prepared(u))
    BY DEF Init, SemanticInit, ChunkerInit
  <1>2. /\ tree = <<>> /\ frames = <<>> /\ outcome = "new" /\ faults = 0
        /\ sem = IF use.kind = "semantic" THEN "windows" ELSE "off"
        /\ window = 1 /\ asked = {} /\ answers = <<>> /\ base = <<>>
        /\ pieces = <<>> /\ delivered = 0
        /\ chunks = {} /\ local = <<>> /\ phase = "chunk"
        /\ graph = FALSE /\ stored = 0 /\ raced = FALSE
    BY DEF Init, SemanticInit, ChunkerInit
  <1>3. Prepares
    <2>1. PICK v \in UseType : v = Prepared(u)
      BY PreparedType
    <2>2. /\ v.kind = u.kind
          /\ u.kind = "semantic" => /\ v.asks \in Nat \ {0} /\ v.levels \in Nat \ {0}
                                    /\ v.unit \in Nat \ {0}
      BY <2>1, PreparedAsks
    <2>3. /\ use.kind = v.kind /\ use.asks = v.asks /\ use.levels = v.levels /\ use.unit = v.unit
          /\ use.maxDepth \in Nat \ {0} /\ use.concurrent \in Nat \ {0}
      BY <1>1, <2>1, FixedMore
    <2> QED
      BY <1>2, <2>2, <2>3 DEF Prepares
  <1>4. Chunks = {} /\ Levels = {} /\ DOMAIN local = {} /\ DOMAIN answers = {} /\ Len(tree) = 0
        /\ DOMAIN pieces = {} /\ Len(pieces) = 0
    BY <1>2 DEF Chunks, Levels
  <1>5. Layout
    BY <1>2, <1>4 DEF Layout, Placed, Nested, Covered
  <1>6. Slice
    <2>1. {c \in Chunks : tree[c].call = "done"} = {} /\ 1..delivered = {}
      BY <1>2, <1>4
    <2>2. raced \in BOOLEAN /\ graph \in BOOLEAN /\ chunks = {} /\ DOMAIN local = {}
      BY <1>2, <1>4
    <2>3. CASE Structured
      BY <2>1, <2>2, <2>3 DEF Slice
    <2>4. CASE ~Structured
      BY <2>1, <2>2, <2>4 DEF Slice
    <2> QED
      BY <2>3, <2>4
  <1>7. Phases
    <2>1. Cardinality(chunks) = 0 /\ MaxFaults \in Nat
      BY <1>2, FS_EmptySet, ChunkerAssumption
    <2> QED
      BY <1>2, <2>1 DEF Phases
  <1>8. Windows
    <2>1. Cardinality(asked) = 0
      BY <1>2, FS_EmptySet
    <2>2. sem # "off" => Cardinality(asked) <= use.asks
      BY <1>3, <2>1 DEF Prepares
    <2>3. asked \subseteq 1..window - 1 /\ asked \cup DOMAIN answers = 1..window - 1
      BY <1>2, <1>4
    <2>4. base \in Seq(SegmentType) /\ delivered \in 0..Len(pieces) /\ window \in 1..Len(tree) + 1
      BY <1>2, <1>4
    <2>5. sem \in {"off", "windows"}
      BY <1>2
    <2> QED
      BY <1>2, <1>4, <2>2, <2>3, <2>4, <2>5 DEF Windows
  <1>9. Piles
    BY <1>2, <1>4 DEF Piles
  <1> QED
    BY <1>3, <1>5, <1>6, <1>7, <1>8, <1>9 DEF TextInv, Steps

\* The slice is finite.
LEMMA SliceFinite ==
  ASSUME IInv, Slice, delivered \in Nat
  PROVE  IsFiniteSet(chunks) /\ Cardinality(chunks) \in Nat
  <1>1. Len(tree) \in Nat /\ Chunks = 1..Len(tree)
    <2>1. tree \in Seq(ChunkType)
      BY DEF IInv, Typed
    <2> QED
      BY <2>1 DEF Chunks
  <1>2. chunks \subseteq 1..Len(tree) \/ chunks \subseteq 1..delivered
    BY <1>1 DEF Slice
  <1>3. IsFiniteSet(1..Len(tree)) /\ IsFiniteSet(1..delivered)
    BY <1>1, FS_Interval
  <1>4. IsFiniteSet(chunks)
    BY <1>2, <1>3, FS_Subset
  <1> QED
    BY <1>4, FS_CardinalityType

LEMMA TextStep ==
  ASSUME IInv, IInv', [Next]_vars, TextInv
  PROVE  TextInv'
  <1>1. Layout /\ Prepares /\ Slice /\ Phases /\ Windows /\ Piles /\ Placed
    BY DEF TextInv, Steps, Layout
  <1>2. Prepares'
    BY <1>1, PreparesStep
  <1>3. Layout'
    <2>1. use.concurrent \in Nat /\ 1 <= use.maxDepth
      BY <1>1 DEF Prepares
    <2> QED
      BY <1>1, <2>1, LayoutStep
  <1>4. /\ Piles' /\ pieces' \in Seq(PieceType) /\ pieces \in Seq(PieceType)
        /\ sem = "output" => Len(pieces) <= Len(pieces')
        /\ sem = "output" /\ sem' = "ok" => Len(pieces') = Len(pieces)
    BY <1>1, PilesStep DEF Piles
  <1>5. Windows'
    BY <1>1, <1>4, WindowsStep
  <1>6. delivered \in Nat /\ delivered' \in Nat
    <2>1. delivered \in 0..Len(pieces) /\ delivered' \in 0..Len(pieces')
      BY <1>1, <1>5 DEF Windows
    <2> QED
      BY <2>1
  <1>7. Slice'
    BY <1>1, <1>6, SliceStep
  <1>8. Phases'
    BY <1>1, <1>6, <1>7, SliceFinite, PhasesStep
  <1> QED
    BY <1>2, <1>3, <1>4, <1>5, <1>7, <1>8 DEF TextInv, Steps

\* The second inductive invariant: where the chunks are and which levels run; what
\* AddFile has done and with which chunks; which windows have been asked for and what
\* they have become; and that each level above the lowest groups the one below, whose
\* chunks find their parents in it.
THEOREM TextInvariance == Spec => [](IInv /\ TextInv)
  <1>1. Init => IInv /\ TextInv
    BY InitLemma, TextInit
  <1>2. (IInv /\ TextInv) /\ [Next]_vars => (IInv /\ TextInv)'
    BY NextLemma, TextStep
  <1> QED
    BY <1>1, <1>2, PTL DEF Spec

LEMMA Typing ==
  ASSUME IInv, TextInv
  PROVE  TypeOK
  <1>1. Typed /\ Usable /\ Inside /\ Shape /\ Placed /\ Nested /\ Prepares /\ Slice /\ Phases /\ Windows /\ Piles
    BY DEF TextInv, Layout, Steps, IInv, Typed
  <1>2. tree \in Seq(ChunkType) /\ Len(tree) \in Nat /\ Chunks = 1..Len(tree)
    <2>1. tree \in Seq(ChunkType)
      BY <1>1 DEF Typed
    <2> QED
      BY <2>1 DEF Chunks
  <1> DEFINE T == [lo : 0..Max(use.cuts), hi : 0..Max(use.cuts), parent : 0..Len(tree),
                   depth : 1..use.maxDepth, leaf : BOOLEAN,
                   status : {"pending", "processing", "completed", "failed"},
                   call : {"new", "calling", "done", "refused"}]
  <1>3. tree \in Seq(T)
    <2>1. use.cuts \in SUBSET Nat /\ IsFiniteSet(use.cuts) /\ use.cuts # {}
      BY <1>1 DEF Usable
    <2>2. PICK m \in Nat : m = Max(use.cuts)
      BY <2>1, MaxIsGreatest
    <2>3. ASSUME NEW c \in 1..Len(tree) PROVE tree[c] \in T
      <3>1. c \in Chunks
        BY <1>2
      <3>2. PICK t \in ChunkType : t = tree[c]
        BY <1>2
      <3>3. /\ 0 <= t.lo /\ t.lo <= t.hi /\ t.hi <= m
            /\ 1 <= t.depth /\ t.depth <= use.maxDepth
        BY <1>1, <2>2, <3>1, <3>2 DEF Placed
      <3>4. t.parent < c
        BY <1>1, <3>1, <3>2 DEF Shape, Descents
      <3>5. /\ t.lo \in Int /\ t.hi \in Int /\ t.parent \in Nat /\ t.depth \in Nat
            /\ t.leaf \in BOOLEAN /\ t.status \in StatusSet /\ t.call \in CallSet
        BY DEF ChunkType
      <3>6. t.lo \in 0..m /\ t.hi \in 0..m
        BY <3>3, <3>5
      <3>7. t.parent \in 0..Len(tree)
        BY <1>2, <3>4, <3>5
      <3>8. t.depth \in 1..use.maxDepth
        BY <1>1, <3>3, <3>5 DEF Prepares
      <3>9. t = [lo |-> t.lo, hi |-> t.hi, parent |-> t.parent, depth |-> t.depth,
                 leaf |-> t.leaf, status |-> t.status, call |-> t.call]
        BY DEF ChunkType
      <3>10. [lo |-> t.lo, hi |-> t.hi, parent |-> t.parent, depth |-> t.depth,
              leaf |-> t.leaf, status |-> t.status, call |-> t.call] \in T
        BY <2>2, <3>5, <3>6, <3>7, <3>8 DEF StatusSet, CallSet
      <3> QED
        BY <3>2, <3>9, <3>10
    <2> HIDE DEF T
    <2> QED
      BY <1>2, <2>3
  <1>4. /\ chunks \subseteq (IF Structured THEN Chunks ELSE 1..delivered) /\ DOMAIN local \subseteq Calling
        /\ \A c \in DOMAIN local : local[c] \subseteq Chunks
    <2>1. DOMAIN local # {} => Structured
      BY <1>1 DEF Inside
    <2> QED
      BY <1>1, <2>1 DEF Inside, Slice
  <1>5. {cancelled, graph, raced} \subseteq BOOLEAN
    BY <1>1 DEF Typed, Slice
  <1>6. outcome \in {"new", "running", "ok", "error"} /\ faults \in 0..MaxFaults
    BY <1>1 DEF Typed, Phases
  <1>7. /\ stored \in 0..Cardinality(chunks)
        /\ phase \in {"chunk", "extract", "save", "embed", "store", "ok", "error", "crashed"}
    BY <1>1 DEF Phases
  <1>8. /\ sem \in {"off", "windows", "segment", "acquire", "output", "ok", "error"}
        /\ window \in 1..Len(tree) + 1 /\ delivered \in 0..Len(pieces)
        /\ asked \subseteq 1..window - 1 /\ (Structured \/ Cardinality(asked) <= use.asks)
        /\ asked \cup DOMAIN answers = 1..window - 1 /\ asked \cap DOMAIN answers = {}
    BY <1>1 DEF Windows, Structured
  <1> DEFINE P == [first : Nat, last : Nat, depth : 1..use.levels, parent : 0..Len(pieces)]
  <1>9. pieces \in Seq(P)
    <2>1. pieces \in Seq(PieceType)
      BY <1>1 DEF Piles
    <2>2. ASSUME NEW i \in 1..Len(pieces) PROVE pieces[i] \in P
      <3>1. i \in DOMAIN pieces
        BY <2>1
      <3>2. PICK t \in PieceType : t = pieces[i]
        BY <2>1, <3>1
      <3>3. t.depth \in 1..use.levels /\ t.parent \in 0..Len(pieces)
        BY <1>1, <3>1, <3>2 DEF Piles
      <3>4. t.first \in Nat /\ t.last \in Nat
        BY DEF PieceType
      <3>5. t = [first |-> t.first, last |-> t.last, depth |-> t.depth, parent |-> t.parent]
        BY DEF PieceType
      <3>6. [first |-> t.first, last |-> t.last, depth |-> t.depth, parent |-> t.parent] \in P
        BY <3>3, <3>4
      <3> QED
        BY <3>2, <3>5, <3>6
    <2> HIDE DEF P
    <2> QED
      BY <2>1, <2>2
  <1>10. ASSUME NEW i \in DOMAIN frames
         PROVE  /\ \A c \in frames[i].first..frames[i].last : tree[c].depth = i
                /\ i > 1 => tree[frames[i].first].parent = frames[i - 1].next - 1
                /\ Cardinality(Calling \cap frames[i].first..frames[i].last) <= use.concurrent
    <2>1. i \in Levels /\ Row(i) = frames[i].first..frames[i].last
      BY DEF Levels, Row
    <2>2. /\ \A c \in Row(i) : tree[c].depth = i
          /\ Cardinality(Calling \cap Row(i)) <= use.concurrent
      BY <1>1, <2>1 DEF Nested
    <2>3. ASSUME i > 1 PROVE tree[frames[i].first].parent = frames[i - 1].next - 1
      <3>1. frames[i].first \in Row(i) /\ frames[i].first \in Chunks
        <4>1. frames[i].first \in Nat /\ frames[i].last \in Nat /\ \A c \in Row(i) : c \in Chunks
          BY <1>1, <2>1, RowFacts
        <4>2. frames[i].first <= frames[i].last
          BY <1>1, <2>1 DEF Shape, Ranges
        <4>3. frames[i].first \in Row(i)
          BY <2>1, <4>1, <4>2
        <4> QED
          BY <4>1, <4>3
      <3>2. i # 1
        BY <2>3
      <3> QED
        BY <1>1, <2>1, <3>1, <3>2 DEF Shape, Family, Parent
    <2> QED
      BY <2>1, <2>2, <2>3
  <1> HIDE DEF T, P
  <1>11. tree \in Seq(T) /\ pieces \in Seq(P)
    BY <1>3, <1>9
  <1> USE DEF T, P
  <1> QED
    BY <1>4, <1>5, <1>6, <1>7, <1>8, <1>10, <1>11 DEF TypeOK

\* Whatever texts and options: chunks, segments and pieces lie where they can, the
\* levels in progress are nested, each cut from a chunk of the one above, and never
\* more than MaxConcurrent callbacks of a level run at a time
\* (processCurrentLevel: "Limit concurrent goroutines").
THEOREM WellTyped == Spec => []TypeOK
  <1>1. IInv /\ TextInv => TypeOK
    BY Typing
  <1> QED
    BY <1>1, TextInvariance, PTL

\* A place that the overlap catches is in a leaf: in the last chunk that it is in.
LEMMA LeavesCover ==
  ASSUME IInv, TextInv, outcome = "ok", Caught
  PROVE  /\ Bytes({tree[c] : c \in {k \in Chunks : tree[k].leaf}}) = All
         /\ Bytes({tree[c] : c \in Below(0)}) = All
         /\ Bytes({tree[c] : c \in Chunks}) = All
  <1>1. Typed /\ Usable /\ Shape /\ Sound /\ Placed /\ Covered
    BY DEF TextInv, Layout, IInv, Typed
  <1>2. tree \in Seq(ChunkType) /\ Len(tree) \in Nat /\ Chunks = 1..Len(tree)
    <2>1. tree \in Seq(ChunkType)
      BY <1>1 DEF Typed
    <2> QED
      BY <2>1 DEF Chunks
  <1>3. \A C : \A b : b \in Bytes({tree[c] : c \in C}) <=> \E c \in C : b \in Extent(tree[c])
    BY DEF Bytes, Extent
  <1>4. ASSUME NEW c \in Chunks, NEW b \in Extent(tree[c]) PROVE b \in All
    <2>1. PICK lo, hi \in Int : lo = tree[c].lo /\ hi = tree[c].hi
      BY <1>2, ChunkFields
    <2>2. PICK m \in Nat : m = Max(use.cuts)
      <3>1. use.cuts \in SUBSET Nat /\ IsFiniteSet(use.cuts) /\ use.cuts # {}
        BY <1>1 DEF Usable
      <3> QED
        BY <3>1, MaxIsGreatest
    <2>3. 0 <= lo /\ hi <= m
      BY <1>1, <2>1, <2>2 DEF Placed
    <2>4. b \in lo + 1..hi
      BY <2>1 DEF Extent
    <2>5. b \in 1..m
      BY <2>3, <2>4
    <2> QED
      BY <2>2, <2>5 DEF All
  <1>5. \A b \in All : \E c \in Below(0) : b \in Extent(tree[c])
    <2>1. All \subseteq Bytes({tree[k] : k \in Below(0)})
      BY <1>1 DEF Covered
    <2> QED
      BY <1>3, <2>1
  <1>6. Below(0) \subseteq Chunks
    BY DEF Below
  <1>7. ASSUME NEW b \in All PROVE \E c \in Chunks : tree[c].leaf /\ b \in Extent(tree[c])
    <2> DEFINE S == {c \in Chunks : b \in Extent(tree[c])}
    <2>1. S # {}
      BY <1>5, <1>6
    <2>2. S \in SUBSET Nat /\ IsFiniteSet(S)
      <3>1. IsFiniteSet(1..Len(tree)) /\ 1..Len(tree) \subseteq Nat
        BY <1>2, FS_Interval
      <3>2. S \subseteq 1..Len(tree)
        BY <1>2
      <3> QED
        BY <3>1, <3>2, FS_Subset
    <2> HIDE DEF S
    <2>3. PICK c \in S : \A s \in S : s <= c
      BY <2>1, <2>2, MaxIsGreatest
    <2>4. c \in Chunks /\ b \in Extent(tree[c]) /\ c \in Nat
      BY <2>2, <2>3 DEF S
    <2>5. tree[c].leaf
      <3> SUFFICES ASSUME ~tree[c].leaf PROVE FALSE
        OBVIOUS
      <3>1. ~Failing /\ Clean /\ Levels = {}
        <4>1. frames = <<>>
          BY <1>1 DEF Shape, Stages
        <4> QED
          BY <4>1 DEF Failing, Raising, Clean, Levels
      <3>2. Statuses /\ tree[c].status = "completed"
        BY <1>1, <2>4, <3>1 DEF Sound, Well
      <3>3. Below(c) # {}
        BY <2>4, <3>2 DEF Statuses, Below
      <3>4. Extent(tree[c]) \subseteq Bytes({tree[k] : k \in Below(c)})
        BY <1>1, <2>4, <3>3 DEF Covered
      <3>5. PICK k \in Below(c) : b \in Extent(tree[k])
        BY <1>3, <2>4, <3>4
      <3>6. k \in Chunks /\ tree[k].parent = c
        BY <3>5 DEF Below
      <3>7. c < k
        BY <1>1, <3>6 DEF Shape, Descents
      <3>8. k \in S
        BY <3>5, <3>6 DEF S
      <3>9. k <= c /\ k \in Nat
        BY <2>2, <2>3, <3>8
      <3> QED
        BY <2>4, <3>7, <3>9
    <2> QED
      BY <2>4, <2>5
  <1> DEFINE L == {k \in Chunks : tree[k].leaf}
  <1>8. \A b : b \in Bytes({tree[c] : c \in L}) <=> b \in All
    <2>1. \A b : b \in All => \E c \in L : b \in Extent(tree[c])
      BY <1>7
    <2>2. \A b : (\E c \in L : b \in Extent(tree[c])) => b \in All
      BY <1>4
    <2> QED
      BY <1>3, <2>1, <2>2
  <1>9. \A b : b \in Bytes({tree[c] : c \in Below(0)}) <=> b \in All
    <2>1. \A b : (\E c \in Below(0) : b \in Extent(tree[c])) => b \in All
      BY <1>4, <1>6
    <2> QED
      BY <1>3, <1>5, <2>1
  <1>10. \A b : b \in Bytes({tree[c] : c \in Chunks}) <=> b \in All
    <2>1. \A b : (\E c \in Chunks : b \in Extent(tree[c])) => b \in All
      BY <1>4
    <2>2. \A b : b \in All => \E c \in Chunks : b \in Extent(tree[c])
      BY <1>7
    <2> QED
      BY <1>3, <2>1, <2>2
  <1>11. Bytes({tree[c] : c \in L}) = All
    BY <1>8
  <1>12. Bytes({tree[c] : c \in Below(0)}) = All
    BY <1>9
  <1>13. Bytes({tree[c] : c \in Chunks}) = All
    BY <1>10
  <1> QED
    BY <1>11, <1>12, <1>13

\* The segments are all the text when those of each window are all of it.
LEMMA SegmentsCover ==
  ASSUME IInv, TextInv, outcome = "ok", Caught, Complete, base = Flat,
         DOMAIN answers = Chunks
  PROVE  Bytes(ToSet(base)) = All
  <1>1. Windows /\ Placed
    BY DEF TextInv, Steps, Layout
  <1>2. tree \in Seq(ChunkType) /\ Chunks = 1..Len(tree)
    <2>1. tree \in Seq(ChunkType)
      BY DEF IInv, Typed
    <2> QED
      BY <2>1 DEF Chunks
  <1>3. Len(tree) \in Nat \ {0}
    <2>1. tree # <<>>
      BY <1>1 DEF Placed
    <2> QED
      BY <1>2, <2>1
  <1>4. \A w \in 1..Len(tree) : Answered(answers[w])
    BY <1>1, <1>2 DEF Windows
  <1>5. \A x : x \in ToSet(Flat) <=>
          \E w \in 1..Len(tree) : \E k \in DOMAIN answers[w].segments : x = Segment(answers[w], k)
    BY <1>3, <1>4, FlatFacts
  <1>6. \A b : b \in Bytes(ToSet(base)) <=> \E x \in ToSet(Flat) : b \in x.lo + 1..x.hi
    BY DEF Bytes
  <1>7. \A w, k : /\ Segment(answers[w], k).lo = answers[w].segments[k][1]
                  /\ Segment(answers[w], k).hi = answers[w].segments[k][2]
    BY DEF Segment
  <1>8. \A b : b \in Bytes(ToSet(base)) <=>
          \E w \in Chunks : \E k \in DOMAIN answers[w].segments :
            b \in answers[w].segments[k][1] + 1..answers[w].segments[k][2]
    <2>1. ASSUME NEW b, b \in Bytes(ToSet(base))
          PROVE  \E w \in Chunks : \E k \in DOMAIN answers[w].segments :
                   b \in answers[w].segments[k][1] + 1..answers[w].segments[k][2]
      <3>1. PICK x \in ToSet(Flat) : b \in x.lo + 1..x.hi
        BY <1>6, <2>1
      <3>2. PICK w \in 1..Len(tree) : \E k \in DOMAIN answers[w].segments : x = Segment(answers[w], k)
        BY <1>5, <3>1
      <3>3. PICK k \in DOMAIN answers[w].segments : x = Segment(answers[w], k)
        BY <3>2
      <3>4. b \in answers[w].segments[k][1] + 1..answers[w].segments[k][2]
        BY <1>7, <3>1, <3>3
      <3> QED
        BY <1>2, <3>2, <3>3, <3>4
    <2>2. ASSUME NEW b, NEW w \in Chunks, NEW k \in DOMAIN answers[w].segments,
                 b \in answers[w].segments[k][1] + 1..answers[w].segments[k][2]
          PROVE  b \in Bytes(ToSet(base))
      <3>1. PICK x : x = Segment(answers[w], k)
        OBVIOUS
      <3>2. x \in ToSet(Flat)
        BY <1>2, <1>5, <3>1
      <3>3. b \in x.lo + 1..x.hi
        BY <1>7, <2>2, <3>1
      <3> QED
        BY <1>6, <3>2, <3>3
    <2> QED
      BY <2>1, <2>2
  <1>9. ASSUME NEW w \in Chunks, NEW b
        PROVE  (\E k \in DOMAIN answers[w].segments :
                  b \in answers[w].segments[k][1] + 1..answers[w].segments[k][2])
               <=> b \in Extent(tree[w])
    <2>1. PICK s : s = answers[w].segments
      OBVIOUS
    <2>2. b \in UNION {p[1] + 1..p[2] : p \in ToSet(s)} <=>
            \E k \in DOMAIN s : b \in s[k][1] + 1..s[k][2]
      BY DEF ToSet
    <2>3. Bytes({tree[w]}) = UNION {p[1] + 1..p[2] : p \in ToSet(s)}
      BY <2>1 DEF Complete
    <2>4. b \in Bytes({tree[w]}) <=> b \in Extent(tree[w])
      BY DEF Bytes, Extent
    <2> QED
      BY <2>1, <2>2, <2>3, <2>4
  <1>10. \A b : b \in Bytes({tree[c] : c \in Chunks}) <=> \E c \in Chunks : b \in Extent(tree[c])
    BY DEF Bytes, Extent
  <1>11. \A b : b \in Bytes(ToSet(base)) <=> b \in Bytes({tree[c] : c \in Chunks})
    BY <1>8, <1>9, <1>10
  <1>12. Bytes({tree[c] : c \in Chunks}) = All
    BY LeavesCover
  <1> QED
    BY <1>11, <1>12

LEMMA Keeping ==
  ASSUME IInv, TextInv
  PROVE  TextKept
  <1> SUFFICES ASSUME phase = "ok", ~raced, Caught, Complete
               PROVE  IF Structured
                      THEN /\ stored = Len(tree)
                           /\ Bytes({tree[c] : c \in {k \in chunks : tree[k].leaf}}) = All
                           /\ Bytes({tree[c] : c \in Roots}) = All
                      ELSE stored = Len(pieces) /\ Bytes(ToSet(base)) = All
    BY DEF TextKept
  <1>1. Prepares /\ Slice /\ Phases /\ Windows /\ Typed
    BY DEF TextInv, Steps, IInv
  <1>2. ByAddFile /\ Result = "ok" /\ stored = Cardinality(chunks)
    BY <1>1 DEF Phases
  <1>3. tree \in Seq(ChunkType) /\ Len(tree) \in Nat /\ Chunks = 1..Len(tree)
    <2>1. tree \in Seq(ChunkType)
      BY <1>1 DEF Typed
    <2> QED
      BY <2>1 DEF Chunks
  <1>4. CASE Structured
    <2>1. outcome = "ok"
      BY <1>2, <1>4 DEF Result
    <2>2. Done = Chunks
      BY <2>1, Finished
    <2>3. chunks = Chunks
      BY <1>1, <1>2, <1>4, <2>2 DEF Slice, Done
    <2>4. stored = Len(tree)
      <3>1. PICK n \in Nat : n = Len(tree)
        BY <1>3
      <3>2. Cardinality(1..n) = n
        BY FS_Interval
      <3> QED
        BY <1>2, <1>3, <2>3, <3>1, <3>2
    <2>5. Roots = Below(0)
      BY <1>4, <2>3 DEF Roots, Below
    <2> QED
      BY <1>4, <2>1, <2>3, <2>4, <2>5, LeavesCover
  <1>5. CASE ~Structured
    <2>1. sem = "ok"
      BY <1>2, <1>5 DEF Result
    <2>2. outcome = "ok" /\ window = Len(tree) + 1 /\ asked = {} /\ base = Flat /\ delivered = Len(pieces)
      BY <1>1, <2>1 DEF Windows
    <2>3. chunks = 1..Len(pieces) /\ Len(pieces) \in Nat
      <3>1. chunks = 1..delivered
        BY <1>1, <1>2, <1>5 DEF Slice
      <3>2. pieces \in Seq(PieceType)
        BY DEF TextInv, Piles
      <3> QED
        BY <2>2, <3>1, <3>2
    <2>4. stored = Len(pieces)
      <3>1. PICK n \in Nat : n = Len(pieces)
        BY <2>3
      <3>2. Cardinality(1..n) = n
        BY FS_Interval
      <3> QED
        BY <1>2, <2>3, <3>1, <3>2
    <2>5. DOMAIN answers = Chunks
      <3>1. DOMAIN answers = 1..window - 1
        BY <1>1, <2>2 DEF Windows
      <3>2. window - 1 = Len(tree)
        BY <1>3, <2>2
      <3> QED
        BY <1>3, <3>1, <3>2
    <2>6. Bytes(ToSet(base)) = All
      BY <2>2, <2>5, SegmentsCover
    <2> QED
      BY <1>5, <2>4, <2>6
  <1> QED
    BY <1>4, <1>5

\* When AddFile succeeds it has stored the whole text, whatever the text and the
\* options: each byte is in a leaf and in a chunk that entities were extracted from, or
\* in a segment, if no append overwrote another, no character is wider than the overlap
\* catches and the answers of the language model leave nothing out ("This ensures we
\* don't lose any content", semantic.go:232).
THEOREM WholeTextKept == Spec => []TextKept
  <1>1. IInv /\ TextInv => TextKept
    BY Keeping
  <1> QED
    BY <1>1, TextInvariance, PTL

\* The chunks of a level are all segments of the lowest one.
LEMMA LevelSpans ==
  ASSUME base \in Seq(SegmentType), pieces \in Seq(PieceType), NEW d, Spans(d)
  PROVE  UNION {pieces[i].first..pieces[i].last : i \in LevelOf(d)} = DOMAIN base
  <1> DEFINE U == UNION {pieces[i].first..pieces[i].last : i \in LevelOf(d)}
  <1>1. \A s : s \in U <=> \E i \in LevelOf(d) : s \in pieces[i].first..pieces[i].last
    OBVIOUS
  <1> HIDE DEF U
  <1>2. DOMAIN base = 1..Len(base) /\ Len(base) \in Nat
    OBVIOUS
  <1>3. ASSUME NEW i \in LevelOf(d)
        PROVE  \A s \in Nat : s \in pieces[i].first..pieces[i].last <=>
                                pieces[i].first <= s /\ s <= pieces[i].last
    <2>1. i \in DOMAIN pieces
      BY DEF LevelOf
    <2>2. pieces[i].first \in Nat /\ pieces[i].last \in Nat
      BY <2>1, PieceFields
    <2> QED
      BY <2>2
  <1>4. ASSUME NEW s \in U PROVE s \in DOMAIN base
    <2>1. PICK i \in LevelOf(d) : s \in pieces[i].first..pieces[i].last
      BY <1>1
    <2>2. i \in DOMAIN pieces
      BY DEF LevelOf
    <2>3. PICK f, l \in Nat : f = pieces[i].first /\ l = pieces[i].last
      BY <2>2, PieceFields
    <2>4. 1 <= f /\ l <= Len(base)
      BY <2>3 DEF Spans
    <2> QED
      BY <1>2, <2>1, <2>3, <2>4
  <1>5. ASSUME NEW s \in DOMAIN base PROVE s \in U
    <2>1. PICK i \in LevelOf(d) : pieces[i].first <= s /\ s <= pieces[i].last
      BY DEF Spans
    <2>2. s \in Nat
      BY <1>2
    <2> QED
      BY <1>1, <1>3, <2>1, <2>2
  <1>6. U = DOMAIN base
    BY <1>4, <1>5
  <1> QED
    BY <1>6 DEF U

\* The top level is the one that was made last.
LEMMA TopIsLast ==
  ASSUME Piles, pieces # <<>>
  PROVE  TopLevel = Depth
  <1> DEFINE D == {pieces[i].depth : i \in DOMAIN pieces}
  <1>1. pieces \in Seq(PieceType) /\ Len(pieces) \in LevelOf(Depth) /\ Depth \in Nat
        /\ \A i \in DOMAIN pieces : Depth <= pieces[i].depth
    BY DepthFacts DEF Piles
  <1>2. D \in SUBSET Nat /\ Depth \in D
    BY <1>1, PieceFields DEF LevelOf
  <1>3. \A x \in D : Depth <= x
    BY <1>1
  <1> HIDE DEF D
  <1>4. PICK m : m = Min(D)
    OBVIOUS
  <1>5. m \in D /\ \A x \in D : m <= x
    BY <1>2, <1>4, MinIsLeast
  <1>6. m = Depth
    <2>1. m \in Nat /\ m <= Depth /\ Depth <= m
      BY <1>2, <1>3, <1>5
    <2> QED
      BY <1>1, <2>1
  <1> QED
    BY <1>4, <1>6 DEF TopLevel, D

LEMMA Levelled ==
  ASSUME IInv, TextInv
  PROVE  Hierarchy
  <1> SUFFICES ASSUME sem = "ok"
               PROVE
    /\ \A d \in TopLevel..use.levels :
         /\ UNION {pieces[i].first..pieces[i].last : i \in LevelOf(d)} = DOMAIN base
         /\ \A i, j \in LevelOf(d) : i < j => pieces[i].last < pieces[j].first
    /\ \A d \in TopLevel..use.levels - 1 : \A c \in LevelOf(d + 1) :
         /\ pieces[c].parent \in LevelOf(d)
         /\ Plain(d) => Holds(pieces[c].parent, c)
    /\ phase = "ok" /\ TopLevel < use.levels =>
         UNION {pieces[c].first..pieces[c].last : c \in Roots} = DOMAIN base
    BY DEF Hierarchy
  <1>1. Prepares /\ Slice /\ Phases /\ Windows /\ Piles
    BY DEF TextInv, Steps
  <1>2. /\ pieces \in Seq(PieceType) /\ pieces # <<>>
        /\ \A d \in Depth..use.levels : Spans(d)
        /\ \A d \in Depth..use.levels - 1 : Adopted(d)
        /\ \A d \in Depth + 1..use.levels - 1 : \A c \in LevelOf(d + 1) : pieces[c].parent # 0
        /\ \A c \in LevelOf(Depth) : pieces[c].parent = 0
        /\ \A c \in LevelOf(Depth + 1) : pieces[c].parent # 0
    BY <1>1 DEF Piles
  <1>3. base \in Seq(SegmentType)
    BY <1>1 DEF Windows
  <1>4. PICK t \in Nat \ {0} : t = Depth /\ t = TopLevel
    <2>1. Depth \in 1..use.levels /\ Depth \in Nat /\ TopLevel = Depth
      BY <1>1, <1>2, DepthFacts, TopIsLast
    <2>2. Depth \in Nat \ {0}
      BY <2>1
    <2> QED
      BY <2>1, <2>2
  <1>5. t \in 1..use.levels /\ use.levels \in Nat
    <2>1. use.levels \in Nat
      BY <1>1 DEF Prepares
    <2> QED
      BY <1>1, <1>2, <1>4, <2>1, DepthFacts
  <1>6. ASSUME NEW d \in t..use.levels
        PROVE  /\ UNION {pieces[i].first..pieces[i].last : i \in LevelOf(d)} = DOMAIN base
               /\ \A i, j \in LevelOf(d) : i < j => pieces[i].last < pieces[j].first
    <2>1. Spans(d)
      BY <1>2, <1>4
    <2>2. \A i, j \in LevelOf(d) : i < j => pieces[i].last < pieces[j].first
      BY <2>1 DEF Spans
    <2> QED
      BY <1>2, <1>3, <2>1, <2>2, LevelSpans
  <1>7. ASSUME NEW d \in t..use.levels - 1, NEW c \in LevelOf(d + 1)
        PROVE  /\ pieces[c].parent # 0
               /\ pieces[c].parent \in LevelOf(d)
               /\ Plain(d) => Holds(pieces[c].parent, c)
    <2>1. pieces[c].parent # 0
      <3>1. CASE d = t
        BY <1>2, <1>4, <3>1
      <3>2. CASE d # t
        <4>1. d \in t + 1..use.levels - 1
          BY <1>5, <3>2
        <4> QED
          BY <1>2, <1>4, <4>1
      <3> QED
        BY <3>1, <3>2
    <2>2. Adopted(d)
      BY <1>2, <1>4
    <2> QED
      BY <2>1, <2>2 DEF Adopted
  <1>8. ASSUME phase = "ok", t < use.levels
        PROVE  UNION {pieces[c].first..pieces[c].last : c \in Roots} = DOMAIN base
    <2>1. ~Structured /\ ByAddFile
      BY <1>1, <1>8 DEF Structured, Phases
    <2>2. chunks = DOMAIN pieces
      <3>1. chunks = 1..delivered /\ delivered = Len(pieces)
        BY <1>1, <2>1 DEF Slice, Windows
      <3> QED
        BY <1>2, <3>1
    <2>3. ASSUME NEW c \in DOMAIN pieces PROVE c \in Roots <=> c \in LevelOf(t)
      <3>1. pieces[c].depth \in 1..use.levels /\ t <= pieces[c].depth
        BY <1>1, <1>2, <1>4, DepthFacts DEF Piles
      <3>2. CASE pieces[c].depth = t
        <4>1. c \in LevelOf(t)
          BY <3>2 DEF LevelOf
        <4>2. pieces[c].parent = 0 /\ pieces[c].depth < use.levels
          BY <1>2, <1>4, <1>8, <3>2, <4>1
        <4>3. c \in Roots
          BY <2>1, <2>2, <4>2 DEF Roots
        <4> QED
          BY <4>1, <4>3
      <3>3. CASE pieces[c].depth # t
        <4>1. PICK d \in Nat : d = pieces[c].depth - 1 /\ pieces[c].depth = d + 1
          <5>1. pieces[c].depth - 1 \in Nat /\ pieces[c].depth = pieces[c].depth - 1 + 1
            BY <1>5, <3>1
          <5> QED
            BY <5>1
        <4>2. d \in t..use.levels - 1
          BY <1>5, <3>1, <3>3, <4>1
        <4>3. c \in LevelOf(d + 1)
          BY <4>1 DEF LevelOf
        <4>4. pieces[c].parent # 0
          BY <1>7, <4>2, <4>3
        <4>5. c \notin Roots /\ c \notin LevelOf(t)
          BY <2>1, <3>3, <4>4 DEF Roots, LevelOf
        <4> QED
          BY <4>5
      <3> QED
        BY <3>2, <3>3
    <2>4. Roots = LevelOf(t)
      <3>1. Roots \subseteq DOMAIN pieces /\ LevelOf(t) \subseteq DOMAIN pieces
        BY <2>2 DEF Roots, LevelOf
      <3> QED
        BY <2>3, <3>1
    <2>5. t \in t..use.levels
      BY <1>5
    <2> QED
      BY <1>6, <2>4, <2>5
  <1>9. TopLevel = t
    BY <1>4
  <1> QED
    BY <1>6, <1>7, <1>8, <1>9

\* The levels that the semantic chunker has handed out when it succeeds, for all
\* windows, answers, numbers of levels and sizes: each has every segment once and in
\* order, and every chunk below the top has a parent in the level above, the one its
\* text went into where texts can tell (buildHierarchyAndOutput, createNextLevelChunks,
\* updateChildrenParents); with more than one level AddFile extracts from all of them.
THEOREM HierarchyHolds == Spec => []Hierarchy
  <1>1. IInv /\ TextInv => Hierarchy
    BY Levelled
  <1> QED
    BY <1>1, TextInvariance, PTL
=============================================================================
