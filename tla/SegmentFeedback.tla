---------------------------- MODULE SegmentFeedback ----------------------------
(***************************************************************************)
(* What graphrag keeps about a segment's use: votes (graphrag/vote.go),    *)
(* hits (graphrag/hit.go) and its score (graphrag/score.go), with a Store  *)
(* configured.  Votes and hits are kept alike: a list in the Store, a      *)
(* cached count per kind of entry beside it (one kind for hits, positive   *)
(* and negative for votes), and a copy of the counts in the metadata of    *)
(* the segment in the vector database.  A score has two keys in the Store  *)
(* and a copy in the vector database.                                      *)
(*                                                                         *)
(* Nothing holds a lock over two calls of a backend: each call is a step.  *)
(* UpdateVotes runs through its steps; the removals and UpdateScores run   *)
(* one goroutine for the Store and one for the vector database and wait    *)
(* for both.  Any call may fail; the code goes on as it does for that call.*)
(*                                                                         *)
(* One segment of one document is modelled: operations on several segments *)
(* run the same steps segment by segment and share no data.  No operation  *)
(* reads the order of the list: a list is how often each vote is in it.    *)
(***************************************************************************)
EXTENDS Naturals, Sequences, FiniteSets

CONSTANTS Clients,    \* concurrent callers
          Votes,      \* votes (or hits) that may be given, each with an id
          Kinds,      \* the sequence of kinds counted
          KindOf,     \* the kind of each vote
          MaxOps,     \* bound: operations begun
          MaxFaults,  \* bound: calls that fail
          NoScore

ASSUME FeedbackAssumption ==
  /\ IsFiniteSet(Votes) /\ Kinds \in Seq(STRING) /\ Kinds # <<>>
  /\ KindOf \in [Votes -> {Kinds[k] : k \in DOMAIN Kinds}]
  /\ MaxOps \in Nat /\ MaxFaults \in Nat /\ NoScore \notin Clients

VARIABLES
  list,       \* Store: the list of votes, as how often each is in it
  cached,     \* Store: the count keys; an absent one reads as 0
  score, dims,\* Store: score and score_dimensions, by who wrote them
  vector,     \* vector database: the counts in the metadata
  rated,      \* vector database: the score in the metadata
  op, given,  \* the operation of each client, and its votes
  spc, vpc,   \* where its Store and its vector goroutine stand
  todo,       \* votes to push, or kept ones to push back
  tally,      \* counts its Store goroutine has computed
  copy,       \* counts its vector goroutine is to write
  next,       \* the count it sets next
  ops, faults,
  \* History, read by no action:
  cut,        \* votes given to a removal, or cleared
  exposed,    \* votes pushed or read while a removal held a snapshot, or whose
              \* push failed
  doubled,    \* votes kept by a removal that did not get the list deleted
  pushed,     \* votes that were put in the list by their UpdateVotes
  alone,      \* the operation has run with no other and no failed call
  last        \* the last operation that ended, if nothing overlapped it

storeVars == <<list, cached, score, dims>>
vectorVars == <<vector, rated>>
goVars == <<op, given, spc, vpc, todo, tally, copy, next>>
bounds == <<ops, faults>>
history == <<cut, exposed, doubled, pushed, alone, last>>
vars == <<storeVars, vectorVars, goVars, bounds, history>>

KindSet == {Kinds[k] : k \in DOMAIN Kinds}
Zero == [k \in KindSet |-> 0]

\* A list without votes, one with each vote of a set, the votes of a list.
Nothing == [v \in Votes |-> 0]
Each(vs) == [v \in Votes |-> IF v \in vs THEN 1 ELSE 0]
Listed(l) == {v \in Votes : l[v] # 0}

\* calculateVoteCountsFromList and ArrayLen, when the list can be read.
Entries(l, k) == UNION {{v} \X (1..l[v]) : v \in {w \in Votes : KindOf[w] = k}}
CountOf(l) == [k \in KindSet |-> Cardinality(Entries(l, k))]

NoOp == [op |-> "none", given |-> {}, counted |-> FALSE]

Init ==
  /\ list = Nothing /\ cached = Zero /\ score = NoScore /\ dims = NoScore
  /\ vector = Zero /\ rated = NoScore
  /\ op = [c \in Clients |-> "none"] /\ given = [c \in Clients |-> {}]
  /\ spc = [c \in Clients |-> "end"] /\ vpc = [c \in Clients |-> "end"]
  /\ todo = [c \in Clients |-> Nothing]
  /\ tally = [c \in Clients |-> Zero] /\ copy = [c \in Clients |-> Zero]
  /\ next = [c \in Clients |-> 1]
  /\ ops = 0 /\ faults = 0
  /\ cut = {} /\ exposed = {} /\ doubled = {} /\ pushed = {}
  /\ alone = [c \in Clients |-> FALSE] /\ last = NoOp

Idle == \A c \in Clients : op[c] = "none"

\* A call of client c fails, or not.
Works == UNCHANGED <<faults, alone>>
Fails(c) ==
  /\ faults < MaxFaults /\ faults' = faults + 1
  /\ alone' = [alone EXCEPT ![c] = FALSE]

\* A snapshot of the list has been read and not yet pushed back.
Snapshots == {c \in Clients : op[c] = "remove" /\ spc[c] \in {"del", "push"}}

-----------------------------------------------------------------------------
(* The beginning and the end of an operation.                              *)

Begin(c, kind, vs, at, vat) ==
  /\ op[c] = "none" /\ ops < MaxOps
  /\ op' = [op EXCEPT ![c] = kind] /\ given' = [given EXCEPT ![c] = vs]
  /\ spc' = [spc EXCEPT ![c] = at] /\ vpc' = [vpc EXCEPT ![c] = vat]
  /\ next' = [next EXCEPT ![c] = 1]
  /\ ops' = ops + 1 /\ UNCHANGED faults
  /\ alone' = [d \in Clients |-> IF d = c THEN Idle ELSE FALSE]
  /\ last' = NoOp
  /\ UNCHANGED <<storeVars, vectorVars, tally, copy, exposed, doubled, pushed>>

\* UpdateVotes or UpdateHits; the ids of votes given are new.
Update(c, vs) ==
  /\ \A v \in vs : v \notin pushed /\ \A d \in Clients : op[d] = "update" => v \notin given[d]
  /\ Begin(c, "update", vs, "push", "end")
  /\ todo' = [todo EXCEPT ![c] = Each(vs)]
  /\ UNCHANGED cut

\* RemoveVotes or RemoveHits, by ids.
Remove(c, vs) ==
  /\ Begin(c, "remove", vs, "read", "count")
  /\ todo' = [todo EXCEPT ![c] = Nothing] /\ cut' = cut \cup vs

\* RemoveVotesBySegmentID or RemoveHitsBySegmentID.
Clear(c) ==
  /\ Begin(c, "clear", {}, "read", "write")
  /\ todo' = [todo EXCEPT ![c] = Nothing] /\ UNCHANGED cut

UpdateScores(c) ==
  /\ Begin(c, "score", {}, "score", "write")
  /\ UNCHANGED <<todo, cut>>

\* Mutation: the operation does not wait for its vector goroutine.
Return_early(c) ==
  /\ op[c] # "none" /\ spc[c] = "end"
  /\ op' = [op EXCEPT ![c] = "none"] /\ given' = [given EXCEPT ![c] = {}]
  /\ last' = NoOp
  /\ UNCHANGED <<storeVars, vectorVars, spc, vpc, todo, tally, copy, next, bounds,
                 cut, exposed, doubled, pushed, alone>>

\* Both goroutines have ended (wg.Wait): the operation returns.
Return(c) ==
  /\ op[c] # "none" /\ spc[c] = "end" /\ vpc[c] = "end"
  /\ op' = [op EXCEPT ![c] = "none"] /\ given' = [given EXCEPT ![c] = {}]
  /\ todo' = [todo EXCEPT ![c] = Nothing]
  /\ tally' = [tally EXCEPT ![c] = Zero] /\ copy' = [copy EXCEPT ![c] = Zero]
  /\ next' = [next EXCEPT ![c] = 1]
  /\ alone' = [alone EXCEPT ![c] = FALSE]
  /\ last' = IF alone[c] THEN [op |-> op[c], given |-> given[c], counted |-> next[c] # 1] ELSE NoOp
  /\ UNCHANGED <<storeVars, vectorVars, spc, vpc, bounds, cut, exposed, doubled, pushed>>

At(c, kinds, pc) == op[c] \in kinds /\ spc[c] = pc
SGoto(c, pc) == spc' = [spc EXCEPT ![c] = pc]
VGoto(c, pc) == vpc' = [vpc EXCEPT ![c] = pc]

-----------------------------------------------------------------------------
(* The Store goroutine.                                                    *)

\* UpdateVotes pushes its votes one by one; one that fails is left out.
PushVote(c) ==
  /\ At(c, {"update"}, "push")
  /\ \E v \in Listed(todo[c]) :
       /\ todo' = [todo EXCEPT ![c][v] = 0]
       /\ \/ /\ Works /\ list' = [list EXCEPT ![v] = @ + 1] /\ pushed' = pushed \cup {v}
             /\ exposed' = IF Snapshots = {} THEN exposed ELSE exposed \cup {v}
          \/ /\ Fails(c) /\ UNCHANGED <<list, pushed>> /\ exposed' = exposed \cup {v}
  /\ UNCHANGED <<cached, score, dims, vectorVars, op, given, spc, vpc, tally, copy, next,
                 ops, cut, doubled, last>>

\* Mutation: the new votes are added to the cached counts.
Count_add(c) ==
  /\ (At(c, {"update"}, "push") /\ todo[c] = Nothing) \/ At(c, {"remove"}, "count")
  /\ tally' = [tally EXCEPT ![c] = [k \in KindSet |->
       IF op[c] = "update" THEN cached[k] + Cardinality({v \in given[c] : KindOf[v] = k})
                           ELSE CountOf(list)[k]]]
  /\ Works /\ SGoto(c, "set")
  /\ UNCHANGED <<storeVars, vectorVars, op, given, vpc, todo, copy, next, ops,
                 cut, exposed, doubled, pushed, last>>

\* Having pushed, count the list; one that cannot be read counts as empty.
Count(c) ==
  /\ (At(c, {"update"}, "push") /\ todo[c] = Nothing) \/ At(c, {"remove"}, "count")
  /\ \/ Works /\ tally' = [tally EXCEPT ![c] = CountOf(list)]
     \/ Fails(c) /\ tally' = [tally EXCEPT ![c] = Zero]
  /\ SGoto(c, "set")
  /\ UNCHANGED <<storeVars, vectorVars, op, given, vpc, todo, copy, next, ops,
                 cut, exposed, doubled, pushed, last>>

\* Set (or, after a removal, delete when zero) the count keys one by one; a
\* failure is logged.  UpdateVotes then writes these counts to the vector.
SetCount(c) ==
  /\ At(c, {"update", "remove"}, "set")
  /\ LET k == Kinds[next[c]] IN
     \/ Works /\ cached' = [cached EXCEPT ![k] = tally[c][k]]
     \/ Fails(c) /\ UNCHANGED cached
  /\ next' = [next EXCEPT ![c] = @ + 1]
  /\ IF next[c] < Len(Kinds)
     THEN UNCHANGED <<spc, vpc, copy>>
     ELSE /\ SGoto(c, "end")
          /\ IF op[c] = "update"
             THEN VGoto(c, "write") /\ copy' = [copy EXCEPT ![c] = tally[c]]
             ELSE UNCHANGED <<vpc, copy>>
  /\ UNCHANGED <<list, score, dims, vectorVars, op, given, todo, tally, ops,
                 cut, exposed, doubled, pushed, last>>

\* RemoveVotes reads the list and sorts out what it keeps; the goroutine ends
\* when the read fails or none of its votes is there.
ReadList(c) ==
  /\ At(c, {"remove"}, "read")
  /\ \/ /\ Works /\ given[c] \cap Listed(list) # {}
        /\ todo' = [todo EXCEPT ![c] = [v \in Votes |-> IF v \in given[c] THEN 0 ELSE list[v]]]
        /\ SGoto(c, "del")
        /\ exposed' = IF Snapshots = {} THEN exposed
                      ELSE exposed \cup Listed(list) \cup UNION {Listed(todo[d]) : d \in Snapshots}
     \/ /\ (Works /\ given[c] \cap Listed(list) = {}) \/ Fails(c)
        /\ SGoto(c, "end") /\ UNCHANGED <<todo, exposed>>
  /\ UNCHANGED <<storeVars, vectorVars, op, given, vpc, tally, copy, next, ops,
                 cut, doubled, pushed, last>>

\* Mutation: what is kept is pushed behind the old list.
DeleteList_keep(c) ==
  /\ At(c, {"remove"}, "del") /\ SGoto(c, "push")
  /\ UNCHANGED <<storeVars, vectorVars, op, given, vpc, todo, tally, copy, next,
                 bounds, history>>

\* Votes that have come since the snapshot go with the list.  A failure is
\* ignored, and what is kept then pushed behind the list that is still there.
DeleteList(c) ==
  /\ At(c, {"remove"}, "del") /\ SGoto(c, "push")
  /\ \/ Works /\ list' = Nothing /\ UNCHANGED doubled
     \/ Fails(c) /\ UNCHANGED list /\ doubled' = doubled \cup Listed(todo[c])
  /\ UNCHANGED <<cached, score, dims, vectorVars, op, given, vpc, todo, tally, copy, next,
                 ops, cut, exposed, pushed, last>>

\* One Push of all that is kept; when it fails they are lost.
PushBack(c) ==
  /\ At(c, {"remove"}, "push")
  /\ \/ /\ Works /\ list' = [v \in Votes |-> list[v] + todo[c][v]]
        /\ SGoto(c, "count") /\ UNCHANGED exposed
     \/ /\ todo[c] # Nothing /\ Fails(c) /\ UNCHANGED list /\ SGoto(c, "end")
        /\ exposed' = exposed \cup Listed(todo[c])
  /\ todo' = [todo EXCEPT ![c] = Nothing]
  /\ UNCHANGED <<cached, score, dims, vectorVars, op, given, vpc, tally, copy, next,
                 ops, cut, doubled, pushed, last>>

\* RemoveVotesBySegmentID reads the list to count it, and gives up on a failure.
ReadAll(c) ==
  /\ At(c, {"clear"}, "read")
  /\ (Works /\ SGoto(c, "del")) \/ (Fails(c) /\ SGoto(c, "end"))
  /\ UNCHANGED <<storeVars, vectorVars, op, given, vpc, todo, tally, copy, next, ops,
                 cut, exposed, doubled, pushed, last>>

\* It deletes the list and then the count keys one by one, whatever fails.
DeleteAll(c) ==
  /\ At(c, {"clear"}, "del") /\ SGoto(c, "zero")
  /\ \/ Works /\ list' = Nothing /\ cut' = cut \cup Listed(list)
     \/ Fails(c) /\ UNCHANGED <<list, cut>>
  /\ UNCHANGED <<cached, score, dims, vectorVars, op, given, vpc, todo, tally, copy, next,
                 ops, exposed, doubled, pushed, last>>

ZeroCount(c) ==
  /\ At(c, {"clear"}, "zero")
  /\ \/ Works /\ cached' = [cached EXCEPT ![Kinds[next[c]]] = 0]
     \/ Fails(c) /\ UNCHANGED cached
  /\ next' = [next EXCEPT ![c] = @ + 1]
  /\ SGoto(c, IF next[c] < Len(Kinds) THEN "zero" ELSE "end")
  /\ UNCHANGED <<list, score, dims, vectorVars, op, given, vpc, todo, tally, copy,
                 ops, cut, exposed, doubled, pushed, last>>

\* UpdateScores stores the score and, unless that failed, its dimensions.
StoreScore(c) ==
  /\ At(c, {"score"}, "score")
  /\ \/ Works /\ score' = c /\ SGoto(c, "dims")
     \/ Fails(c) /\ SGoto(c, "end") /\ UNCHANGED score
  /\ UNCHANGED <<list, cached, dims, vectorVars, op, given, vpc, todo, tally, copy, next,
                 ops, cut, exposed, doubled, pushed, last>>

StoreDimensions(c) ==
  /\ At(c, {"score"}, "dims")
  /\ (Works /\ dims' = c) \/ (Fails(c) /\ UNCHANGED dims)
  /\ SGoto(c, "end")
  /\ UNCHANGED <<list, cached, score, vectorVars, op, given, vpc, todo, tally, copy, next,
                 ops, cut, exposed, doubled, pushed, last>>

-----------------------------------------------------------------------------
(* The vector goroutine.                                                   *)

\* RemoveVotes counts the list for the vector while the other goroutine is at
\* whatever step it is.
CountForVector(c) ==
  /\ op[c] = "remove" /\ vpc[c] = "count"
  /\ \/ Works /\ copy' = [copy EXCEPT ![c] = CountOf(list)]
     \/ Fails(c) /\ copy' = [copy EXCEPT ![c] = Zero]
  /\ VGoto(c, "write")
  /\ UNCHANGED <<storeVars, vectorVars, op, given, spc, todo, tally, next, ops,
                 cut, exposed, doubled, pushed, last>>

\* updateSegmentMetadataInVectorBatch: one call with all that changes.
WriteVector(c) ==
  /\ op[c] # "none" /\ vpc[c] = "write"
  /\ \/ /\ Works
        /\ IF op[c] = "score" THEN rated' = c /\ UNCHANGED vector
                              ELSE vector' = copy[c] /\ UNCHANGED rated
     \/ Fails(c) /\ UNCHANGED <<vector, rated>>
  /\ VGoto(c, "end")
  /\ UNCHANGED <<storeVars, op, given, spc, todo, tally, copy, next, ops,
                 cut, exposed, doubled, pushed, last>>

\* The steps of an operation, on votes (vote.go) and on hits (hit.go) alike.
Step(c) ==
  \/ PushVote(c) \/ Count(c) \/ SetCount(c)
  \/ ReadList(c) \/ DeleteList(c) \/ PushBack(c)
  \/ ReadAll(c) \/ DeleteAll(c) \/ ZeroCount(c)
  \/ StoreScore(c) \/ StoreDimensions(c)
  \/ CountForVector(c) \/ WriteVector(c) \/ Return(c)

Next ==
  \E c \in Clients :
    \/ \E vs \in SUBSET Votes \ {{}} : Update(c, vs) \/ Remove(c, vs)
    \/ Clear(c) \/ UpdateScores(c)
    \/ Step(c)

Spec == Init /\ [][Next]_vars

-----------------------------------------------------------------------------
(* Properties.                                                             *)

Lists == [Votes -> Nat]
Counts == [KindSet -> Nat]
Operations == {"none", "update", "remove", "clear", "score"}

\* Every variable keeps its type, and who runs no operation has no goroutine.
TypeOK ==
  /\ list \in Lists /\ cached \in Counts /\ vector \in Counts
  /\ {score, dims, rated} \subseteq Clients \cup {NoScore}
  /\ op \in [Clients -> Operations]
  /\ given \in [Clients -> SUBSET Votes] /\ todo \in [Clients -> Lists]
  /\ spc \in [Clients -> {"push", "set", "read", "del", "count", "zero", "score",
                          "dims", "end"}]
  /\ vpc \in [Clients -> {"count", "write", "end"}]
  /\ tally \in [Clients -> Counts] /\ copy \in [Clients -> Counts]
  /\ next \in [Clients -> 1..(Len(Kinds) + 1)]
  /\ ops \in 0..MaxOps /\ faults \in 0..MaxFaults
  /\ cut \subseteq Votes /\ exposed \subseteq Votes
  /\ doubled \subseteq Votes /\ pushed \subseteq Votes
  /\ alone \in [Clients -> BOOLEAN]
  /\ last \in [op : Operations, given : SUBSET Votes, counted : BOOLEAN]
  /\ \A c \in Clients : op[c] = "none" => spc[c] = "end" /\ vpc[c] = "end" /\ ~alone[c]

\* A vote that has been stored is listed until a removal is given its id or the
\* segment is cleared, through every rewriting of the list, but while a removal has
\* it in hand; and it is never listed twice, but by a removal whose Del of the list
\* failed: it ignores that and pushes all it keeps behind what is there.  Excepted
\* are the votes that two operations had their hands on: those stored, or read by a
\* second removal, between the ArrayAll and the Push of a removal, and those whose
\* own Push failed (vote.go:252-298, hit.go:210-256).
EveryVoteOnce ==
  \A v \in pushed \ exposed :
    /\ v \notin doubled => list[v] <= 1
    /\ list[v] = 0 => v \in cut \/ \E c \in Snapshots : todo[c][v] # 0

\* Whatever failures and overlaps have left behind, one operation that runs
\* alone and without a failed call puts it right: after UpdateVotes the cached
\* and the vector's counts are those of the list, which has its votes; after
\* RemoveVotes the list has none of its votes and the cached counts are right if
\* it found one; after a clear all is empty; after UpdateScores its three
\* copies agree (vote.go:98-196, 248-324, 387-463; score.go:75-125).
Settled ==
  Idle =>
    /\ last.op = "update" =>
         cached = CountOf(list) /\ vector = CountOf(list) /\ last.given \subseteq Listed(list)
    /\ last.op = "remove" =>
         last.given \cap Listed(list) = {} /\ (last.counted => cached = CountOf(list))
    /\ last.op = "clear" => list = Nothing /\ cached = Zero /\ vector = Zero
    /\ last.op = "score" => score = dims /\ dims = rated
=============================================================================
