------------------------- MODULE SegmentFeedbackProofs -------------------------
(***************************************************************************)
(* Proofs about SegmentFeedback for any clients, votes and kinds and any   *)
(* number of operations and failed calls.                                  *)
(*                                                                         *)
(* That no vote is lost or doubled rests on who may have it in hand        *)
(* (Hands): what a removal has read it puts back into a list where it is   *)
(* not, unless a second removal, or a vote that came meanwhile, had been   *)
(* seen (exposed), or its Del of the list failed (doubled).  That an       *)
(* operation alone puts things right rests on how far it has come (Alone). *)
(***************************************************************************)
EXTENDS SegmentFeedback, FiniteSetTheorems, TLAPS

StorePlaces(kind) ==
  CASE kind = "none" -> {"end"}
    [] kind = "update" -> {"push", "set", "end"}
    [] kind = "remove" -> {"read", "del", "push", "count", "set", "end"}
    [] kind = "clear" -> {"read", "del", "zero", "end"}
    [] kind = "score" -> {"score", "dims", "end"}

\* Where the goroutines of an operation may stand, and what they hold there.
Control == \A c \in Clients :
  /\ spc[c] \in StorePlaces(op[c])
  /\ spc[c] \in {"set", "zero"} => next[c] <= Len(Kinds)
  /\ spc[c] \notin {"set", "zero", "end"} => next[c] = 1
  /\ op[c] = "update" /\ vpc[c] # "end" => spc[c] = "end"
  /\ op[c] \in {"none", "clear"} => copy[c] = Zero
  /\ op[c] = "none" => todo[c] = Nothing /\ given[c] = {} /\ next[c] = 1

\* A vote is new until its UpdateVotes has pushed it, and that is one client's.
New ==
  /\ \A v \in Votes \ pushed : list[v] = 0 /\ \A c \in Snapshots : todo[c][v] = 0
  /\ \A c \in Clients : op[c] = "update" =>
       \A v \in Votes : todo[c][v] # 0 => v \in given[c] \ pushed
  /\ \A c, d \in Clients : op[c] = "update" /\ op[d] = "update" /\ c # d =>
       given[c] \cap given[d] = {}

\* Who has a vote in hand that is not exposed.
Hands ==
  /\ \A c \in Clients : op[c] = "remove" => given[c] \subseteq cut
  /\ \A v \in pushed \ exposed : \A c \in Snapshots :
       /\ v \notin doubled => todo[c][v] <= 1
       /\ \A d \in Snapshots : d # c => todo[c][v] = 0
       /\ spc[c] = "push" /\ todo[c][v] # 0 => list[v] = 0 \/ v \in doubled
       /\ spc[c] = "del" /\ list[v] # 0 => todo[c][v] # 0 \/ v \in cut

\* The first counts a client sets are set.
SetUpTo(c, counts) == \A k \in 1..next[c] - 1 : cached[Kinds[k]] = counts[Kinds[k]]

AloneUpdate(c) ==
  /\ spc[c] = "push" => \A v \in given[c] : list[v] # 0 \/ todo[c][v] # 0
  /\ spc[c] # "push" =>
       /\ given[c] \subseteq Listed(list)
       /\ tally[c] = CountOf(list) /\ SetUpTo(c, tally[c])
  /\ spc[c] = "end" =>
       /\ next[c] = Len(Kinds) + 1
       /\ IF vpc[c] = "end" THEN vector = tally[c] ELSE copy[c] = tally[c]

AloneRemove(c) ==
  /\ spc[c] \in {"del", "push"} => given[c] \cap Listed(todo[c]) = {}
  /\ spc[c] = "push" => list = Nothing
  /\ spc[c] \in {"count", "set", "end"} => given[c] \cap Listed(list) = {}
  /\ spc[c] = "set" \/ next[c] # 1 => tally[c] = CountOf(list) /\ SetUpTo(c, tally[c])
  /\ spc[c] = "end" => next[c] \in {1, Len(Kinds) + 1}

AloneClear(c) ==
  /\ spc[c] \in {"zero", "end"} => list = Nothing
  /\ SetUpTo(c, Zero)
  /\ spc[c] = "end" => next[c] = Len(Kinds) + 1
  /\ vpc[c] = "end" => vector = Zero

AloneScore(c) ==
  /\ spc[c] # "score" => score = c
  /\ spc[c] = "end" => dims = c
  /\ vpc[c] = "end" => rated = c

\* How far an operation has come that runs alone.
Alone == \A c \in Clients : alone[c] =>
  /\ \A d \in Clients : d # c => op[d] = "none"
  /\ op[c] = "update" => AloneUpdate(c)
  /\ op[c] = "remove" => AloneRemove(c)
  /\ op[c] = "clear" => AloneClear(c)
  /\ op[c] = "score" => AloneScore(c)

After == (last.op # "none" => Idle) /\ Settled

IInv == TypeOK /\ Control /\ New /\ Hands /\ EveryVoteOnce /\ Alone /\ After

-----------------------------------------------------------------------------
(* Lists and counts.                                                       *)

LEMMA CountIs == ASSUME NEW l \in Lists PROVE CountOf(l) \in Counts
  <1> SUFFICES ASSUME NEW k \in KindSet PROVE Cardinality(Entries(l, k)) \in Nat
    BY DEF CountOf, Counts
  <1> DEFINE W == {w \in Votes : KindOf[w] = k}
             F == {{v} \X (1..l[v]) : v \in W}
  <1>1. IsFiniteSet(W) /\ W \subseteq Votes
    BY FeedbackAssumption, FS_Subset
  <1>2. IsFiniteSet(F)
    <2> HIDE DEF W
    <2> DEFINE g == [v \in W |-> {v} \X (1..l[v])]
    <2>1. g \in Surjection(W, F)
      BY Zenon DEF Surjection
    <2> QED
      BY <1>1, <2>1, FS_Surjection
  <1>3. ASSUME NEW f \in F PROVE IsFiniteSet(f)
    <2>1. PICK v \in W : f = {v} \X (1..l[v])
      OBVIOUS
    <2>2. l[v] \in Nat
      BY <1>1 DEF Lists
    <2>3. IsFiniteSet(1..l[v])
      BY <2>2, FS_Interval
    <2>4. IsFiniteSet({v})
      BY FS_Singleton
    <2> QED
      BY <2>1, <2>3, <2>4, FS_Product
  <1>4. IsFiniteSet(UNION F)
    BY <1>2, <1>3, FS_UNION
  <1> QED
    BY <1>4, FS_CardinalityType DEF Entries

LEMMA ZeroIs == Zero \in Counts /\ Nothing \in Lists /\ Listed(Nothing) = {}
  BY DEF Zero, Counts, Nothing, Lists, Listed

LEMMA PlacesAre ==
  /\ StorePlaces("none") = {"end"}
  /\ StorePlaces("update") = {"push", "set", "end"}
  /\ StorePlaces("remove") = {"read", "del", "push", "count", "set", "end"}
  /\ StorePlaces("clear") = {"read", "del", "zero", "end"}
  /\ StorePlaces("score") = {"score", "dims", "end"}
  BY DEF StorePlaces

LEMMA KindsAre == Len(Kinds) \in Nat \ {0} /\ DOMAIN Kinds = 1..Len(Kinds)
  BY FeedbackAssumption

\* Two counts that agree on every kind set one by one are equal.
LEMMA AllSet ==
  ASSUME NEW f \in Counts, NEW g \in Counts,
         \A k \in 1..Len(Kinds) : f[Kinds[k]] = g[Kinds[k]]
  PROVE  f = g
  BY KindsAre DEF Counts, KindSet

-----------------------------------------------------------------------------
(* What steps have in common.                                              *)

\* A step that changes no list and no snapshot keeps what is said of votes.
LEMMA SameVotes ==
  ASSUME IInv, UNCHANGED <<list, todo, op, given, cut, exposed, doubled, pushed>>,
         \A d \in Clients : op[d] = "remove" =>
           (spc'[d] = "del" <=> spc[d] = "del") /\ (spc'[d] = "push" <=> spc[d] = "push")
  PROVE  New' /\ Hands' /\ EveryVoteOnce'
  <1>1. Snapshots' = Snapshots
    BY DEF Snapshots
  <1>2. New' /\ EveryVoteOnce'
    BY <1>1 DEF IInv, New, EveryVoteOnce
  <1>3. Hands'
    BY <1>1 DEF IInv, Hands, Snapshots
  <1> QED
    BY <1>2, <1>3

\* Nobody looks at what the last operation has left behind once there is another.
LEMMA BusyAfter ==
  ASSUME IInv, NEW c \in Clients, op[c] # "none", last' = last
  PROVE  After'
  <1>1. last.op = "none" /\ last'.op = "none"
    BY DEF IInv, After, Idle
  <1> QED
    BY <1>1 DEF After, Settled

\* A step of one operation leaves the others as they are.
LEMMA OneControl ==
  ASSUME IInv, NEW c \in Clients,
         \A d \in Clients : d # c =>
           /\ spc'[d] = spc[d] /\ vpc'[d] = vpc[d] /\ next'[d] = next[d] /\ op'[d] = op[d]
           /\ copy'[d] = copy[d] /\ todo'[d] = todo[d] /\ given'[d] = given[d],
         /\ spc'[c] \in StorePlaces(op'[c])
         /\ spc'[c] \in {"set", "zero"} => next'[c] <= Len(Kinds)
         /\ spc'[c] \notin {"set", "zero", "end"} => next'[c] = 1
         /\ op'[c] = "update" /\ vpc'[c] # "end" => spc'[c] = "end"
         /\ op'[c] \in {"none", "clear"} => copy'[c] = Zero
         /\ op'[c] = "none" => todo'[c] = Nothing /\ given'[c] = {} /\ next'[c] = 1
  PROVE  Control'
  BY DEF IInv, Control

LEMMA OneAlone ==
  ASSUME IInv, NEW c \in Clients, op[c] # "none", UNCHANGED op,
         alone' \in {alone, [alone EXCEPT ![c] = FALSE]},
         alone'[c] => /\ op[c] = "update" => AloneUpdate(c)'
                      /\ op[c] = "remove" => AloneRemove(c)'
                      /\ op[c] = "clear" => AloneClear(c)'
                      /\ op[c] = "score" => AloneScore(c)'
  PROVE  Alone'
  <1>1. \A d \in Clients : alone'[d] => alone[d]
    BY DEF IInv, TypeOK
  <1>2. \A d \in Clients : alone[d] => d = c
    BY DEF IInv, Alone
  <1> QED
    BY <1>1, <1>2 DEF IInv, Alone

\* A call fails or not.
LEMMA CallIs ==
  ASSUME IInv, NEW c \in Clients, Works \/ Fails(c)
  PROVE  /\ faults' \in 0..MaxFaults
         /\ alone' \in {alone, [alone EXCEPT ![c] = FALSE]}
         /\ alone' \in [Clients -> BOOLEAN]
         /\ Fails(c) => ~alone'[c]
         /\ \A d \in Clients : op[d] = "none" => ~alone'[d]
         /\ alone'[c] => alone[c]
  <1>1. faults' \in 0..MaxFaults
    BY FeedbackAssumption DEF IInv, TypeOK, Works, Fails
  <1>2. alone' \in {alone, [alone EXCEPT ![c] = FALSE]} /\ alone \in [Clients -> BOOLEAN]
    BY DEF IInv, TypeOK, Works, Fails
  <1>3. /\ alone' \in [Clients -> BOOLEAN]
        /\ \A d \in Clients : alone'[d] => alone[d]
    BY <1>2
  <1>4. Fails(c) => ~alone'[c]
    BY <1>2 DEF Fails
  <1> QED
    BY <1>1, <1>2, <1>3, <1>4 DEF IInv, TypeOK

-----------------------------------------------------------------------------
(* The Store goroutine.                                                    *)

LEMMA PushVoteKeeps == ASSUME IInv, NEW c \in Clients, PushVote(c) PROVE IInv'
  <1> USE DEF At
  <1>0. PICK v \in Listed(todo[c]) :
          /\ todo' = [todo EXCEPT ![c][v] = 0]
          /\ \/ /\ Works /\ list' = [list EXCEPT ![v] = @ + 1] /\ pushed' = pushed \cup {v}
                /\ exposed' = IF Snapshots = {} THEN exposed ELSE exposed \cup {v}
             \/ /\ Fails(c) /\ UNCHANGED <<list, pushed>> /\ exposed' = exposed \cup {v}
    BY DEF PushVote
  <1>1. /\ op[c] = "update" /\ spc[c] = "push" /\ c \notin Snapshots
        /\ UNCHANGED <<cached, score, dims, vector, rated, op, given, spc, vpc, tally, copy,
                       next, ops, cut, doubled, last>>
    BY DEF PushVote, vectorVars, Snapshots
  <1>2. v \in Votes /\ todo[c][v] # 0 /\ v \in given[c] /\ v \notin pushed /\ list[v] = 0
    BY <1>0, <1>1 DEF IInv, New, Listed
  <1>3. /\ Snapshots' = Snapshots
        /\ \A d \in Clients : d # c => todo'[d] = todo[d]
        /\ \A w \in Votes : w # v => list'[w] = list[w] /\ todo'[c][w] = todo[c][w]
        /\ todo'[c][v] = 0 /\ list'[v] \in {0, 1}
        /\ pushed' \in {pushed, pushed \cup {v}} /\ exposed' \in {exposed, exposed \cup {v}}
    BY <1>0, <1>1, <1>2 DEF IInv, TypeOK, Lists, Snapshots
  <1>4. TypeOK'
    <2>1. todo' \in [Clients -> Lists] /\ list' \in Lists
      BY <1>0, <1>2 DEF IInv, TypeOK, Lists
    <2> QED
      BY <1>0, <1>1, <1>2, <1>3, <2>1, CallIs DEF IInv, TypeOK
  <1>5. Control'
    BY <1>1, <1>3, OneControl DEF IInv, Control, StorePlaces
  <1>6. New'
    <2>1. \A w \in Votes \ pushed' : list'[w] = 0
      BY <1>0, <1>2, <1>3 DEF IInv, New
    <2>2. \A w \in Votes \ pushed' : \A d \in Snapshots' : todo'[d][w] = 0
      BY <1>1, <1>3 DEF IInv, New, Snapshots
    <2>3. ASSUME NEW d \in Clients, op[d] = "update", NEW w \in Votes, todo'[d][w] # 0
          PROVE  w \in given[d] \ pushed'
      BY <1>1, <1>2, <1>3, <2>3 DEF IInv, New
    <2> QED
      BY <1>1, <2>1, <2>2, <2>3 DEF IInv, New
  <1>7. Hands' /\ EveryVoteOnce'
    <2>1. \A w \in pushed' \ exposed' : w = v \/ w \in pushed \ exposed
      BY <1>3
    <2>2. v \in pushed' \ exposed' => Snapshots = {} /\ list'[v] = 1
      BY <1>0, <1>2, <1>3 DEF IInv, TypeOK, Lists
    <2>3. \A d \in Snapshots : d # c /\ d \in Clients
      BY <1>1 DEF Snapshots
    <2>4. Hands'
      <3> SUFFICES ASSUME NEW w \in pushed' \ exposed', NEW d \in Snapshots
                   PROVE  /\ w \notin doubled => todo'[d][w] <= 1
                          /\ \A e \in Snapshots : e # d => todo'[d][w] = 0
                          /\ spc'[d] = "push" /\ todo'[d][w] # 0 => list'[w] = 0 \/ w \in doubled
                          /\ spc'[d] = "del" /\ list'[w] # 0 => todo'[d][w] # 0 \/ w \in cut'
        BY <1>1, <1>3 DEF IInv, Hands
      <3>1. w \in pushed \ exposed /\ w # v /\ w \in Votes
        BY <1>2, <2>1, <2>2 DEF IInv, TypeOK
      <3>2. todo'[d] = todo[d] /\ list'[w] = list[w] /\ spc'[d] = spc[d]
        BY <1>1, <1>3, <2>3, <3>1
      <3> QED
        BY <1>1, <3>1, <3>2 DEF IInv, Hands
    <2>5. EveryVoteOnce'
      <3> SUFFICES ASSUME NEW w \in pushed' \ exposed'
                   PROVE  /\ w \notin doubled => list'[w] <= 1
                          /\ list'[w] = 0 => w \in cut' \/ \E d \in Snapshots : todo'[d][w] # 0
        BY <1>1, <1>3 DEF EveryVoteOnce
      <3>1. CASE w = v
        BY <2>2, <3>1
      <3>2. CASE w # v
        <4>1. w \in pushed \ exposed /\ w \in Votes /\ list'[w] = list[w]
          BY <1>3, <2>1, <3>2 DEF IInv, TypeOK
        <4>2. \A d \in Snapshots : todo'[d] = todo[d]
          BY <1>3, <2>3
        <4> QED
          BY <1>1, <4>1, <4>2 DEF IInv, EveryVoteOnce
      <3> QED
        BY <3>1, <3>2
    <2> QED
      BY <2>4, <2>5
  <1>8. Alone'
    <2>1. SUFFICES ASSUME alone'[c] PROVE AloneUpdate(c)'
      BY <1>0, <1>1, CallIs, OneAlone
    <2>2. alone[c] /\ Works /\ list' = [list EXCEPT ![v] = @ + 1]
      BY <1>0, <2>1, CallIs
    <2> QED
      BY <1>1, <1>2, <1>3, <2>2 DEF IInv, Alone, AloneUpdate, TypeOK, Lists
  <1>9. After'
    BY <1>1, BusyAfter
  <1> QED
    BY <1>4, <1>5, <1>6, <1>7, <1>8, <1>9 DEF IInv

LEMMA CountKeeps == ASSUME IInv, NEW c \in Clients, Count(c) PROVE IInv'
  <1> USE DEF At
  <1>1. /\ \/ op[c] = "update" /\ spc[c] = "push" /\ todo[c] = Nothing
           \/ op[c] = "remove" /\ spc[c] = "count"
        /\ spc' = [spc EXCEPT ![c] = "set"]
        /\ \/ Works /\ tally' = [tally EXCEPT ![c] = CountOf(list)]
           \/ Fails(c) /\ tally' = [tally EXCEPT ![c] = Zero]
        /\ UNCHANGED <<list, cached, score, dims, vector, rated, op, given, vpc, todo, copy,
                       next, ops, cut, exposed, doubled, pushed, last>>
    BY DEF Count, SGoto, storeVars, vectorVars
  <1>2. CountOf(list) \in Counts
    BY CountIs DEF IInv, TypeOK
  <1>3. TypeOK'
    <2>1. tally' \in [Clients -> Counts]
      BY <1>1, <1>2, ZeroIs DEF IInv, TypeOK
    <2>2. faults' \in 0..MaxFaults /\ alone' \in [Clients -> BOOLEAN]
          /\ \A d \in Clients : op[d] = "none" => ~alone'[d]
      BY <1>1, CallIs
    <2> QED
      BY <1>1, <2>1, <2>2 DEF IInv, TypeOK
  <1>4. /\ spc'[c] = "set" /\ \A d \in Clients : d # c => spc'[d] = spc[d]
        /\ next[c] = 1
    BY <1>1 DEF IInv, TypeOK, Control
  <1>5. Control'
    <2>1. next'[c] <= Len(Kinds) /\ spc'[c] \in StorePlaces(op'[c])
      BY <1>1, <1>4, KindsAre, PlacesAre
    <2>2. op'[c] = "update" => vpc'[c] = "end"
      BY <1>1 DEF IInv, Control
    <2> QED
      BY <1>1, <1>4, <2>1, <2>2, OneControl
  <1>6. New' /\ Hands' /\ EveryVoteOnce'
    BY <1>1, <1>4, SameVotes
  <1>7. Alone'
    <2>1. SUFFICES ASSUME alone'[c]
                   PROVE  /\ op[c] = "update" => AloneUpdate(c)'
                          /\ op[c] = "remove" => AloneRemove(c)'
      BY <1>1, CallIs, OneAlone
    <2>2. alone[c] /\ tally' = [tally EXCEPT ![c] = CountOf(list)]
      BY <1>1, <2>1, CallIs
    <2>3. tally'[c] = CountOf(list)
      BY <2>2 DEF IInv, TypeOK
    <2>4. CASE op[c] = "update"
      <3>1. given[c] \subseteq Listed(list)
        BY <1>1, <2>2, <2>4 DEF IInv, Alone, AloneUpdate, TypeOK, Nothing, Listed
      <3> QED
        BY <1>1, <1>4, <2>3, <2>4, <3>1 DEF AloneUpdate, SetUpTo
    <2>5. CASE op[c] = "remove"
      BY <1>1, <1>4, <2>2, <2>3, <2>5 DEF IInv, Alone, AloneRemove, SetUpTo
    <2> QED
      BY <1>1, <2>4, <2>5
  <1>8. After'
    BY <1>1, BusyAfter
  <1> QED
    BY <1>3, <1>5, <1>6, <1>7, <1>8 DEF IInv

LEMMA SetCountKeeps == ASSUME IInv, NEW c \in Clients, SetCount(c) PROVE IInv'
  <1> USE DEF At
  <1> DEFINE k == Kinds[next[c]]
  <1>1. /\ op[c] \in {"update", "remove"} /\ spc[c] = "set"
        /\ \/ Works /\ cached' = [cached EXCEPT ![k] = tally[c][k]]
           \/ Fails(c) /\ UNCHANGED cached
        /\ next' = [next EXCEPT ![c] = @ + 1]
        /\ UNCHANGED <<list, score, dims, vector, rated, op, given, todo, tally, ops,
                       cut, exposed, doubled, pushed, last>>
    BY DEF SetCount, vectorVars
  <1>2. \/ next[c] < Len(Kinds) /\ UNCHANGED <<spc, vpc, copy>>
        \/ /\ next[c] >= Len(Kinds) /\ spc' = [spc EXCEPT ![c] = "end"]
           /\ \/ /\ op[c] = "update" /\ vpc' = [vpc EXCEPT ![c] = "write"]
                 /\ copy' = [copy EXCEPT ![c] = tally[c]]
              \/ op[c] = "remove" /\ UNCHANGED <<vpc, copy>>
    BY <1>1, KindsAre DEF SetCount, SGoto, VGoto, IInv, TypeOK
  <1>3. next[c] \in 1..Len(Kinds) /\ k \in KindSet /\ next'[c] = next[c] + 1
    BY <1>1, KindsAre DEF IInv, TypeOK, Control, KindSet
  <1> HIDE DEF k
  <1>4. cached' \in Counts
    <2>2. tally[c][k] \in Nat
      BY <1>3 DEF IInv, TypeOK, Counts
    <2> QED
      BY <1>1, <2>2 DEF IInv, TypeOK, Counts
  <1>5. TypeOK'
    <2>1. /\ copy' \in {copy, [copy EXCEPT ![c] = tally[c]]}
          /\ vpc' \in {vpc, [vpc EXCEPT ![c] = "write"]}
          /\ spc' \in {spc, [spc EXCEPT ![c] = "end"]}
      BY <1>2
    <2>2. /\ copy' \in [Clients -> Counts]
          /\ vpc' \in [Clients -> {"count", "write", "end"}]
          /\ spc' \in [Clients -> {"push", "set", "read", "del", "count", "zero", "score",
                                   "dims", "end"}]
      BY <2>1 DEF IInv, TypeOK
    <2>3. next' \in [Clients -> 1..(Len(Kinds) + 1)]
      BY <1>1, <1>3, KindsAre DEF IInv, TypeOK
    <2>4. faults' \in 0..MaxFaults /\ alone' \in [Clients -> BOOLEAN]
          /\ \A d \in Clients : op[d] = "none" => ~alone'[d]
      BY <1>1, CallIs
    <2>5. \A d \in Clients : op[d] = "none" => spc'[d] = spc[d] /\ vpc'[d] = vpc[d]
      BY <1>1, <1>2 DEF IInv, TypeOK
    <2> QED
      BY <1>1, <1>4, <2>2, <2>4, <2>5, <2>3 DEF IInv, TypeOK
  <1>6. /\ spc'[c] = IF next[c] < Len(Kinds) THEN "set" ELSE "end"
        /\ \A d \in Clients : d # c => /\ spc'[d] = spc[d] /\ vpc'[d] = vpc[d]
                                       /\ next'[d] = next[d] /\ copy'[d] = copy[d]
    BY <1>1, <1>2, <1>3, KindsAre DEF IInv, TypeOK
  <1>7. op[c] = "update" /\ spc'[c] = "set" => vpc'[c] = "end"
    BY <1>1, <1>2, <1>3, <1>6, KindsAre DEF IInv, TypeOK, Control
  <1>8. Control'
    <2>1. spc'[c] \in StorePlaces(op'[c])
      BY <1>1, <1>6, PlacesAre
    <2>2. spc'[c] \in {"set", "end"} /\ (spc'[c] = "set" => next'[c] <= Len(Kinds))
      BY <1>3, <1>6, KindsAre
    <2> QED
      BY <1>1, <1>6, <1>7, <2>1, <2>2, OneControl
  <1>9. New' /\ Hands' /\ EveryVoteOnce'
    BY <1>1, <1>6, SameVotes
  <1>10. Alone'
    <2>1. SUFFICES ASSUME alone'[c]
                   PROVE  /\ op[c] = "update" => AloneUpdate(c)'
                          /\ op[c] = "remove" => AloneRemove(c)'
      BY <1>1, CallIs, OneAlone
    <2>2. alone[c] /\ cached' = [cached EXCEPT ![k] = tally[c][k]]
      BY <1>1, <2>1, CallIs
    <2>3. /\ given[c] \subseteq Listed(list) \/ op[c] # "update"
          /\ given[c] \cap Listed(list) = {} \/ op[c] # "remove"
          /\ tally[c] = CountOf(list) /\ SetUpTo(c, tally[c])
      BY <1>1, <2>2 DEF IInv, Alone, AloneUpdate, AloneRemove
    <2>4. SetUpTo(c, tally[c])'
      <3> SUFFICES ASSUME NEW j \in 1..next[c] PROVE cached'[Kinds[j]] = tally[c][Kinds[j]]
        BY <1>1, <1>3, KindsAre DEF SetUpTo
      <3>1. Kinds[j] \in KindSet
        BY <1>3, KindsAre DEF KindSet
      <3>2. j # next[c] => j \in 1..next[c] - 1
        BY <1>3, KindsAre
      <3> QED
        BY <1>3, <2>2, <2>3, <3>1, <3>2 DEF SetUpTo, k, IInv, TypeOK, Counts
    <2>5. spc'[c] = "end" => next'[c] = Len(Kinds) + 1
      BY <1>2, <1>3, <1>6, KindsAre
    <2>6. spc'[c] = "end" /\ op[c] = "update" => vpc'[c] = "write" /\ copy'[c] = tally[c]
      BY <1>1, <1>2, <1>3, <1>6, KindsAre DEF IInv, TypeOK
    <2>7. op[c] = "update" => AloneUpdate(c)'
      BY <1>1, <1>6, <2>3, <2>4, <2>5, <2>6 DEF AloneUpdate
    <2>8. op[c] = "remove" => AloneRemove(c)'
      BY <1>1, <1>6, <2>3, <2>4, <2>5 DEF AloneRemove
    <2> QED
      BY <2>7, <2>8
  <1>11. After'
    BY <1>1, BusyAfter
  <1> QED
    BY <1>5, <1>8, <1>9, <1>10, <1>11 DEF IInv

LEMMA ReadListKeeps == ASSUME IInv, NEW c \in Clients, ReadList(c) PROVE IInv'
  <1> USE DEF At
  <1> DEFINE kept == [v \in Votes |-> IF v \in given[c] THEN 0 ELSE list[v]]
  <1>1. /\ op[c] = "remove" /\ spc[c] = "read" /\ (Works \/ Fails(c))
        /\ UNCHANGED <<list, cached, score, dims, vector, rated, op, given, vpc, tally, copy,
                       next, ops, cut, doubled, pushed, last>>
    BY DEF ReadList, storeVars, vectorVars
  <1>2. \/ /\ Works /\ todo' = [todo EXCEPT ![c] = kept] /\ spc' = [spc EXCEPT ![c] = "del"]
           /\ exposed' = IF Snapshots = {} THEN exposed
                         ELSE exposed \cup Listed(list) \cup UNION {Listed(todo[d]) : d \in Snapshots}
        \/ /\ Fails(c) \/ given[c] \cap Listed(list) = {}
           /\ spc' = [spc EXCEPT ![c] = "end"] /\ UNCHANGED <<todo, exposed>>
    BY DEF ReadList, SGoto
  <1>3. kept \in Lists /\ given[c] \cap Listed(kept) = {}
    BY DEF IInv, TypeOK, Lists, Listed
  <1>4. /\ \A v \in Votes : v \notin given[c] => kept[v] = list[v]
        /\ \A v \in Votes : kept[v] \in {0, list[v]}
    BY DEF kept
  <1> HIDE DEF kept
  <1>5. next[c] = 1 /\ c \notin Snapshots
    BY <1>1 DEF IInv, Control, Snapshots
  <1>6. TypeOK'
    <2>1. exposed' \subseteq Votes
      BY <1>2 DEF IInv, TypeOK, Listed
    <2>2. /\ todo' \in {todo, [todo EXCEPT ![c] = kept]}
          /\ spc' \in {[spc EXCEPT ![c] = "del"], [spc EXCEPT ![c] = "end"]}
      BY <1>2
    <2>3. todo' \in [Clients -> Lists]
      <3>1. todo \in [Clients -> Lists]
        BY DEF IInv, TypeOK
      <3> QED
        BY <1>3, <2>2, <3>1
    <2>4. /\ spc' \in [Clients -> {"push", "set", "read", "del", "count", "zero", "score",
                                   "dims", "end"}]
          /\ \A d \in Clients : d # c => spc'[d] = spc[d]
      BY <2>2 DEF IInv, TypeOK
    <2>5. faults' \in 0..MaxFaults /\ alone' \in [Clients -> BOOLEAN]
          /\ \A d \in Clients : op[d] = "none" => ~alone'[d]
      BY <1>1, CallIs
    <2> QED
      BY <1>1, <2>1, <2>3, <2>4, <2>5 DEF IInv, TypeOK
  <1>7. /\ \A d \in Clients : d # c => spc'[d] = spc[d] /\ todo'[d] = todo[d]
        /\ spc'[c] \in {"del", "end"}
        /\ spc'[c] = "del" => todo'[c] = kept
    BY <1>2 DEF IInv, TypeOK
  <1>8. Control'
    <2>1. spc'[c] \in StorePlaces(op'[c])
      BY <1>1, <1>7, PlacesAre
    <2> QED
      BY <1>1, <1>5, <1>7, <2>1, OneControl
  <1>9. New' /\ Hands' /\ EveryVoteOnce'
    <2>1. CASE spc'[c] = "end"
      <3>1. UNCHANGED <<todo, exposed>>
        BY <1>2, <2>1 DEF IInv, TypeOK
      <3> QED
        BY <1>1, <1>7, <2>1, <3>1, SameVotes
    <2>2. CASE spc'[c] = "del"
      <3>1. /\ Snapshots' = Snapshots \cup {c} /\ todo'[c] = kept
            /\ exposed' = IF Snapshots = {} THEN exposed
                          ELSE exposed \cup Listed(list) \cup UNION {Listed(todo[d]) : d \in Snapshots}
        BY <1>1, <1>2, <1>7, <2>2 DEF Snapshots, IInv, TypeOK
      <3>2. New'
        <4>1. \A v \in Votes \ pushed' : list'[v] = 0 /\ \A d \in Snapshots' : todo'[d][v] = 0
          BY <1>1, <1>4, <1>7, <3>1 DEF IInv, New, Snapshots
        <4>2. \A d \in Clients : op[d] = "update" => todo'[d] = todo[d]
          BY <1>1, <1>7
        <4> QED
          BY <1>1, <4>1, <4>2 DEF IInv, New
      <3>3. given[c] \subseteq cut
        BY <1>1 DEF IInv, Hands
      <3>4. ASSUME NEW v \in pushed \ exposed', NEW d \in Snapshots'
            PROVE  /\ v \in pushed \ exposed /\ v \in Votes
                   /\ Snapshots # {} => todo'[d][v] = 0 /\ list[v] = 0
                   /\ Snapshots = {} => d = c
        <4>1. v \in pushed \ exposed /\ v \in Votes
          BY <3>1 DEF IInv, TypeOK
        <4>2. ASSUME Snapshots # {} PROVE list[v] = 0 /\ \A e \in Snapshots : todo[e][v] = 0
          BY <3>1, <4>1, <4>2 DEF Listed
        <4>3. Snapshots # {} => todo'[d][v] = 0
          BY <1>4, <1>7, <3>1, <4>1, <4>2 DEF Snapshots
        <4> QED
          BY <3>1, <4>1, <4>2, <4>3
      <3>5. Hands'
        <4> SUFFICES ASSUME NEW v \in pushed \ exposed', NEW d \in Snapshots'
                     PROVE  /\ v \notin doubled => todo'[d][v] <= 1
                            /\ \A e \in Snapshots' : e # d => todo'[d][v] = 0
                            /\ spc'[d] = "push" /\ todo'[d][v] # 0 => list[v] = 0 \/ v \in doubled
                            /\ spc'[d] = "del" /\ list[v] # 0 => todo'[d][v] # 0 \/ v \in cut
          BY <1>1 DEF IInv, Hands
        <4>1. CASE Snapshots # {}
          BY <3>4, <4>1
        <4>2. CASE Snapshots = {}
          <5>1. d = c /\ v \in pushed \ exposed /\ v \in Votes /\ todo'[d] = kept /\ spc'[d] = "del"
            BY <2>2, <3>1, <3>4, <4>2
          <5>2. list[v] \in Nat /\ (v \notin doubled => list[v] <= 1)
            BY <5>1 DEF IInv, TypeOK, Lists, EveryVoteOnce
          <5> QED
            BY <1>4, <3>1, <3>3, <4>2, <5>1, <5>2
        <4> QED
          BY <4>1, <4>2
      <3>6. EveryVoteOnce'
        <4> SUFFICES ASSUME NEW v \in pushed \ exposed'
                     PROVE  /\ v \notin doubled => list[v] <= 1
                            /\ list[v] = 0 => v \in cut \/ \E d \in Snapshots' : todo'[d][v] # 0
          BY <1>1 DEF EveryVoteOnce
        <4>1. v \in pushed \ exposed /\ v \in Votes
          BY <3>1 DEF IInv, TypeOK
        <4>2. \A d \in Snapshots : todo'[d] = todo[d] /\ d \in Snapshots'
          BY <1>5, <1>7, <3>1 DEF Snapshots
        <4> QED
          BY <4>1, <4>2 DEF IInv, EveryVoteOnce
      <3> QED
        BY <3>2, <3>5, <3>6
    <2> QED
      BY <1>7, <2>1, <2>2
  <1>10. Alone'
    <2>1. SUFFICES ASSUME alone'[c] PROVE AloneRemove(c)'
      BY <1>1, CallIs, OneAlone
    <2>2. spc'[c] = "end" => given[c] \cap Listed(list) = {}
      BY <1>1, <1>2, <2>1, CallIs DEF IInv, TypeOK
    <2> QED
      BY <1>1, <1>3, <1>5, <1>7, <2>2 DEF AloneRemove
  <1>11. After'
    BY <1>1, BusyAfter
  <1> QED
    BY <1>6, <1>8, <1>9, <1>10, <1>11 DEF IInv

LEMMA DeleteListKeeps == ASSUME IInv, NEW c \in Clients, DeleteList(c) PROVE IInv'
  <1> USE DEF At
  <1>1. /\ op[c] = "remove" /\ spc[c] = "del" /\ c \in Snapshots /\ (Works \/ Fails(c))
        /\ spc' = [spc EXCEPT ![c] = "push"]
        /\ UNCHANGED <<cached, score, dims, vector, rated, op, given, vpc, todo, tally, copy, next,
                       ops, cut, exposed, pushed, last>>
    BY DEF DeleteList, SGoto, vectorVars, Snapshots
  <1>2. \/ Works /\ list' = Nothing /\ UNCHANGED doubled
        \/ Fails(c) /\ UNCHANGED list /\ doubled' = doubled \cup Listed(todo[c])
    BY DEF DeleteList
  <1>3. /\ spc'[c] = "push" /\ \A d \in Clients : d # c => spc'[d] = spc[d]
        /\ next[c] = 1 /\ list' \in {list, Nothing}
        /\ \A v \in Votes : list'[v] \in {list[v], 0}
    BY <1>1, <1>2 DEF IInv, TypeOK, Control, Nothing
  <1>4. TypeOK'
    <2>1. doubled' \subseteq Votes
      BY <1>2 DEF IInv, TypeOK, Listed
    <2>2. faults' \in 0..MaxFaults /\ alone' \in [Clients -> BOOLEAN]
          /\ \A d \in Clients : op[d] = "none" => ~alone'[d]
      BY <1>1, CallIs
    <2>3. spc' \in [Clients -> {"push", "set", "read", "del", "count", "zero", "score",
                                "dims", "end"}]
      BY <1>1 DEF IInv, TypeOK
    <2>4. list' \in Lists
      BY <1>3, ZeroIs DEF IInv, TypeOK
    <2> QED
      BY <1>1, <1>3, <2>1, <2>2, <2>3, <2>4 DEF IInv, TypeOK
  <1>5. Control'
    <2>1. spc'[c] \in StorePlaces(op'[c])
      BY <1>1, <1>3, PlacesAre
    <2> QED
      BY <1>1, <1>3, <2>1, OneControl
  <1>6. Snapshots' = Snapshots
    BY <1>1, <1>3 DEF Snapshots
  <1>7. New'
    BY <1>1, <1>3, <1>6 DEF IInv, New
  <1>8. Hands' /\ EveryVoteOnce'
    <2>1. CASE list' = Nothing /\ doubled' = doubled
      <3>1. \A v \in pushed \ exposed : v \in Votes /\ list'[v] = 0
        BY <2>1 DEF IInv, TypeOK, Nothing
      <3>2. Hands'
        BY <1>1, <1>6, <2>1, <3>1 DEF IInv, Hands
      <3>3. ASSUME NEW v \in pushed \ exposed
            PROVE  v \in cut \/ \E d \in Snapshots : todo[d][v] # 0
        BY <1>1, <3>1 DEF IInv, Hands, EveryVoteOnce
      <3>4. EveryVoteOnce'
        BY <1>1, <1>6, <3>1, <3>3 DEF EveryVoteOnce
      <3> QED
        BY <3>2, <3>4
    <2>2. CASE list' = list /\ doubled' = doubled \cup Listed(todo[c])
      <3>1. \A v \in Votes : todo[c][v] # 0 => v \in doubled'
        BY <2>2 DEF Listed
      <3>2. Hands'
        <4> SUFFICES ASSUME NEW v \in pushed \ exposed, NEW d \in Snapshots
                     PROVE  /\ v \notin doubled' => todo[d][v] <= 1
                            /\ \A e \in Snapshots : e # d => todo[d][v] = 0
                            /\ spc'[d] = "push" /\ todo[d][v] # 0 => list[v] = 0 \/ v \in doubled'
                            /\ spc'[d] = "del" /\ list[v] # 0 => todo[d][v] # 0 \/ v \in cut
          BY <1>1, <1>6, <2>2 DEF IInv, Hands
        <4>1. v \in Votes /\ d \in Clients /\ doubled \subseteq doubled'
          BY <2>2 DEF IInv, TypeOK, Snapshots
        <4> QED
          BY <1>3, <3>1, <4>1 DEF IInv, Hands
      <3>3. EveryVoteOnce'
        BY <1>1, <1>6, <2>2 DEF IInv, EveryVoteOnce
      <3> QED
        BY <3>2, <3>3
    <2> QED
      BY <1>2, <2>1, <2>2
  <1>9. Alone'
    <2>1. SUFFICES ASSUME alone'[c] PROVE AloneRemove(c)'
      BY <1>1, CallIs, OneAlone
    <2>2. alone[c] /\ list' = Nothing
      BY <1>1, <1>2, <2>1, CallIs
    <2> QED
      BY <1>1, <1>3, <2>2 DEF IInv, Alone, AloneRemove
  <1>10. After'
    BY <1>1, BusyAfter
  <1> QED
    BY <1>4, <1>5, <1>7, <1>8, <1>9, <1>10 DEF IInv

LEMMA PushBackKeeps == ASSUME IInv, NEW c \in Clients, PushBack(c) PROVE IInv'
  <1> USE DEF At
  <1> DEFINE both == [v \in Votes |-> list[v] + todo[c][v]]
  <1>1. /\ op[c] = "remove" /\ spc[c] = "push" /\ (Works \/ Fails(c))
        /\ todo' = [todo EXCEPT ![c] = Nothing]
        /\ UNCHANGED <<cached, score, dims, vector, rated, op, given, vpc, tally, copy,
                       next, ops, cut, doubled, pushed, last>>
    BY DEF PushBack, vectorVars
  <1>2. \/ Works /\ list' = both /\ spc' = [spc EXCEPT ![c] = "count"] /\ UNCHANGED exposed
        \/ /\ Fails(c) /\ UNCHANGED list /\ spc' = [spc EXCEPT ![c] = "end"]
           /\ exposed' = exposed \cup Listed(todo[c])
    BY DEF PushBack, SGoto
  <1>3. both \in Lists /\ \A v \in Votes : /\ list[v] \in Nat /\ todo[c][v] \in Nat
                                           /\ both[v] = list[v] + todo[c][v]
    BY DEF IInv, TypeOK, Lists
  <1> HIDE DEF both
  <1>4. next[c] = 1 /\ c \in Snapshots
    BY <1>1 DEF IInv, Control, Snapshots
  <1>5. TypeOK'
    <2>1. exposed' \subseteq Votes
      BY <1>2 DEF IInv, TypeOK, Listed
    <2>2. /\ list' \in {list, both}
          /\ spc' \in {[spc EXCEPT ![c] = "count"], [spc EXCEPT ![c] = "end"]}
      BY <1>2
    <2>3. /\ list' \in Lists /\ todo' \in [Clients -> Lists]
          /\ spc' \in [Clients -> {"push", "set", "read", "del", "count", "zero", "score",
                                   "dims", "end"}]
          /\ \A d \in Clients : d # c => spc'[d] = spc[d]
      BY <1>1, <1>3, <2>2, ZeroIs DEF IInv, TypeOK
    <2>4. faults' \in 0..MaxFaults /\ alone' \in [Clients -> BOOLEAN]
          /\ \A d \in Clients : op[d] = "none" => ~alone'[d]
      BY <1>1, CallIs
    <2> QED
      BY <1>1, <2>1, <2>3, <2>4 DEF IInv, TypeOK
  <1>6. /\ \A d \in Clients : d # c => spc'[d] = spc[d] /\ todo'[d] = todo[d]
        /\ spc'[c] \in {"count", "end"} /\ todo'[c] = Nothing
    BY <1>1, <1>2 DEF IInv, TypeOK
  <1>7. Control'
    <2>1. spc'[c] \in StorePlaces(op'[c])
      BY <1>1, <1>6, PlacesAre
    <2> QED
      BY <1>1, <1>4, <1>6, <2>1, OneControl
  <1>8. Snapshots' = Snapshots \ {c}
    BY <1>1, <1>4, <1>6 DEF Snapshots
  <1>9. New'
    <2>1. \A v \in Votes \ pushed : list'[v] = 0
      BY <1>2, <1>3, <1>4 DEF IInv, New
    <2>2. \A v \in Votes \ pushed : \A d \in Snapshots' : todo'[d][v] = 0
      BY <1>6, <1>8 DEF IInv, New, Snapshots
    <2>3. \A d \in Clients : op[d] = "update" => todo'[d] = todo[d]
      BY <1>1, <1>6
    <2> QED
      BY <1>1, <2>1, <2>2, <2>3 DEF IInv, New
  <1>10. ASSUME NEW v \in pushed \ exposed'
         PROVE  /\ v \in pushed \ exposed /\ v \in Votes
                /\ list'[v] \in {list[v], list[v] + todo[c][v]}
                /\ todo[c][v] # 0 =>
                     list'[v] # 0 /\ (v \notin doubled => list'[v] = 1) /\ Snapshots' = {}
    <2>1. v \in pushed \ exposed /\ v \in Votes
      BY <1>2 DEF IInv, TypeOK
    <2>2. todo[c][v] # 0 => list' = both /\ (v \notin doubled => list[v] = 0 /\ todo[c][v] = 1)
      <3>1. todo[c][v] # 0 => list' = both
        BY <1>2, <2>1 DEF Listed
      <3> QED
        BY <1>1, <1>3, <1>4, <2>1, <3>1 DEF IInv, Hands
    <2>3. todo[c][v] # 0 => Snapshots' = {}
      BY <1>4, <1>8, <2>1 DEF IInv, Hands
    <2> QED
      BY <1>2, <1>3, <2>1, <2>2, <2>3
  <1>11. Hands'
    <2> SUFFICES ASSUME NEW v \in pushed \ exposed', NEW d \in Snapshots'
                 PROVE  /\ v \notin doubled => todo'[d][v] <= 1
                        /\ \A e \in Snapshots' : e # d => todo'[d][v] = 0
                        /\ spc'[d] = "push" /\ todo'[d][v] # 0 => list'[v] = 0 \/ v \in doubled
                        /\ spc'[d] = "del" /\ list'[v] # 0 => todo'[d][v] # 0 \/ v \in cut
      BY <1>1 DEF IInv, Hands
    <2>1. d # c /\ d \in Snapshots /\ d \in Clients /\ todo'[d] = todo[d] /\ spc'[d] = spc[d]
      BY <1>6, <1>8 DEF Snapshots
    <2>2. v \in pushed \ exposed /\ list'[v] = list[v]
      BY <1>3, <1>10
    <2> QED
      BY <1>8, <2>1, <2>2 DEF IInv, Hands
  <1>12. EveryVoteOnce'
    <2> SUFFICES ASSUME NEW v \in pushed \ exposed'
                 PROVE  /\ v \notin doubled => list'[v] <= 1
                        /\ list'[v] = 0 => v \in cut \/ \E d \in Snapshots' : todo'[d][v] # 0
      BY <1>1 DEF EveryVoteOnce
    <2>1. CASE todo[c][v] # 0
      BY <1>10, <2>1
    <2>2. CASE todo[c][v] = 0
      <3>1. v \in pushed \ exposed /\ list'[v] = list[v]
        BY <1>3, <1>10, <2>2
      <3>2. \A d \in Snapshots : d # c => d \in Snapshots' /\ todo'[d] = todo[d]
        BY <1>6, <1>8 DEF Snapshots
      <3> QED
        BY <2>2, <3>1, <3>2 DEF IInv, EveryVoteOnce
    <2> QED
      BY <2>1, <2>2
  <1>13. Alone'
    <2>1. SUFFICES ASSUME alone'[c] PROVE AloneRemove(c)'
      BY <1>1, CallIs, OneAlone
    <2>2. alone[c] /\ list' = both /\ spc'[c] = "count"
      BY <1>1, <1>2, <2>1, CallIs DEF IInv, TypeOK
    <2>3. given[c] \cap Listed(todo[c]) = {} /\ list = Nothing
      BY <1>1, <2>2 DEF IInv, Alone, AloneRemove
    <2>4. given[c] \cap Listed(both) = {}
      BY <1>3, <2>3 DEF Listed, Nothing
    <2> QED
      BY <1>1, <1>4, <2>2, <2>4 DEF AloneRemove
  <1>14. After'
    BY <1>1, BusyAfter
  <1> QED
    BY <1>5, <1>7, <1>9, <1>11, <1>12, <1>13, <1>14 DEF IInv

LEMMA ReadAllKeeps == ASSUME IInv, NEW c \in Clients, ReadAll(c) PROVE IInv'
  <1> USE DEF At
  <1>1. /\ op[c] = "clear" /\ spc[c] = "read" /\ (Works \/ Fails(c))
        /\ \/ Works /\ spc' = [spc EXCEPT ![c] = "del"]
           \/ Fails(c) /\ spc' = [spc EXCEPT ![c] = "end"]
        /\ UNCHANGED <<list, cached, score, dims, vector, rated, op, given, vpc, todo, tally, copy,
                       next, ops, cut, exposed, doubled, pushed, last>>
    BY DEF ReadAll, SGoto, storeVars, vectorVars
  <1>2. /\ spc'[c] \in {"del", "end"} /\ \A d \in Clients : d # c => spc'[d] = spc[d]
        /\ next[c] = 1 /\ copy[c] = Zero
    BY <1>1 DEF IInv, TypeOK, Control
  <1>3. TypeOK'
    <2>1. spc' \in [Clients -> {"push", "set", "read", "del", "count", "zero", "score",
                                "dims", "end"}]
      BY <1>1 DEF IInv, TypeOK
    <2>2. faults' \in 0..MaxFaults /\ alone' \in [Clients -> BOOLEAN]
          /\ \A d \in Clients : op[d] = "none" => ~alone'[d]
      BY <1>1, CallIs
    <2> QED
      BY <1>1, <1>2, <2>1, <2>2 DEF IInv, TypeOK
  <1>4. Control'
    <2>1. spc'[c] \in StorePlaces(op'[c])
      BY <1>1, <1>2, PlacesAre
    <2> QED
      BY <1>1, <1>2, <2>1, OneControl
  <1>5. New' /\ Hands' /\ EveryVoteOnce'
    BY <1>1, <1>2, SameVotes
  <1>6. Alone'
    <2>1. SUFFICES ASSUME alone'[c] PROVE AloneClear(c)'
      BY <1>1, CallIs, OneAlone
    <2>2. alone[c] /\ spc'[c] = "del"
      BY <1>1, <2>1, CallIs DEF IInv, TypeOK
    <2> QED
      BY <1>1, <1>2, <2>2 DEF IInv, Alone, AloneClear, SetUpTo
  <1>7. After'
    BY <1>1, BusyAfter
  <1> QED
    BY <1>3, <1>4, <1>5, <1>6, <1>7 DEF IInv

LEMMA DeleteAllKeeps == ASSUME IInv, NEW c \in Clients, DeleteAll(c) PROVE IInv'
  <1> USE DEF At
  <1>1. /\ op[c] = "clear" /\ spc[c] = "del" /\ (Works \/ Fails(c))
        /\ spc' = [spc EXCEPT ![c] = "zero"]
        /\ UNCHANGED <<cached, score, dims, vector, rated, op, given, vpc, todo, tally, copy, next,
                       ops, exposed, doubled, pushed, last>>
    BY DEF DeleteAll, SGoto, vectorVars
  <1>2. \/ Works /\ list' = Nothing /\ cut' = cut \cup Listed(list)
        \/ Fails(c) /\ UNCHANGED <<list, cut>>
    BY DEF DeleteAll
  <1>3. /\ spc'[c] = "zero" /\ \A d \in Clients : d # c => spc'[d] = spc[d]
        /\ next[c] = 1 /\ copy[c] = Zero /\ list' \in {list, Nothing}
        /\ \A v \in Votes : list'[v] \in {list[v], 0}
    BY <1>1, <1>2 DEF IInv, TypeOK, Control, Nothing
  <1>4. TypeOK'
    <2>1. cut' \subseteq Votes /\ list' \in Lists
      BY <1>2, <1>3, ZeroIs DEF IInv, TypeOK, Listed
    <2>2. faults' \in 0..MaxFaults /\ alone' \in [Clients -> BOOLEAN]
          /\ \A d \in Clients : op[d] = "none" => ~alone'[d]
      BY <1>1, CallIs
    <2>3. spc' \in [Clients -> {"push", "set", "read", "del", "count", "zero", "score",
                                "dims", "end"}]
      BY <1>1 DEF IInv, TypeOK
    <2> QED
      BY <1>1, <1>3, <2>1, <2>2, <2>3 DEF IInv, TypeOK
  <1>5. Control'
    <2>1. spc'[c] \in StorePlaces(op'[c])
      BY <1>1, <1>3, PlacesAre
    <2> QED
      BY <1>1, <1>3, <2>1, KindsAre, OneControl
  <1>6. /\ Snapshots' = Snapshots
        /\ \A d \in Snapshots : spc'[d] = spc[d] /\ d \in Clients
    BY <1>1, <1>3 DEF Snapshots
  <1>7. New'
    BY <1>1, <1>3, <1>6 DEF IInv, New
  <1>8. Hands' /\ EveryVoteOnce'
    <2>1. CASE list' = list /\ cut' = cut
      BY <1>1, <1>3, <2>1, SameVotes
    <2>2. CASE list' = Nothing /\ cut' = cut \cup Listed(list)
      <3>1. \A v \in pushed \ exposed : v \in Votes /\ list'[v] = 0
        BY <2>2 DEF IInv, TypeOK, Nothing
      <3>2. Hands'
        BY <1>1, <1>6, <2>2, <3>1 DEF IInv, Hands
      <3>3. ASSUME NEW v \in pushed \ exposed
            PROVE  v \in cut' \/ \E d \in Snapshots : todo[d][v] # 0
        BY <2>2, <3>1 DEF IInv, EveryVoteOnce, Listed
      <3>4. EveryVoteOnce'
        BY <1>1, <1>6, <3>1, <3>3 DEF EveryVoteOnce
      <3> QED
        BY <3>2, <3>4
    <2> QED
      BY <1>2, <2>1, <2>2
  <1>9. Alone'
    <2>1. SUFFICES ASSUME alone'[c] PROVE AloneClear(c)'
      BY <1>1, CallIs, OneAlone
    <2>2. alone[c] /\ list' = Nothing
      BY <1>1, <1>2, <2>1, CallIs
    <2> QED
      BY <1>1, <1>3, <2>2 DEF IInv, Alone, AloneClear, SetUpTo
  <1>10. After'
    BY <1>1, BusyAfter
  <1> QED
    BY <1>4, <1>5, <1>7, <1>8, <1>9, <1>10 DEF IInv

LEMMA ZeroCountKeeps == ASSUME IInv, NEW c \in Clients, ZeroCount(c) PROVE IInv'
  <1> USE DEF At
  <1> DEFINE k == Kinds[next[c]]
  <1>1. /\ op[c] = "clear" /\ spc[c] = "zero" /\ (Works \/ Fails(c))
        /\ cached' = [cached EXCEPT ![k] = 0] \/ (Fails(c) /\ UNCHANGED cached)
        /\ next' = [next EXCEPT ![c] = @ + 1]
        /\ spc' = [spc EXCEPT ![c] = IF next[c] < Len(Kinds) THEN "zero" ELSE "end"]
        /\ UNCHANGED <<list, score, dims, vector, rated, op, given, vpc, todo, tally, copy,
                       ops, cut, exposed, doubled, pushed, last>>
    BY DEF ZeroCount, SGoto, vectorVars
  <1>2. next[c] \in 1..Len(Kinds) /\ k \in KindSet /\ next'[c] = next[c] + 1 /\ copy[c] = Zero
    BY <1>1, KindsAre DEF IInv, TypeOK, Control, KindSet
  <1> HIDE DEF k
  <1>3. cached' \in Counts
    BY <1>1 DEF IInv, TypeOK, Counts
  <1>4. /\ spc'[c] = IF next[c] < Len(Kinds) THEN "zero" ELSE "end"
        /\ \A d \in Clients : d # c => spc'[d] = spc[d] /\ next'[d] = next[d]
    BY <1>1 DEF IInv, TypeOK
  <1>5. TypeOK'
    <2>1. spc' \in [Clients -> {"push", "set", "read", "del", "count", "zero", "score",
                                "dims", "end"}]
      BY <1>1 DEF IInv, TypeOK
    <2>2. next' \in [Clients -> 1..(Len(Kinds) + 1)]
      BY <1>1, <1>2, KindsAre DEF IInv, TypeOK
    <2>3. faults' \in 0..MaxFaults /\ alone' \in [Clients -> BOOLEAN]
          /\ \A d \in Clients : op[d] = "none" => ~alone'[d]
      BY <1>1, CallIs
    <2> QED
      BY <1>1, <1>3, <1>4, <2>1, <2>2, <2>3 DEF IInv, TypeOK
  <1>6. Control'
    <2>1. spc'[c] \in StorePlaces(op'[c])
      BY <1>1, <1>4, PlacesAre
    <2>2. spc'[c] \in {"zero", "end"} /\ (spc'[c] = "zero" => next'[c] <= Len(Kinds))
      BY <1>2, <1>4, KindsAre
    <2> QED
      BY <1>1, <1>2, <1>4, <2>1, <2>2, OneControl
  <1>7. New' /\ Hands' /\ EveryVoteOnce'
    BY <1>1, <1>4, SameVotes
  <1>8. Alone'
    <2>1. SUFFICES ASSUME alone'[c] PROVE AloneClear(c)'
      BY <1>1, CallIs, OneAlone
    <2>2. AloneClear(c) /\ cached' = [cached EXCEPT ![k] = 0]
      BY <1>1, <2>1, CallIs DEF IInv, Alone
    <2>3. SetUpTo(c, Zero)'
      <3> SUFFICES ASSUME NEW j \in 1..next[c] PROVE cached'[Kinds[j]] = Zero[Kinds[j]]
        BY <1>1, <1>2, KindsAre DEF SetUpTo
      <3>1. Kinds[j] \in KindSet
        BY <1>2, KindsAre DEF KindSet
      <3>2. j # next[c] => j \in 1..next[c] - 1
        BY <1>2, KindsAre
      <3>3. j # next[c] => cached[Kinds[j]] = Zero[Kinds[j]]
        BY <2>2, <3>2 DEF AloneClear, SetUpTo
      <3>4. Zero[Kinds[j]] = 0
        BY <3>1 DEF Zero
      <3> QED
        BY <1>1, <1>2, <2>2, <3>1, <3>3, <3>4 DEF k, IInv, TypeOK, Counts
    <2>4. spc'[c] = "end" => next'[c] = Len(Kinds) + 1
      BY <1>2, <1>4, KindsAre
    <2> QED
      BY <1>1, <2>2, <2>3, <2>4 DEF AloneClear
  <1>9. After'
    BY <1>1, BusyAfter
  <1> QED
    BY <1>3, <1>5, <1>6, <1>7, <1>8, <1>9 DEF IInv

LEMMA ScoreKeeps ==
  ASSUME IInv, NEW c \in Clients, StoreScore(c) \/ StoreDimensions(c)
  PROVE  IInv'
  <1> USE DEF At
  <1>1. /\ op[c] = "score" /\ spc[c] \in {"score", "dims"} /\ (Works \/ Fails(c))
        /\ spc' \in {[spc EXCEPT ![c] = "dims"], [spc EXCEPT ![c] = "end"]}
        /\ score' \in {score, c} /\ dims' \in {dims, c}
        /\ UNCHANGED <<list, cached, vector, rated, op, given, vpc, todo, tally, copy,
                       next, ops, cut, exposed, doubled, pushed, last>>
    BY DEF StoreScore, StoreDimensions, SGoto, vectorVars
  <1>2. /\ spc'[c] \in {"dims", "end"} /\ \A d \in Clients : d # c => spc'[d] = spc[d]
        /\ next[c] = 1
    BY <1>1 DEF IInv, TypeOK, Control
  <1>3. TypeOK'
    <2>1. spc' \in [Clients -> {"push", "set", "read", "del", "count", "zero", "score",
                                "dims", "end"}]
      BY <1>1 DEF IInv, TypeOK
    <2>2. faults' \in 0..MaxFaults /\ alone' \in [Clients -> BOOLEAN]
          /\ \A d \in Clients : op[d] = "none" => ~alone'[d]
      BY <1>1, CallIs
    <2> QED
      BY <1>1, <1>2, <2>1, <2>2 DEF IInv, TypeOK
  <1>4. Control'
    <2>1. spc'[c] \in StorePlaces(op'[c])
      BY <1>1, <1>2, PlacesAre
    <2> QED
      BY <1>1, <1>2, <2>1, OneControl
  <1>5. New' /\ Hands' /\ EveryVoteOnce'
    BY <1>1, <1>2, SameVotes
  <1>6. Alone'
    <2>1. SUFFICES ASSUME alone'[c] PROVE AloneScore(c)'
      BY <1>1, CallIs, OneAlone
    <2>2. alone[c] /\ AloneScore(c)
      BY <1>1, <2>1, CallIs DEF IInv, Alone
    <2>3. CASE StoreScore(c)
      <3>1. score' = c /\ spc'[c] = "dims" /\ spc[c] = "score"
        BY <2>1, <2>3, CallIs DEF StoreScore, SGoto, IInv, TypeOK
      <3> QED
        BY <1>1, <2>2, <3>1 DEF AloneScore
    <2>4. CASE StoreDimensions(c)
      <3>1. dims' = c /\ UNCHANGED score /\ spc[c] = "dims"
        BY <2>1, <2>4, CallIs DEF StoreDimensions, SGoto, IInv, TypeOK
      <3> QED
        BY <1>1, <1>2, <2>2, <3>1 DEF AloneScore
    <2> QED
      BY <2>3, <2>4
  <1>7. After'
    BY <1>1, BusyAfter
  <1> QED
    BY <1>3, <1>4, <1>5, <1>6, <1>7 DEF IInv

-----------------------------------------------------------------------------
(* The vector goroutine.                                                   *)

LEMMA CountForVectorKeeps == ASSUME IInv, NEW c \in Clients, CountForVector(c) PROVE IInv'
  <1>1. /\ op[c] = "remove" /\ vpc[c] = "count" /\ (Works \/ Fails(c))
        /\ copy' \in {[copy EXCEPT ![c] = CountOf(list)], [copy EXCEPT ![c] = Zero]}
        /\ vpc' = [vpc EXCEPT ![c] = "write"]
        /\ UNCHANGED <<list, cached, score, dims, vector, rated, op, given, spc, todo, tally,
                       next, ops, cut, exposed, doubled, pushed, last>>
    BY DEF CountForVector, VGoto, storeVars, vectorVars
  <1>2. \A d \in Clients : d # c => vpc'[d] = vpc[d] /\ copy'[d] = copy[d]
    BY <1>1 DEF IInv, TypeOK
  <1>3. TypeOK'
    <2>1. copy' \in [Clients -> Counts]
      <3>1. copy \in [Clients -> Counts] /\ list \in Lists
        BY DEF IInv, TypeOK
      <3>2. CountOf(list) \in Counts /\ Zero \in Counts
        BY <3>1, CountIs, ZeroIs
      <3> QED
        BY <1>1, <3>1, <3>2
    <2>2. vpc' \in [Clients -> {"count", "write", "end"}]
      BY <1>1 DEF IInv, TypeOK
    <2>3. faults' \in 0..MaxFaults /\ alone' \in [Clients -> BOOLEAN]
          /\ \A d \in Clients : op[d] = "none" => ~alone'[d]
      BY <1>1, CallIs
    <2> QED
      BY <1>1, <1>2, <2>1, <2>2, <2>3 DEF IInv, TypeOK
  <1>4. Control'
    <2>1. Control
      BY DEF IInv
    <2> QED
      BY <1>1, <1>2, <2>1 DEF Control
  <1>5. New' /\ Hands' /\ EveryVoteOnce'
    BY <1>1, SameVotes
  <1>6. Alone'
    <2>1. SUFFICES ASSUME alone'[c] PROVE AloneRemove(c)'
      BY <1>1, CallIs, OneAlone
    <2>2. AloneRemove(c)
      BY <1>1, <2>1, CallIs DEF IInv, Alone
    <2> QED
      BY <1>1, <2>2 DEF AloneRemove, SetUpTo
  <1>7. After'
    BY <1>1, BusyAfter
  <1> QED
    BY <1>3, <1>4, <1>5, <1>6, <1>7 DEF IInv

LEMMA WriteVectorKeeps == ASSUME IInv, NEW c \in Clients, WriteVector(c) PROVE IInv'
  <1>1. /\ op[c] # "none" /\ vpc[c] = "write" /\ (Works \/ Fails(c))
        /\ \/ /\ Works
              /\ IF op[c] = "score" THEN rated' = c /\ UNCHANGED vector
                                    ELSE vector' = copy[c] /\ UNCHANGED rated
           \/ Fails(c) /\ UNCHANGED <<vector, rated>>
        /\ vpc' = [vpc EXCEPT ![c] = "end"]
        /\ UNCHANGED <<list, cached, score, dims, op, given, spc, todo, tally, copy,
                       next, ops, cut, exposed, doubled, pushed, last>>
    BY DEF WriteVector, VGoto, storeVars
  <1>2. vpc'[c] = "end" /\ \A d \in Clients : d # c => vpc'[d] = vpc[d]
    BY <1>1 DEF IInv, TypeOK
  <1>3. TypeOK'
    <2>1. vector' \in Counts /\ rated' \in Clients \cup {NoScore}
      BY <1>1 DEF IInv, TypeOK
    <2>2. vpc' \in [Clients -> {"count", "write", "end"}]
      BY <1>1 DEF IInv, TypeOK
    <2>3. faults' \in 0..MaxFaults /\ alone' \in [Clients -> BOOLEAN]
          /\ \A d \in Clients : op[d] = "none" => ~alone'[d]
      BY <1>1, CallIs
    <2> QED
      BY <1>1, <1>2, <2>1, <2>2, <2>3 DEF IInv, TypeOK
  <1>4. Control'
    <2>1. Control
      BY DEF IInv
    <2> QED
      BY <1>1, <1>2, <2>1 DEF Control
  <1>5. New' /\ Hands' /\ EveryVoteOnce'
    BY <1>1, SameVotes
  <1>6. Alone'
    <2>1. SUFFICES ASSUME alone'[c]
                   PROVE  /\ op[c] = "update" => AloneUpdate(c)'
                          /\ op[c] = "remove" => AloneRemove(c)'
                          /\ op[c] = "clear" => AloneClear(c)'
                          /\ op[c] = "score" => AloneScore(c)'
      BY <1>1, CallIs, OneAlone
    <2>2. /\ alone[c]
          /\ IF op[c] = "score" THEN rated' = c ELSE vector' = copy[c]
      BY <1>1, <2>1, CallIs
    <2>3. CASE op[c] = "update"
      <3>1. spc[c] = "end" /\ AloneUpdate(c)
        BY <1>1, <2>2, <2>3 DEF IInv, Alone, Control
      <3>2. vector' = tally[c]
        BY <1>1, <2>2, <2>3, <3>1 DEF AloneUpdate
      <3> QED
        BY <1>1, <1>2, <2>3, <3>1, <3>2 DEF AloneUpdate, SetUpTo
    <2>4. op[c] = "remove" => AloneRemove(c)'
      BY <1>1, <2>2 DEF IInv, Alone, AloneRemove, SetUpTo
    <2>5. CASE op[c] = "clear"
      <3>1. copy[c] = Zero /\ AloneClear(c)
        BY <2>2, <2>5 DEF IInv, Alone, Control
      <3> QED
        BY <1>1, <2>2, <2>5, <3>1 DEF AloneClear, SetUpTo
    <2>6. op[c] = "score" => AloneScore(c)'
      BY <1>1, <2>2 DEF IInv, Alone, AloneScore
    <2> QED
      BY <1>1, <2>3, <2>4, <2>5, <2>6 DEF IInv, TypeOK, Operations
  <1>7. After'
    BY <1>1, BusyAfter
  <1> QED
    BY <1>3, <1>4, <1>5, <1>6, <1>7 DEF IInv

-----------------------------------------------------------------------------
(* The beginning and the end of an operation.                              *)

LEMMA BeginKeeps ==
  ASSUME IInv, NEW c \in Clients, NEW kind \in Operations \ {"none"}, NEW vs \in SUBSET Votes,
         NEW at \in {"push", "read", "score"}, NEW vat \in {"end", "count", "write"},
         Begin(c, kind, vs, at, vat), at \in StorePlaces(kind),
         kind = "update" <=> vat = "end", kind = "update" => vs \cap pushed = {},
         kind = "update" => \A d \in Clients : op[d] = "update" => vs \cap given[d] = {},
         kind = "remove" => at = "read" /\ vs \subseteq cut',
         cut \subseteq cut', cut' \subseteq Votes,
         NEW t \in Lists, todo' = [todo EXCEPT ![c] = t],
         kind = "update" => Listed(t) = vs
  PROVE  IInv'
  <1>1. /\ op[c] = "none" /\ ops < MaxOps /\ ops' = ops + 1 /\ last' = NoOp
        /\ op' = [op EXCEPT ![c] = kind] /\ given' = [given EXCEPT ![c] = vs]
        /\ spc' = [spc EXCEPT ![c] = at] /\ vpc' = [vpc EXCEPT ![c] = vat]
        /\ next' = [next EXCEPT ![c] = 1]
        /\ alone' = [d \in Clients |-> IF d = c THEN Idle ELSE FALSE]
        /\ UNCHANGED <<list, cached, score, dims, vector, rated, tally, copy, faults,
                       exposed, doubled, pushed>>
    BY DEF Begin, storeVars, vectorVars
  <1>2. /\ op'[c] = kind /\ given'[c] = vs /\ spc'[c] = at /\ vpc'[c] = vat /\ next'[c] = 1
        /\ todo'[c] = t /\ op'[c] # "none"
    BY <1>1 DEF IInv, TypeOK
  <1>3. \A d \in Clients : d # c =>
          /\ op'[d] = op[d] /\ given'[d] = given[d] /\ spc'[d] = spc[d] /\ vpc'[d] = vpc[d]
          /\ next'[d] = next[d] /\ todo'[d] = todo[d] /\ copy'[d] = copy[d]
    BY <1>1 DEF IInv, TypeOK
  <1>4. TypeOK'
    <2>1. /\ op' \in [Clients -> Operations] /\ given' \in [Clients -> SUBSET Votes]
          /\ spc' \in [Clients -> {"push", "set", "read", "del", "count", "zero", "score",
                                   "dims", "end"}]
          /\ vpc' \in [Clients -> {"count", "write", "end"}]
      BY <1>1 DEF IInv, TypeOK
    <2>2. /\ todo' \in [Clients -> Lists] /\ next' \in [Clients -> 1..(Len(Kinds) + 1)]
          /\ ops' \in 0..MaxOps
      BY <1>1, KindsAre, FeedbackAssumption DEF IInv, TypeOK
    <2>3. alone' \in [Clients -> BOOLEAN] /\ \A d \in Clients : d # c => ~alone'[d]
      BY <1>1 DEF Idle
    <2>4. last' \in [op : Operations, given : SUBSET Votes, counted : BOOLEAN]
      BY <1>1 DEF NoOp, Operations
    <2>5. \A d \in Clients : op'[d] = "none" => spc'[d] = "end" /\ vpc'[d] = "end" /\ ~alone'[d]
      BY <1>2, <1>3, <2>3 DEF IInv, TypeOK
    <2> QED
      BY <1>1, <2>1, <2>2, <2>3, <2>4, <2>5 DEF IInv, TypeOK
  <1>5. Control'
    <2>1. copy'[c] = Zero
      BY <1>1 DEF IInv, Control
    <2> QED
      BY <1>1, <1>2, <1>3, <2>1, OneControl
  <1>6. Snapshots' = Snapshots /\ \A d \in Snapshots : d \in Clients /\ d # c
    <2>1. c \notin Snapshots /\ c \notin Snapshots'
      BY <1>1, <1>2 DEF Snapshots
    <2>2. \A d \in Clients \ {c} : d \in Snapshots' <=> d \in Snapshots
      BY <1>3 DEF Snapshots
    <2> QED
      BY <2>1, <2>2 DEF Snapshots
  <1>7. New'
    <2>1. \A v \in Votes \ pushed' : list'[v] = 0 /\ \A d \in Snapshots' : todo'[d][v] = 0
      BY <1>1, <1>3, <1>6 DEF IInv, New
    <2>2. ASSUME NEW d \in Clients, op'[d] = "update", NEW v \in Votes, todo'[d][v] # 0
          PROVE  v \in given'[d] \ pushed'
      <3>1. CASE d = c
        BY <1>1, <1>2, <2>2, <3>1 DEF Listed
      <3>2. CASE d # c
        BY <1>1, <1>3, <2>2, <3>2 DEF IInv, New
      <3> QED
        BY <3>1, <3>2
    <2>3. ASSUME NEW d \in Clients, NEW e \in Clients, op'[d] = "update", op'[e] = "update", d # e
          PROVE  given'[d] \cap given'[e] = {}
      <3>1. CASE d # c /\ e # c
        BY <1>3, <2>3, <3>1 DEF IInv, New
      <3>2. CASE d = c
        BY <1>2, <1>3, <2>3, <3>2
      <3>3. CASE e = c
        BY <1>2, <1>3, <2>3, <3>3
      <3> QED
        BY <3>1, <3>2, <3>3
    <2> QED
      BY <2>1, <2>2, <2>3 DEF New
  <1>8. Hands'
    <2>1. \A d \in Clients : op'[d] = "remove" => given'[d] \subseteq cut'
      BY <1>2, <1>3 DEF IInv, Hands
    <2>2. \A d \in Snapshots : todo'[d] = todo[d] /\ spc'[d] = spc[d]
      BY <1>3, <1>6
    <2>3. ASSUME NEW v \in pushed' \ exposed', NEW d \in Snapshots'
          PROVE  /\ v \notin doubled' => todo'[d][v] <= 1
                 /\ \A e \in Snapshots' : e # d => todo'[d][v] = 0
                 /\ spc'[d] = "push" /\ todo'[d][v] # 0 => list'[v] = 0 \/ v \in doubled'
                 /\ spc'[d] = "del" /\ list'[v] # 0 => todo'[d][v] # 0 \/ v \in cut'
      BY <1>1, <1>6, <2>2 DEF IInv, Hands
    <2> QED
      BY <2>1, <2>3 DEF Hands
  <1>9. EveryVoteOnce'
    BY <1>1, <1>3, <1>6 DEF IInv, EveryVoteOnce
  <1>10. Alone'
    <2> SUFFICES ASSUME NEW d \in Clients, alone'[d]
                 PROVE  /\ \A e \in Clients : e # d => op'[e] = "none"
                        /\ op'[d] = "update" => AloneUpdate(d)'
                        /\ op'[d] = "remove" => AloneRemove(d)'
                        /\ op'[d] = "clear" => AloneClear(d)'
                        /\ op'[d] = "score" => AloneScore(d)'
      BY DEF Alone
    <2>1. d = c /\ Idle
      BY <1>1
    <2>2. kind = "update" => at = "push"
      BY PlacesAre
    <2>3. kind = "update" => \A v \in given'[c] : list'[v] # 0 \/ todo'[c][v] # 0
      BY <1>2 DEF Listed
    <2>4. kind = "update" => AloneUpdate(c)'
      BY <1>2, <2>2, <2>3 DEF AloneUpdate
    <2>5. kind = "remove" => AloneRemove(c)'
      BY <1>2 DEF AloneRemove
    <2>6. kind = "clear" => AloneClear(c)'
      <3>1. kind = "clear" => at = "read" /\ vat # "end"
        BY PlacesAre
      <3> QED
        BY <1>2, <3>1 DEF AloneClear, SetUpTo
    <2>7. kind = "score" => AloneScore(c)'
      <3>1. kind = "score" => at = "score" /\ vat # "end"
        BY PlacesAre
      <3> QED
        BY <1>2, <3>1 DEF AloneScore
    <2> QED
      BY <1>2, <1>3, <2>1, <2>4, <2>5, <2>6, <2>7 DEF Idle
  <1>11. After'
    BY <1>1 DEF After, Settled, NoOp
  <1> QED
    BY <1>4, <1>5, <1>7, <1>8, <1>9, <1>10, <1>11 DEF IInv

LEMMA UpdateKeeps ==
  ASSUME IInv, NEW c \in Clients, NEW vs \in SUBSET Votes, Update(c, vs)
  PROVE  IInv'
  <1>1. Each(vs) \in Lists /\ Listed(Each(vs)) = vs
    BY DEF Each, Lists, Listed
  <1>2. /\ Begin(c, "update", vs, "push", "end") /\ cut' = cut /\ cut \subseteq Votes
        /\ todo' = [todo EXCEPT ![c] = Each(vs)]
        /\ \A d \in Clients : op[d] = "update" => vs \cap given[d] = {}
        /\ vs \cap pushed = {}
    BY DEF Update, IInv, TypeOK
  <1> QED
    BY <1>1, <1>2, PlacesAre, BeginKeeps DEF Operations

LEMMA RemoveKeeps ==
  ASSUME IInv, NEW c \in Clients, NEW vs \in SUBSET Votes, Remove(c, vs)
  PROVE  IInv'
  <1>1. /\ Begin(c, "remove", vs, "read", "count") /\ cut' = cut \cup vs /\ cut \subseteq Votes
        /\ todo' = [todo EXCEPT ![c] = Nothing]
    BY DEF Remove, IInv, TypeOK
  <1> QED
    BY <1>1, ZeroIs, PlacesAre, BeginKeeps DEF Operations

LEMMA ClearKeeps == ASSUME IInv, NEW c \in Clients, Clear(c) PROVE IInv'
  <1>1. /\ Begin(c, "clear", {}, "read", "write") /\ cut' = cut /\ cut \subseteq Votes
        /\ todo' = [todo EXCEPT ![c] = Nothing]
    BY DEF Clear, IInv, TypeOK
  <1> QED
    BY <1>1, ZeroIs, PlacesAre, BeginKeeps DEF Operations

LEMMA UpdateScoresKeeps == ASSUME IInv, NEW c \in Clients, UpdateScores(c) PROVE IInv'
  <1>1. /\ Begin(c, "score", {}, "score", "write") /\ cut' = cut /\ cut \subseteq Votes
        /\ todo' = todo /\ op[c] = "none"
    BY DEF UpdateScores, Begin, IInv, TypeOK
  <1>2. todo' = [todo EXCEPT ![c] = Nothing]
    BY <1>1 DEF IInv, Control, TypeOK
  <1> QED
    BY <1>1, <1>2, ZeroIs, PlacesAre, BeginKeeps DEF Operations

\* Where an operation that has run alone leaves the segment.
LEMMA AloneSettles ==
  ASSUME IInv, NEW c \in Clients, alone[c], spc[c] = "end", vpc[c] = "end", op[c] # "none"
  PROVE  /\ op[c] = "update" =>
              cached = CountOf(list) /\ vector = CountOf(list) /\ given[c] \subseteq Listed(list)
         /\ op[c] = "remove" =>
              given[c] \cap Listed(list) = {} /\ (next[c] # 1 => cached = CountOf(list))
         /\ op[c] = "clear" => list = Nothing /\ cached = Zero /\ vector = Zero
         /\ op[c] = "score" => score = dims /\ dims = rated
  <1>1. cached \in Counts /\ CountOf(list) \in Counts /\ Zero \in Counts
    BY CountIs, ZeroIs DEF IInv, TypeOK
  <1>2. ASSUME NEW f \in Counts, next[c] = Len(Kinds) + 1, SetUpTo(c, f) PROVE cached = f
    BY <1>1, <1>2, KindsAre, AllSet DEF SetUpTo
  <1>3. CASE op[c] = "update"
    BY <1>1, <1>2, <1>3 DEF IInv, Alone, AloneUpdate
  <1>4. CASE op[c] = "remove"
    BY <1>1, <1>2, <1>4 DEF IInv, Alone, AloneRemove
  <1>5. CASE op[c] = "clear"
    BY <1>1, <1>2, <1>5 DEF IInv, Alone, AloneClear
  <1>6. CASE op[c] = "score"
    BY <1>6 DEF IInv, Alone, AloneScore
  <1> QED
    BY <1>3, <1>4, <1>5, <1>6

LEMMA ReturnKeeps == ASSUME IInv, NEW c \in Clients, Return(c) PROVE IInv'
  <1>1. /\ op[c] # "none" /\ spc[c] = "end" /\ vpc[c] = "end"
        /\ op' = [op EXCEPT ![c] = "none"] /\ given' = [given EXCEPT ![c] = {}]
        /\ todo' = [todo EXCEPT ![c] = Nothing]
        /\ tally' = [tally EXCEPT ![c] = Zero] /\ copy' = [copy EXCEPT ![c] = Zero]
        /\ next' = [next EXCEPT ![c] = 1] /\ alone' = [alone EXCEPT ![c] = FALSE]
        /\ last' = IF alone[c] THEN [op |-> op[c], given |-> given[c], counted |-> next[c] # 1]
                               ELSE NoOp
        /\ UNCHANGED <<list, cached, score, dims, vector, rated, spc, vpc, ops, faults,
                       cut, exposed, doubled, pushed>>
    BY DEF Return, storeVars, vectorVars, bounds
  <1>2. /\ op'[c] = "none" /\ given'[c] = {} /\ todo'[c] = Nothing /\ copy'[c] = Zero
        /\ next'[c] = 1
    BY <1>1 DEF IInv, TypeOK
  <1>3. \A d \in Clients : d # c =>
          /\ op'[d] = op[d] /\ given'[d] = given[d] /\ next'[d] = next[d]
          /\ todo'[d] = todo[d] /\ copy'[d] = copy[d]
    BY <1>1 DEF IInv, TypeOK
  <1>4. alone' \in [Clients -> BOOLEAN] /\ \A d \in Clients : alone'[d] => alone[d] /\ d # c
    BY <1>1 DEF IInv, TypeOK
  <1>5. TypeOK'
    <2>1. /\ op' \in [Clients -> Operations] /\ given' \in [Clients -> SUBSET Votes]
      BY <1>1 DEF IInv, TypeOK, Operations
    <2>2. /\ todo' \in [Clients -> Lists] /\ next' \in [Clients -> 1..(Len(Kinds) + 1)]
          /\ tally' \in [Clients -> Counts] /\ copy' \in [Clients -> Counts]
      BY <1>1, KindsAre, ZeroIs DEF IInv, TypeOK
    <2>3. last' \in [op : Operations, given : SUBSET Votes, counted : BOOLEAN]
      <3>1. (next[c] # 1) \in BOOLEAN /\ op[c] \in Operations /\ given[c] \in SUBSET Votes
        BY DEF IInv, TypeOK
      <3> QED
        BY <1>1, <3>1 DEF NoOp, Operations
    <2>4. \A d \in Clients : op'[d] = "none" => spc'[d] = "end" /\ vpc'[d] = "end" /\ ~alone'[d]
      BY <1>1, <1>3, <1>4 DEF IInv, TypeOK
    <2> QED
      BY <1>1, <1>4, <2>1, <2>2, <2>3, <2>4 DEF IInv, TypeOK
  <1>6. Control'
    BY <1>1, <1>2, <1>3, PlacesAre, OneControl
  <1>7. Snapshots' = Snapshots /\ \A d \in Snapshots : d \in Clients /\ d # c
    BY <1>1, <1>2, <1>3 DEF Snapshots
  <1>8. New'
    BY <1>1, <1>2, <1>3, <1>7 DEF IInv, New
  <1>9. Hands' /\ EveryVoteOnce'
    <2>1. \A d \in Snapshots : todo'[d] = todo[d]
      BY <1>3, <1>7
    <2>2. Hands'
      BY <1>1, <1>2, <1>3, <1>7, <2>1 DEF IInv, Hands
    <2>3. EveryVoteOnce'
      BY <1>1, <1>7, <2>1 DEF IInv, EveryVoteOnce
    <2> QED
      BY <2>2, <2>3
  <1>10. Alone'
    <2>1. \A d \in Clients : d # c => ~alone[d]
      BY <1>1 DEF IInv, Alone
    <2> QED
      BY <1>4, <2>1 DEF Alone
  <1>11. After'
    <2>1. CASE alone[c]
      <3>1. Idle'
        BY <1>2, <1>3, <2>1 DEF IInv, Alone, Idle
      <3>2. last'.op = op[c] /\ last'.given = given[c] /\ (last'.counted => next[c] # 1)
        BY <1>1, <2>1
      <3>3. Settled'
        BY <1>1, <2>1, <3>2, AloneSettles DEF Settled
      <3> QED
        BY <3>1, <3>3 DEF After
    <2>2. CASE ~alone[c]
      BY <1>1, <2>2 DEF After, Settled, NoOp
    <2> QED
      BY <2>1, <2>2
  <1> QED
    BY <1>5, <1>6, <1>8, <1>9, <1>10, <1>11 DEF IInv

-----------------------------------------------------------------------------
LEMMA InitIInv == Init => IInv
  <1> SUFFICES ASSUME Init PROVE IInv
    OBVIOUS
  <1> USE DEF Init
  <1>1. TypeOK
    BY ZeroIs, KindsAre, FeedbackAssumption DEF TypeOK, NoOp, Operations
  <1>2. Control
    BY PlacesAre DEF Control
  <1>3. New /\ Hands /\ EveryVoteOnce
    BY DEF New, Hands, EveryVoteOnce, Snapshots, Nothing
  <1>4. Alone /\ After
    BY DEF Alone, After, Settled, NoOp
  <1> QED
    BY <1>1, <1>2, <1>3, <1>4 DEF IInv

LEMMA StepIInv == IInv /\ [Next]_vars => IInv'
  <1> SUFFICES ASSUME IInv, [Next]_vars PROVE IInv'
    OBVIOUS
  <1>1. ASSUME NEW c \in Clients, NEW vs \in SUBSET Votes, Update(c, vs) \/ Remove(c, vs)
        PROVE  IInv'
    BY <1>1, UpdateKeeps, RemoveKeeps
  <1>2. ASSUME NEW c \in Clients, Clear(c) \/ UpdateScores(c) PROVE IInv'
    BY <1>2, ClearKeeps, UpdateScoresKeeps
  <1>3. ASSUME NEW c \in Clients, Step(c) PROVE IInv'
    BY <1>3, PushVoteKeeps, CountKeeps, SetCountKeeps, ReadListKeeps, DeleteListKeeps,
       PushBackKeeps, ReadAllKeeps, DeleteAllKeeps, ZeroCountKeeps, ScoreKeeps,
       CountForVectorKeeps, WriteVectorKeeps, ReturnKeeps DEF Step
  <1>4. CASE UNCHANGED vars
    <2>1. UNCHANGED <<list, cached, score, dims, vector, rated, op, given, spc, vpc, todo, tally,
                      copy, next, ops, faults, cut, exposed, doubled, pushed, alone, last>>
      BY <1>4 DEF vars, storeVars, vectorVars, goVars, bounds, history
    <2>2. Snapshots' = Snapshots /\ Idle' = Idle
      BY <2>1 DEF Snapshots, Idle
    <2>3. TypeOK' /\ Control'
      BY <2>1 DEF IInv, TypeOK, Control
    <2>4. New' /\ Hands' /\ EveryVoteOnce'
      BY <2>1, <2>2 DEF IInv, New, Hands, EveryVoteOnce
    <2>5. Alone'
      BY <2>1 DEF IInv, Alone, AloneUpdate, AloneRemove, AloneClear, AloneScore, SetUpTo
    <2>6. After'
      BY <2>1, <2>2 DEF IInv, After, Settled
    <2> QED
      BY <2>3, <2>4, <2>5, <2>6 DEF IInv
  <1> QED
    BY <1>1, <1>2, <1>3, <1>4 DEF Next

\* The invariant holds in every state, for any number of clients, votes,
\* operations and failed calls (graphrag/vote.go, hit.go, score.go).
THEOREM Invariance == Spec => []IInv
  BY InitIInv, StepIInv, PTL DEF Spec

\* Every variable keeps its type, and who runs no operation has no goroutine.
THEOREM TypeCorrect == Spec => []TypeOK
  <1>1. IInv => TypeOK
    BY DEF IInv
  <1> QED
    BY <1>1, Invariance, PTL

\* A stored vote is listed until it is removed, through every rewriting of the
\* list by a removal, and never twice but after a removal that kept it and whose
\* Del of the list failed, unless two operations had their hands on it
\* (vote.go:252-298, hit.go:210-256).
THEOREM NoVoteLostOrDoubled == Spec => []EveryVoteOnce
  <1>1. IInv => EveryVoteOnce
    BY DEF IInv
  <1> QED
    BY <1>1, Invariance, PTL

\* Whatever was left behind, an operation that runs alone and without a failed
\* call makes list, counts and copies agree (vote.go:98-196, score.go:75-125).
THEOREM AloneRepairs == Spec => []Settled
  <1>1. IInv => Settled
    BY DEF IInv, After
  <1> QED
    BY <1>1, Invariance, PTL
=============================================================================
