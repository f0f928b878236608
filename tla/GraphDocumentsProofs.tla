------------------------- MODULE GraphDocumentsProofs -------------------------
(***************************************************************************)
(* Proofs about GraphDocuments for any clients, segments, entities and     *)
(* copies, and any number of operations and failed calls.                  *)
(*                                                                         *)
(* A segment that is not torn has at most one client working on it, and    *)
(* Progress says how much of it is in the graph at each of the client's    *)
(* calls; one that nobody works on is as the properties say (Final).  What *)
(* others do to nodes it is listed in does not count (Untouched): either   *)
(* they leave its place in the sources alone or the pair is stale.         *)
(***************************************************************************)
EXTENDS GraphDocuments, TLAPS

Jobs == [op: {"none", "file", "add", "update", "remove", "docs", "bydoc"},
         segs: SUBSET Segments, rest: Seq(Segments), want: [Segments -> SUBSET Entities],
         find: SUBSET Entities, create: SUBSET Entities,
         held: SUBSET [node: Nodes, src: SUBSET Segments], bad: BOOLEAN]

Saving == {"find", "readSources", "writeSources"}
Places == Saving \cup {"idle", "origin", "extract", "vectorAdd", "keys", "vectorDelete", "query",
                       "rewrite", "dropKeys", "filterDelete", "dropOrigin", "listKeys"}

Types ==
  /\ origin \in BOOLEAN /\ chunks \subseteq Segments /\ keys \subseteq Segments
  /\ text \in [Segments -> SUBSET Entities] /\ graph \in [Nodes -> SUBSET Segments]
  /\ pc \in [Clients -> Places] /\ job \in [Clients -> Jobs]
  /\ ops \in 0..MaxOps /\ faults \in 0..MaxFaults
  /\ torn \subseteq Segments /\ left \in [Segments -> SUBSET Entities]
  /\ stale \subseteq Segments \X Entities

SetOf(q) == {q[i] : i \in DOMAIN q}
Distinct(q) == \A i, j \in DOMAIN q : q[i] = q[j] => i = j

\* Where the client of an operation may stand.
PlacesOf(kind) ==
  CASE kind = "none" -> {"idle"}
    [] kind = "file" -> Saving \cup {"origin", "extract", "vectorAdd"}
    [] kind = "add" -> Saving \cup {"extract", "vectorAdd", "keys"}
    [] kind = "update" -> Saving \cup {"query", "rewrite", "extract", "vectorAdd", "keys"}
    [] kind = "remove" -> {"vectorDelete", "query", "rewrite", "dropKeys"}
    [] kind = "docs" -> {"filterDelete", "dropOrigin", "listKeys", "dropKeys"}
    [] kind = "bydoc" -> {"filterDelete", "listKeys", "dropKeys"}

\* The entities of the segment being saved that do not list it yet.
Pending(j) == j.find \cup j.create \cup {h.node[1] : h \in j.held}

\* The entities that list segment s by now: some of those extracted, and what
\* earlier texts have left.
Saved(j, s) == left[s] \cup (IF s \notin SetOf(j.rest) THEN j.want[s]
                             ELSE IF s = Head(j.rest) THEN j.want[s] \ Pending(j) ELSE {})

\* What a client knows at each place.
Shape(here, j) ==
  /\ here \in PlacesOf(j.op)
  /\ (j.op \in {"none", "docs", "bydoc"} /\ here # "dropKeys") => j.segs = {}
  /\ j.op \in {"docs", "bydoc"} => ~j.bad
  /\ Distinct(j.rest) /\ SetOf(j.rest) \subseteq j.segs
  /\ here \in {"origin", "extract"} \/ (here \in {"query", "rewrite"} /\ j.op = "update") =>
       SetOf(j.rest) = j.segs /\ j.segs # {} /\ ~j.bad
  /\ here \in {"origin", "extract", "vectorDelete", "query", "rewrite"} => j.create = {}
  /\ here \in {"origin", "extract", "vectorDelete", "query"} => j.held = {}
  /\ here \in {"vectorDelete", "query", "rewrite"} => \E s \in Segments : j.segs = {s}
  /\ here \in Saving =>
       /\ j.rest # <<>>
       /\ j.find \cup j.create \subseteq j.want[Head(j.rest)] /\ j.find \cap j.create = {}
       /\ \A h \in j.held : /\ h.node[1] \in j.want[Head(j.rest)] \ (j.find \cup j.create)
                            /\ \A k \in j.held : h = k
  /\ here = "find" => j.held = {}
  /\ here = "writeSources" => \A h \in j.held : h.src # {}
  /\ here \in {"vectorAdd", "keys"} => j.rest = <<>>

On(c, s) == s \in job[c].segs /\ job[c].op \in {"file", "add", "update", "remove"}

\* What client c has done to segment s, on which it works alone and without a
\* failure so far.
Progress(c, s) ==
  LET j == job[c] IN
  /\ pc[c] \in {"origin", "extract"} => Settled(s, left[s])
  /\ pc[c] \in Saving => Settled(s, Saved(j, s))
  /\ pc[c] = "vectorAdd" => Settled(s, j.want[s] \cup left[s])
  /\ pc[c] = "keys" => s \in chunks /\ Settled(s, text[s] \cup left[s])
  /\ j.op \in {"update", "remove"} => left[s] = {}
  /\ pc[c] \in {"query", "rewrite", "dropKeys"} /\ j.op = "remove" => s \notin chunks
  /\ pc[c] = "rewrite" => \A n \in Nodes :
       s \in graph[n] => <<s, n[1]>> \in stale \/ \E h \in j.held : h.node = n
  /\ pc[c] = "dropKeys" => Settled(s, {})

\* A segment nobody works on: all of it is there, or nothing.
Final(s) ==
  /\ s \in chunks => Settled(s, text[s] \cup left[s])
  /\ s \notin chunks => s \notin keys /\ left[s] = {} /\ Settled(s, {})

State(s) ==
  /\ \A c, d \in Clients : On(c, s) /\ On(d, s) => c = d
  /\ \A c \in Clients : On(c, s) => Progress(c, s)
  /\ (\A c \in Clients : ~On(c, s)) => Final(s)

IInv ==
  /\ Types
  /\ \A c \in Clients : Shape(pc[c], job[c]) /\ (job[c].bad => job[c].segs \subseteq torn)
  /\ \A s \in Segments \ torn : State(s)
-----------------------------------------------------------------------------
(* Lists and places.                                                       *)

LEMMA PlacesAre ==
  /\ PlacesOf("none") = {"idle"}
  /\ PlacesOf("file") = Saving \cup {"origin", "extract", "vectorAdd"}
  /\ PlacesOf("add") = Saving \cup {"extract", "vectorAdd", "keys"}
  /\ PlacesOf("update") = Saving \cup {"query", "rewrite", "extract", "vectorAdd", "keys"}
  /\ PlacesOf("remove") = {"vectorDelete", "query", "rewrite", "dropKeys"}
  /\ PlacesOf("docs") = {"filterDelete", "dropOrigin", "listKeys", "dropKeys"}
  /\ PlacesOf("bydoc") = {"filterDelete", "listKeys", "dropKeys"}
  BY DEF PlacesOf

LEMMA EmptyIs == ASSUME NEW S PROVE <<>> \in Seq(S) /\ SetOf(<<>>) = {} /\ Distinct(<<>>)
  BY DEF SetOf, Distinct

LEMMA HeadIs ==
  ASSUME NEW S, NEW q \in Seq(S), q # <<>>
  PROVE  Head(q) \in SetOf(q) /\ Head(q) \in S /\ SetOf(q) \subseteq S
  BY DEF SetOf

\* What is left of a list without repetitions is all but its head.
LEMMA TailIs ==
  ASSUME NEW S, NEW q \in Seq(S), q # <<>>, Distinct(q)
  PROVE  /\ Tail(q) \in Seq(S) /\ Distinct(Tail(q))
         /\ SetOf(Tail(q)) = SetOf(q) \ {Head(q)}
         /\ Tail(q) = <<>> => SetOf(q) = {Head(q)}
  <1> DEFINE t == Tail(q)
  <1>1. /\ t \in Seq(S) /\ Len(q) \in Nat \ {0} /\ Len(t) = Len(q) - 1
        /\ DOMAIN t = 1..(Len(q) - 1) /\ DOMAIN q = 1..Len(q) /\ Head(q) = q[1]
        /\ \A i \in DOMAIN t : t[i] = q[i + 1]
    OBVIOUS
  <1> HIDE DEF t
  <1>2. Distinct(t)
    BY <1>1 DEF Distinct
  <1>3. SetOf(t) = SetOf(q) \ {Head(q)}
    <2>1. ASSUME NEW i \in DOMAIN t PROVE t[i] \in SetOf(q) /\ t[i] # Head(q)
      BY <1>1 DEF SetOf, Distinct
    <2>2. ASSUME NEW i \in DOMAIN q, q[i] # Head(q) PROVE q[i] \in SetOf(t)
      <3>1. i - 1 \in DOMAIN t /\ t[i - 1] = q[i]
        BY <1>1, <2>2
      <3> QED
        BY <3>1 DEF SetOf
    <2> QED
      BY <2>1, <2>2 DEF SetOf
  <1>4. t = <<>> => SetOf(q) = {Head(q)}
    <2>1. t = <<>> => SetOf(t) = {}
      BY EmptyIs
    <2>2. Head(q) \in SetOf(q)
      BY HeadIs
    <2> QED
      BY <1>3, <2>1, <2>2
  <1> QED
    BY <1>1, <1>2, <1>3, <1>4 DEF t

LEMMA ListsAre ==
  ASSUME NEW q \in Lists
  PROVE  /\ q \in Seq(Segments) /\ q # <<>> /\ Distinct(q)
         /\ {q[i] : i \in DOMAIN q} = SetOf(q)
         /\ SetOf(q) \subseteq Segments /\ SetOf(q) # {}
  <1>1. CASE \E s \in Segments : q = <<s>>
    BY <1>1 DEF SetOf, Distinct
  <1>2. CASE \E s, t \in Segments : s # t /\ q = <<s, t>>
    <2>1. PICK s \in Segments, t \in Segments : s # t /\ q = <<s, t>>
      BY <1>2
    <2>2. DOMAIN q = {1, 2} /\ q[1] = s /\ q[2] = t /\ q \in Seq(Segments) /\ q # <<>>
      BY <2>1
    <2> QED
      BY <2>1, <2>2 DEF SetOf, Distinct
  <1>3. \/ \E s \in Segments : q = <<s>>
        \/ \E s, t \in Segments : s # t /\ q = <<s, t>>
    BY DEF Lists
  <1> QED
    BY <1>1, <1>2, <1>3

-----------------------------------------------------------------------------
(* What a step leaves alone.                                               *)

\* Whether an entity lists s does not change, or becomes stale.
Same(s) == \A e \in Entities :
  \/ <<s, e>> \in stale'
  \/ <<s, e>> \notin stale /\ (e \in Sourced(s)' <=> e \in Sourced(s))

Untouched(s) ==
  /\ Same(s) /\ (s \in chunks' <=> s \in chunks) /\ text'[s] = text[s] /\ left'[s] = left[s]
  /\ s \in keys' => s \in keys
  /\ \A n \in Nodes : s \in graph'[n] => s \in graph[n] \/ <<s, n[1]>> \in stale'
  /\ \A e \in Entities : <<s, e>> \in stale => <<s, e>> \in stale'

LEMMA SameIs ==
  ASSUME NEW s \in Segments,
         \A e \in Entities : <<s, e>> \in stale => <<s, e>> \in stale',
         \A n \in Nodes : <<s, n[1]>> \in stale' \/ (s \in graph'[n] <=> s \in graph[n])
  PROVE  Same(s)
  <1> SUFFICES ASSUME NEW e \in Entities, <<s, e>> \notin stale'
               PROVE  <<s, e>> \notin stale /\ (e \in Sourced(s)' <=> e \in Sourced(s))
    BY DEF Same
  <1>1. \A n \in Nodes : n[1] = e => (s \in graph'[n] <=> s \in graph[n])
    OBVIOUS
  <1> QED
    BY <1>1 DEF Sourced

LEMMA UnchangedIs ==
  ASSUME NEW s \in Segments, UNCHANGED <<chunks, text, graph, keys, left, stale>>
  PROVE  Untouched(s)
  BY SameIs DEF Untouched

LEMMA ProgressStays ==
  ASSUME NEW s \in Segments, NEW c \in Clients, Untouched(s), Progress(c, s),
         pc'[c] = pc[c], job'[c] = job[c]
  PROVE  Progress(c, s)'
  <1> DEFINE E == Saved(job[c], s)
             L == left[s]
             T == text[s] \cup left[s]
             W == job[c].want[s] \cup left[s]
  <1>1. L' = L /\ T' = T /\ W' = W
    BY DEF Untouched
  <1> HIDE DEF L, T, W
  <1>2. /\ Settled(s, L) => Settled(s, L)'
        /\ Settled(s, T) => Settled(s, T)'
        /\ Settled(s, W) => Settled(s, W)'
    BY <1>1 DEF Untouched, Same, Settled
  <1>3. Settled(s, {}) => Settled(s, {})'
    BY DEF Untouched, Same, Settled
  <1>4. Settled(s, text[s] \cup left[s]) => Settled(s, text[s] \cup left[s])'
    BY <1>2 DEF T
  <1>5. /\ Settled(s, job[c].want[s] \cup left[s]) => Settled(s, job[c].want[s] \cup left[s])'
        /\ Settled(s, left[s]) => Settled(s, left[s])'
    BY <1>2 DEF W, L
  <1>6. Settled(s, E) => Settled(s, E)'
    <2>1. E' = E
      BY DEF Saved, Pending, Untouched
    <2> HIDE DEF E
    <2> QED
      BY <2>1 DEF Untouched, Same, Settled
  <1>7. pc[c] = "rewrite" => \A n \in Nodes :
          s \in graph'[n] => <<s, n[1]>> \in stale' \/ \E h \in job[c].held : h.node = n
    BY DEF Untouched, Progress, Nodes
  <1> QED
    BY <1>3, <1>4, <1>5, <1>6, <1>7 DEF Untouched, Progress

LEMMA FinalStays ==
  ASSUME NEW s \in Segments, Untouched(s), Final(s)
  PROVE  Final(s)'
  <1> DEFINE T == text[s] \cup left[s]
  <1>1. T' = T
    BY DEF Untouched
  <1> HIDE DEF T
  <1>2. (Settled(s, T) => Settled(s, T)') /\ (Settled(s, {}) => Settled(s, {})')
    BY <1>1 DEF Untouched, Same, Settled
  <1> QED
    BY <1>2 DEF Untouched, Final, T

\* What a client that saves the entities of its segments has to show.
LEMMA SavingIs ==
  ASSUME NEW s \in Segments, NEW c \in Clients, pc'[c] \in Saving, NEW E,
         Saved(job'[c], s) = E, left' = left, job'[c].op \in {"update", "remove"} => left[s] = {},
         \A e \in Entities : <<s, e>> \in stale' \/ (e \in Sourced(s)' <=> e \in E)
  PROVE  Progress(c, s)'
  <1>1. Saved(job[c], s)' = E
    BY DEF Saved, Pending
  <1>2. Settled(s, Saved(job[c], s))'
    BY <1>1 DEF Settled
  <1> QED
    BY <1>2 DEF Progress, Saving

\* A step of one client: what it owes each segment.
Owes(c, s) ==
  IF On(c, s) THEN (On(c, s)' /\ Progress(c, s)') \/ (~On(c, s)' /\ Final(s)')
              ELSE ~On(c, s)' /\ Untouched(s)

Others(c) == \A d \in Clients : d # c => pc'[d] = pc[d] /\ job'[d] = job[d]

LEMMA StateStays ==
  ASSUME NEW c \in Clients, Others(c), NEW s \in Segments, State(s), Owes(c, s)
  PROVE  State(s)'
  <1>1. \A d \in Clients : d # c => (On(d, s)' <=> On(d, s))
    BY DEF Others, On
  <1>2. CASE On(c, s)
    <2>1. \A d \in Clients : d # c => ~On(d, s)'
      BY <1>1, <1>2 DEF State
    <2>2. (On(c, s)' /\ Progress(c, s)') \/ (~On(c, s)' /\ Final(s)')
      BY <1>2 DEF Owes
    <2>3. \A d \in Clients : On(d, s)' => d = c
      BY <2>1
    <2> QED
      BY <2>2, <2>3 DEF State
  <1>3. CASE ~On(c, s)
    <2>1. ~On(c, s)' /\ Untouched(s)
      BY <1>3 DEF Owes
    <2>2. \A d \in Clients : On(d, s)' <=> On(d, s)
      BY <1>1, <1>3, <2>1
    <2>3. ASSUME NEW d \in Clients, On(d, s)' PROVE Progress(d, s)'
      <3>1. d # c /\ On(d, s) /\ Progress(d, s)
        BY <2>1, <2>2, <2>3 DEF State
      <3> QED
        BY <2>1, <3>1, ProgressStays DEF Others
    <2>4. (\A d \in Clients : ~On(d, s)') => Final(s)'
      BY <2>1, <2>2, FinalStays DEF State
    <2> QED
      BY <2>2, <2>3, <2>4 DEF State
  <1> QED
    BY <1>2, <1>3

\* A step of an operation under way, from its effect on the client, the torn
\* segments and the others.
LEMMA StepKeeps ==
  ASSUME IInv, NEW c \in Clients, Others(c), torn \subseteq torn', Types',
         Shape(pc'[c], job'[c]), job'[c].bad => job'[c].segs \subseteq torn',
         \A s \in Segments \ torn' : Owes(c, s)
  PROVE  IInv'
  <1>1. ASSUME NEW d \in Clients
        PROVE  Shape(pc'[d], job'[d]) /\ (job'[d].bad => job'[d].segs \subseteq torn')
    <2>1. CASE d = c
      BY <2>1
    <2>2. CASE d # c
      BY <2>2 DEF Others, IInv
    <2> QED
      BY <2>1, <2>2
  <1>2. ASSUME NEW s \in Segments \ torn' PROVE State(s)'
    BY StateStays DEF IInv
  <1> QED
    BY <1>1, <1>2 DEF IInv

LEMMA GotoIs ==
  ASSUME Types, NEW c \in Clients, NEW there \in Places, NEW j \in Jobs, Goto(c, there, j)
  PROVE  /\ pc' \in [Clients -> Places] /\ job' \in [Clients -> Jobs]
         /\ pc'[c] = there /\ job'[c] = j /\ Others(c)
  BY DEF Types, Goto, Others

LEMMA MoveIs ==
  ASSUME Types, NEW c \in Clients, NEW there \in Places, Move(c, there)
  PROVE  /\ pc' \in [Clients -> Places] /\ job' \in [Clients -> Jobs]
         /\ pc'[c] = there /\ job'[c] = job[c] /\ Others(c)
  BY DEF Types, Move, Others

LEMMA NoJobIs == NoJob \in Jobs /\ NoJob.segs = {} /\ NoJob.op = "none" /\ ~NoJob.bad
                 /\ Shape("idle", NoJob)
  <1>1. NoJob \in Jobs
    BY EmptyIs DEF NoJob, Jobs
  <1>2. Shape("idle", NoJob)
    BY EmptyIs, PlacesAre DEF NoJob, Shape, Saving
  <1> QED
    BY <1>1, <1>2 DEF NoJob

LEMMA EndIs ==
  ASSUME Types, NEW c \in Clients, End(c)
  PROVE  /\ pc' \in [Clients -> Places] /\ job' \in [Clients -> Jobs] /\ Others(c)
         /\ pc'[c] = "idle" /\ job'[c] = NoJob /\ Shape(pc'[c], job'[c]) /\ ~job'[c].bad
         /\ \A s \in Segments : ~On(c, s)'
  BY GotoIs, NoJobIs DEF End, Places, On

\* A call that fails tears the segments of its operation.
LEMMA CallIs ==
  ASSUME IInv, NEW c \in Clients, Works \/ Fails(c)
  PROVE  /\ torn \subseteq torn' /\ torn' \subseteq Segments /\ faults' \in 0..MaxFaults
         /\ Fails(c) => job[c].segs \subseteq torn'
  BY DocumentAssumption DEF IInv, Types, Jobs, Works, Fails

\* A step that ends an operation with its segments torn, or on none.
LEMMA TornOwes ==
  ASSUME NEW c \in Clients, NEW s \in Segments, s \notin job[c].segs \/ ~On(c, s),
         Untouched(s), s \notin job'[c].segs \/ ~On(c, s)'
  PROVE  Owes(c, s)
  BY DEF On, Owes
-----------------------------------------------------------------------------
(* The operations begin.                                                   *)

LEMMA BeginKeeps ==
  ASSUME IInv, NEW c \in Clients, NEW list, NEW there \in Places,
         NEW kind \in {"file", "add", "update", "remove", "docs", "bydoc"},
         Begin(c, kind, list, there),
         CASE kind \in {"file", "add"} -> /\ list \in Lists /\ there \in {"origin", "extract"}
                                          /\ kind = "add" \/ \A s \in SetOf(list) : s \notin chunks
           [] kind = "update" -> there = "query" /\ \E s \in Segments : list = <<s>>
           [] kind = "remove" -> there = "vectorDelete" /\ \E s \in Segments : list = <<s>>
           [] OTHER -> there = "filterDelete" /\ list = <<>>,
         there \in PlacesOf(kind)
  PROVE  IInv'
  <1> DEFINE segs == SetOf(list)
             shared == {s \in segs : Busy(s)}
             clean == IF kind \in {"update", "remove"} THEN segs \ shared ELSE {}
             over == IF kind = "add" THEN segs \cap chunks ELSE {}
             j == [NoJob EXCEPT !.op = kind, !.segs = segs, !.rest = list]
  <1>1. /\ kind \in {"file", "add"} => /\ list \in Lists /\ there \in {"origin", "extract"}
                                       /\ kind = "add" \/ \A s \in segs : s \notin chunks
        /\ kind = "update" => there = "query"
        /\ kind = "remove" => there = "vectorDelete"
        /\ kind \in {"update", "remove"} => \E s \in Segments : list = <<s>>
        /\ kind \in {"docs", "bydoc"} => there = "filterDelete" /\ list = <<>>
    OBVIOUS
  <1>2. /\ list \in Seq(Segments) /\ Distinct(list) /\ segs \subseteq Segments
        /\ {list[i] : i \in DOMAIN list} = segs
        /\ kind \notin {"docs", "bydoc"} => segs # {}
        /\ kind \in {"docs", "bydoc"} => segs = {}
        /\ kind \in {"update", "remove"} => \E s \in Segments : segs = {s}
    <2>1. CASE kind \in {"file", "add"}
      BY <1>1, <2>1, ListsAre
    <2>2. CASE kind \in {"update", "remove"}
      <3>1. PICK s \in Segments : list = <<s>>
        BY <1>1, <2>2
      <3>2. list \in Lists /\ SetOf(list) = {s}
        BY <3>1 DEF Lists, SetOf
      <3> QED
        BY <2>2, <3>2, ListsAre
    <2>3. CASE kind \in {"docs", "bydoc"}
      <3>1. list = <<>> /\ segs = {}
        BY <1>1, <2>3, EmptyIs
      <3> QED
        BY <2>3, <3>1, EmptyIs
    <2> QED
      BY <2>1, <2>2, <2>3
  <1>3. /\ pc[c] = "idle" /\ ops < MaxOps /\ ops' = ops + 1 /\ Goto(c, there, j)
        /\ UNCHANGED <<origin, chunks, text, graph, keys, faults>>
        /\ torn' = (torn \ clean) \cup shared /\ stale' = {p \in stale : p[1] \notin clean}
        /\ left' = [s \in Segments |-> IF s \in clean THEN {}
                                       ELSE IF s \in over THEN left[s] \cup text[s] ELSE left[s]]
    BY <1>2 DEF Begin, backends
  <1>4. /\ j \in Jobs /\ j.op = kind /\ j.segs = segs /\ j.rest = list /\ ~j.bad
        /\ j.find = {} /\ j.create = {} /\ j.held = {}
    BY <1>2, NoJobIs DEF NoJob, Jobs
  <1>5. /\ clean \subseteq segs /\ shared \subseteq segs
        /\ kind \in {"file", "add", "docs", "bydoc"} => clean = {}
        /\ kind \in {"update", "remove"} => clean = segs \ shared
        /\ over = IF kind = "add" THEN segs \cap chunks ELSE {}
    OBVIOUS
  <1> HIDE DEF j, clean, over
  <1>6. /\ pc' \in [Clients -> Places] /\ job' \in [Clients -> Jobs]
        /\ pc'[c] = there /\ job'[c] = j /\ Others(c)
    BY <1>3, <1>4, GotoIs DEF IInv
  <1>7. Types'
    <2>1. ops' \in 0..MaxOps
      BY <1>3, DocumentAssumption DEF IInv, Types
    <2>2. torn' \subseteq Segments /\ stale' \subseteq Segments \X Entities
      BY <1>2, <1>3, <1>5 DEF IInv, Types
    <2>3. left' \in [Segments -> SUBSET Entities]
      BY <1>3 DEF IInv, Types
    <2> QED
      BY <1>3, <1>6, <2>1, <2>2, <2>3 DEF IInv, Types
  <1>8. Shape(there, j)
    <2>1. there \notin Saving \cup {"vectorAdd", "keys"} /\ j.op = kind
      BY <1>1, <1>4 DEF Saving
    <2>2. there \in {"origin", "extract"} \/ (there \in {"query", "rewrite"} /\ j.op = "update") =>
            SetOf(j.rest) = j.segs /\ j.segs # {} /\ ~j.bad
      BY <1>1, <1>2, <1>4
    <2>3. there \in {"vectorDelete", "query", "rewrite"} => \E s \in Segments : j.segs = {s}
      BY <1>1, <1>2, <1>4
    <2>4. j.op \in {"none", "docs", "bydoc"} => j.segs = {}
      BY <1>2, <1>4
    <2>5. j.op \in {"docs", "bydoc"} => ~j.bad
      BY <1>4
    <2>6. Distinct(j.rest) /\ SetOf(j.rest) \subseteq j.segs /\ there \in PlacesOf(j.op)
      BY <1>2, <1>4
    <2> QED
      BY <1>4, <2>1, <2>2, <2>3, <2>4, <2>5, <2>6 DEF Shape, Saving
  <1>9. ASSUME NEW d \in Clients
        PROVE  Shape(pc'[d], job'[d]) /\ (job'[d].bad => job'[d].segs \subseteq torn')
    <2>1. CASE d = c
      BY <1>4, <1>6, <1>8, <2>1
    <2>2. CASE d # c
      <3>1. Shape(pc'[d], job'[d]) /\ (job[d].bad => job[d].segs \subseteq torn) /\ job'[d] = job[d]
        BY <1>6, <2>2 DEF IInv, Others
      <3>2. job[d].segs \cap clean = {}
        BY DEF clean, Busy
      <3> QED
        BY <1>3, <3>1, <3>2
    <2> QED
      BY <2>1, <2>2
  <1>10. job[c].op = "none" /\ job[c].segs = {}
    <2>1. job[c].op \in {"none", "file", "add", "update", "remove", "docs", "bydoc"}
      BY DEF IInv, Types, Jobs
    <2>2. Shape("idle", job[c])
      BY <1>3 DEF IInv
    <2> QED
      BY <2>1, <2>2, PlacesAre DEF Shape, Saving
  <1>11. ASSUME NEW s \in Segments \ torn', s \notin segs PROVE State(s)'
    <2>1. State(s)
      BY <1>3, <1>5, <1>11 DEF IInv
    <2>2. ~On(c, s) /\ ~On(c, s)'
      BY <1>4, <1>6, <1>10, <1>11 DEF On
    <2>3. \A e \in Entities : <<s, e>> \in stale' <=> <<s, e>> \in stale
      BY <1>3, <1>5, <1>11
    <2>4. Untouched(s)
      <3>1. left'[s] = left[s]
        BY <1>3, <1>5, <1>11
      <3> QED
        BY <1>3, <2>3, <3>1, SameIs DEF Untouched
    <2> QED
      BY <1>6, <2>1, <2>2, <2>4, StateStays DEF Owes
  <1>12. ASSUME NEW s \in Segments \ torn', s \in segs PROVE State(s)'
    <2>1. \A d \in Clients : ~On(d, s)
      BY <1>3, <1>12 DEF Busy, On
    <2>2. /\ \A d \in Clients : On(d, s)' => d = c
          /\ kind \in {"file", "add", "update", "remove"} /\ On(c, s)'
      <3>1. kind \in {"file", "add", "update", "remove"}
        BY <1>2, <1>12
      <3>2. \A d \in Clients : d # c => ~On(d, s)'
        BY <1>6, <2>1 DEF On, Others
      <3> QED
        BY <1>4, <1>6, <1>12, <3>1, <3>2 DEF On
    <2>3. Progress(c, s)'
      <3>1. CASE kind \in {"file", "add"}
        <4>1. Final(s) /\ stale' = stale
          BY <1>3, <1>5, <1>12, <2>1, <3>1 DEF IInv, State
        <4>2. left'[s] = IF s \in over THEN left[s] \cup text[s] ELSE left[s]
          BY <1>3, <1>5, <3>1
        <4>3. IF s \in over THEN s \in chunks ELSE s \notin chunks
          BY <1>1, <1>5, <1>12, <3>1
        <4> DEFINE L == left'[s]
        <4>4. Settled(s, L)
          <5>1. CASE s \in chunks
            BY <4>1, <4>2, <4>3, <5>1 DEF Final, Settled
          <5>2. CASE s \notin chunks
            BY <4>1, <4>2, <4>3, <5>2 DEF Final
          <5> QED
            BY <5>1, <5>2
        <4>5. Settled(s, left[s])'
          BY <1>3, <4>1, <4>4 DEF Settled, Sourced
        <4> QED
          BY <1>1, <1>4, <1>6, <3>1, <4>5 DEF Progress, Saving
      <3>2. CASE kind \in {"update", "remove"}
        <4>1. s \in clean
          BY <1>3, <1>5, <1>12, <3>2
        <4>2. left'[s] = {}
          BY <1>3, <4>1
        <4> QED
          BY <1>1, <1>4, <1>6, <3>2, <4>2 DEF Progress, Saving
      <3> QED
        BY <2>2, <3>1, <3>2
    <2> QED
      BY <2>2, <2>3 DEF State
  <1> QED
    BY <1>7, <1>9, <1>11, <1>12 DEF IInv

LEMMA BeginsKeep ==
  ASSUME IInv, NEW c \in Clients,
         BeginFile(c) \/ BeginAdd(c) \/ BeginUpdate(c) \/ BeginRemove(c) \/ BeginRemoveAll(c)
  PROVE  IInv'
  <1>1. CASE BeginFile(c)
    <2>1. PICK list \in Lists : (\A i \in DOMAIN list : list[i] \notin chunks)
                                /\ Begin(c, "file", list, "origin")
      BY <1>1 DEF BeginFile
    <2> QED
      BY <2>1, PlacesAre, BeginKeeps DEF SetOf, Places
  <1>2. CASE BeginAdd(c)
    <2>1. PICK list \in Lists : Begin(c, "add", list, "extract")
      BY <1>2 DEF BeginAdd
    <2> QED
      BY <2>1, PlacesAre, BeginKeeps DEF SetOf, Places
  <1>3. CASE BeginUpdate(c)
    <2>1. PICK s \in Segments : Begin(c, "update", <<s>>, "query")
      BY <1>3 DEF BeginUpdate
    <2> QED
      BY <2>1, PlacesAre, BeginKeeps DEF Places
  <1>4. CASE BeginRemove(c)
    <2>1. PICK s \in Segments : Begin(c, "remove", <<s>>, "vectorDelete")
      BY <1>4 DEF BeginRemove
    <2> QED
      BY <2>1, PlacesAre, BeginKeeps DEF Places
  <1>5. CASE BeginRemoveAll(c)
    <2>1. PICK kind \in {"docs", "bydoc"} : Begin(c, kind, <<>>, "filterDelete")
      BY <1>5 DEF BeginRemoveAll
    <2> QED
      BY <2>1, PlacesAre, BeginKeeps DEF Places
  <1> QED
    BY <1>1, <1>2, <1>3, <1>4, <1>5

-----------------------------------------------------------------------------
(* Steps that only move a client, and those that fail.                     *)

\* What holds of a client under way.
LEMMA HereIs ==
  ASSUME IInv, NEW c \in Clients
  PROVE  /\ Types /\ job[c] \in Jobs /\ job[c].segs \subseteq Segments
         /\ Shape(pc[c], job[c]) /\ (job[c].bad => job[c].segs \subseteq torn)
         /\ \A s \in Segments \ torn : On(c, s) => Progress(c, s)
  BY DEF IInv, Types, Jobs, State

\* The segments of an operation are torn by a step that does nothing else to them.
LEMMA TearKeeps ==
  ASSUME IInv, NEW c \in Clients, Others(c),
         torn' = torn \cup job[c].segs, faults' \in 0..MaxFaults,
         UNCHANGED <<origin, chunks, text, graph, keys, left, stale, ops>>,
         pc' \in [Clients -> Places], job' \in [Clients -> Jobs],
         Shape(pc'[c], job'[c]), job'[c].segs \subseteq job[c].segs
  PROVE  IInv'
  <1>1. Types' /\ torn \subseteq torn' /\ job[c].segs \subseteq torn'
    BY HereIs DEF Types
  <1>2. ASSUME NEW s \in Segments \ torn' PROVE Owes(c, s)
    <2>1. s \notin job[c].segs /\ s \notin job'[c].segs
      BY <1>1
    <2>2. Untouched(s)
      BY UnchangedIs
    <2> QED
      BY <2>1, <2>2, TornOwes
  <1> QED
    BY <1>1, <1>2, StepKeeps

\* A step that reads only.
LEMMA QuietKeeps ==
  ASSUME IInv, NEW c \in Clients, Others(c), origin' \in BOOLEAN,
         UNCHANGED <<chunks, text, graph, keys, left, stale, ops, faults, torn>>,
         pc' \in [Clients -> Places], job' \in [Clients -> Jobs],
         Shape(pc'[c], job'[c]), job'[c].bad => job'[c].segs \subseteq torn,
         \A s \in Segments \ torn : On(c, s)' <=> On(c, s),
         \A s \in Segments \ torn : On(c, s) => Progress(c, s)'
  PROVE  IInv'
  <1>1. Types' /\ torn \subseteq torn'
    BY HereIs DEF Types
  <1>2. ASSUME NEW s \in Segments \ torn' PROVE Owes(c, s)
    <2>1. Untouched(s)
      BY UnchangedIs
    <2> QED
      BY <2>1 DEF Owes
  <1> QED
    BY <1>1, <1>2, StepKeeps

LEMMA FailIs ==
  ASSUME IInv, NEW c \in Clients, Fails(c)
  PROVE  torn' = torn \cup job[c].segs /\ faults' \in 0..MaxFaults
  BY CallIs DEF Fails

LEMMA GiveUpKeeps ==
  ASSUME IInv, NEW c \in Clients, Fails(c), End(c),
         UNCHANGED <<origin, chunks, text, graph, keys, left, stale, ops>>
  PROVE  IInv'
  <1>1. job'[c].segs = {}
    BY EndIs, NoJobIs, HereIs
  <1> QED
    BY <1>1, EndIs, FailIs, HereIs, TearKeeps

LEMMA FailMoveKeeps ==
  ASSUME IInv, NEW c \in Clients, NEW there \in Places, Fails(c), Move(c, there),
         Shape(there, job[c]), UNCHANGED <<origin, chunks, text, graph, keys, left, stale, ops>>
  PROVE  IInv'
  <1>1. job'[c] = job[c] /\ pc'[c] = there /\ Shape(pc'[c], job'[c])
    BY MoveIs, HereIs
  <1> QED
    BY <1>1, MoveIs, FailIs, HereIs, TearKeeps

\* The next extraction result, the embedding or the end.
LEMMA NextIs ==
  ASSUME Types, NEW c \in Clients, NEW j \in Jobs, NextResult(c, j),
         j.op \in {"file", "add", "update"},
         j.rest # <<>>, Distinct(j.rest), SetOf(j.rest) \subseteq j.segs
  PROVE  /\ pc' \in [Clients -> Places] /\ job' \in [Clients -> Jobs] /\ Others(c)
         /\ Shape(pc'[c], job'[c])
         /\ \/ j.bad /\ job'[c] = NoJob
            \/ /\ job'[c].segs = j.segs /\ job'[c].op = j.op /\ job'[c].bad = j.bad
               /\ job'[c].want = j.want /\ job'[c].rest = Tail(j.rest)
               /\ \/ /\ pc'[c] = "find" /\ Tail(j.rest) # <<>>
                     /\ job'[c].find = j.want[Head(Tail(j.rest))]
                     /\ job'[c].create = {} /\ job'[c].held = {}
                  \/ pc'[c] = "vectorAdd" /\ Tail(j.rest) = <<>>
  <1> DEFINE r == Tail(j.rest)
             k == [j EXCEPT !.rest = Tail(@), !.create = {}, !.held = {}, !.find = {}]
             m == [k EXCEPT !.find = k.want[Head(k.rest)]]
  <1>1. j.rest \in Seq(Segments) /\ j.want \in [Segments -> SUBSET Entities]
    BY DEF Jobs
  <1>2. r \in Seq(Segments) /\ Distinct(r) /\ SetOf(r) \subseteq j.segs
    BY <1>1, TailIs
  <1>3. /\ k \in Jobs /\ k.rest = r /\ k.find = {} /\ k.create = {} /\ k.held = {}
        /\ k.segs = j.segs /\ k.op = j.op /\ k.bad = j.bad /\ k.want = j.want
    BY <1>2 DEF Jobs
  <1>4. r # <<>> => /\ m \in Jobs /\ m.rest = r /\ m.create = {} /\ m.held = {}
                    /\ m.find = j.want[Head(r)] /\ m.segs = j.segs /\ m.op = j.op
                    /\ m.bad = j.bad /\ m.want = j.want
    <2> SUFFICES ASSUME r # <<>> PROVE m \in Jobs /\ m.rest = r /\ m.create = {} /\ m.held = {}
                    /\ m.find = j.want[Head(r)] /\ m.segs = j.segs /\ m.op = j.op
                    /\ m.bad = j.bad /\ m.want = j.want
      OBVIOUS
    <2>1. Head(r) \in Segments /\ k.want[Head(k.rest)] \subseteq Entities
      BY <1>1, <1>2, <1>3, HeadIs
    <2> QED
      BY <1>2, <1>3, <2>1 DEF Jobs
  <1>5. IF r # <<>> THEN Goto(c, "find", m)
        ELSE IF j.bad THEN End(c) ELSE Goto(c, "vectorAdd", k)
    <2>1. IF k.rest # <<>> THEN Goto(c, "find", m)
          ELSE IF k.bad THEN End(c) ELSE Goto(c, "vectorAdd", k)
      BY Zenon DEF NextResult
    <2> QED
      BY <1>3, <2>1, Zenon
  <1> HIDE DEF r, k, m
  <1>6. CASE r # <<>>
    <2>1. /\ pc' \in [Clients -> Places] /\ job' \in [Clients -> Jobs] /\ Others(c)
          /\ pc'[c] = "find" /\ job'[c] = m
      BY <1>4, <1>5, <1>6, GotoIs DEF Places, Saving
    <2>2. Shape("find", m)
      BY <1>2, <1>4, <1>6, PlacesAre DEF Shape, Saving
    <2> QED
      BY <1>4, <1>6, <2>1, <2>2 DEF r
  <1>7. CASE r = <<>> /\ j.bad
    BY <1>5, <1>7, EndIs
  <1>8. CASE r = <<>> /\ ~j.bad
    <2>1. /\ pc' \in [Clients -> Places] /\ job' \in [Clients -> Jobs] /\ Others(c)
          /\ pc'[c] = "vectorAdd" /\ job'[c] = k
      BY <1>3, <1>5, <1>8, GotoIs DEF Places
    <2>2. Shape("vectorAdd", k)
      BY <1>2, <1>3, <1>8, PlacesAre DEF Shape, Saving
    <2> QED
      BY <1>3, <1>8, <2>1, <2>2 DEF r
  <1> QED
    BY <1>6, <1>7, <1>8

\* A result that was not saved.
LEMMA SkipKeeps ==
  ASSUME IInv, NEW c \in Clients, pc[c] \in Saving, SkipResult(c),
         torn' = torn \cup job[c].segs, faults' \in 0..MaxFaults,
         UNCHANGED <<origin, chunks, text, graph, keys, left, stale, ops>>
  PROVE  IInv'
  <1> DEFINE j == [job[c] EXCEPT !.bad = TRUE]
  <1>1. /\ j \in Jobs /\ j.op = job[c].op /\ j.rest = job[c].rest /\ j.segs = job[c].segs /\ j.bad
    BY HereIs DEF Jobs
  <1>2. NextResult(c, j)
    BY DEF SkipResult
  <1> HIDE DEF j
  <1>3. /\ job[c].op \in {"file", "add", "update"}
        /\ job[c].rest # <<>> /\ Distinct(job[c].rest) /\ SetOf(job[c].rest) \subseteq job[c].segs
    <2>1. job[c].op \in {"none", "file", "add", "update", "remove", "docs", "bydoc"}
      BY HereIs DEF Jobs
    <2> QED
      BY <2>1, HereIs, PlacesAre DEF Shape, Saving
  <1>4. /\ pc' \in [Clients -> Places] /\ job' \in [Clients -> Jobs] /\ Others(c)
        /\ Shape(pc'[c], job'[c]) /\ (job'[c] = NoJob \/ job'[c].segs = j.segs)
    BY <1>1, <1>2, <1>3, NextIs, HereIs
  <1>5. job'[c].segs \subseteq job[c].segs
    BY <1>1, <1>4, NoJobIs
  <1> QED
    BY <1>4, <1>5, TearKeeps

-----------------------------------------------------------------------------
(* Adding.                                                                 *)

LEMMA StoreOriginKeeps ==
  ASSUME IInv, NEW c \in Clients, StoreOrigin(c)
  PROVE  IInv'
  <1>1. /\ pc[c] = "origin" /\ Move(c, "extract") /\ ops' = ops
        /\ UNCHANGED <<chunks, text, graph, keys, left, stale>>
        /\ (Works /\ origin' = TRUE) \/ (Fails(c) /\ UNCHANGED origin)
    BY DEF StoreOrigin, At
  <1>2. /\ pc' \in [Clients -> Places] /\ job' \in [Clients -> Jobs] /\ Others(c)
        /\ pc'[c] = "extract" /\ job'[c] = job[c]
    BY <1>1, MoveIs, HereIs DEF Places
  <1>3. Shape("extract", job[c])
    <2>1. Shape("origin", job[c]) /\ job[c].op \in {"none", "file", "add", "update", "remove", "docs", "bydoc"}
      BY <1>1, HereIs DEF Jobs
    <2> QED
      BY <2>1, PlacesAre DEF Shape, Saving
  <1>4. CASE Fails(c) /\ UNCHANGED origin
    BY <1>1, <1>3, <1>4, FailMoveKeeps DEF Places
  <1>5. CASE Works /\ origin' = TRUE
    <2>1. ASSUME NEW s \in Segments \ torn, On(c, s) PROVE Progress(c, s)'
      <3>1. Settled(s, left[s]) /\ Settled(s, left[s])'
        BY <1>1, <2>1, HereIs DEF Progress, Settled, Sourced
      <3>2. job'[c].op \in {"update", "remove"} => left'[s] = {}
        BY <1>1, <1>2, <2>1, HereIs DEF Progress
      <3> QED
        BY <1>2, <3>1, <3>2 DEF Progress, Saving
    <2>2. \A s \in Segments : On(c, s)' <=> On(c, s)
      BY <1>2 DEF On
    <2> QED
      BY <1>1, <1>2, <1>3, <1>5, <2>1, <2>2, HereIs, QuietKeeps DEF Works
  <1> QED
    BY <1>1, <1>4, <1>5

LEMMA ExtractKeeps ==
  ASSUME IInv, NEW c \in Clients, ExtractDocuments(c)
  PROVE  IInv'
  <1>1. /\ pc[c] = "extract" /\ ops' = ops
        /\ UNCHANGED <<origin, chunks, text, graph, keys, left, stale>>
    BY DEF ExtractDocuments, At, backends
  <1>2. CASE GiveUp(c)
    BY <1>1, <1>2, GiveUpKeeps DEF GiveUp
  <1>3. ASSUME Works, NEW w \in [job[c].segs -> SUBSET Entities],
               Goto(c, "find", [job[c] EXCEPT
                 !.want = [s \in Segments |-> IF s \in job[c].segs THEN w[s] ELSE {}],
                 !.find = w[Head(job[c].rest)]])
        PROVE  IInv'
    <2> DEFINE want == [s \in Segments |-> IF s \in job[c].segs THEN w[s] ELSE {}]
               j == [job[c] EXCEPT !.want = want, !.find = w[Head(job[c].rest)]]
               s0 == Head(job[c].rest)
    <2>1. /\ Shape("extract", job[c]) /\ job[c] \in Jobs
          /\ SetOf(job[c].rest) = job[c].segs /\ job[c].segs # {} /\ ~job[c].bad
      BY <1>1, HereIs DEF Shape
    <2>2. /\ job[c].rest \in Seq(Segments) /\ job[c].rest # <<>> /\ s0 \in job[c].segs
      <3>1. job[c].rest \in Seq(Segments)
        BY <2>1 DEF Jobs
      <3>2. job[c].rest # <<>>
        BY <2>1, EmptyIs
      <3> QED
        BY <2>1, <3>1, <3>2, HeadIs
    <2>3. want \in [Segments -> SUBSET Entities] /\ w[s0] \subseteq Entities
          /\ \A s \in job[c].segs : want[s] = w[s]
      BY <2>2, HereIs
    <2>4. /\ j \in Jobs /\ j.op = job[c].op /\ j.segs = job[c].segs /\ j.rest = job[c].rest
          /\ j.want = want /\ j.find = want[s0] /\ j.bad = job[c].bad
          /\ j.create = job[c].create /\ j.held = job[c].held
      BY <2>1, <2>2, <2>3 DEF Jobs
    <2>5. Goto(c, "find", j)
      BY <1>3
    <2> HIDE DEF j, want, s0
    <2>6. j.create = {} /\ j.held = {}
      BY <1>1, <2>1, <2>4 DEF Shape
    <2>7. /\ pc' \in [Clients -> Places] /\ job' \in [Clients -> Jobs] /\ Others(c)
          /\ pc'[c] = "find" /\ job'[c] = j
      BY <2>4, <2>5, GotoIs, HereIs DEF Places, Saving
    <2>8. Shape("find", j)
      <3>1. j.op \in {"file", "add", "update"}
        BY <1>1, <2>1, <2>4, PlacesAre DEF Shape, Saving, Jobs
      <3> QED
        BY <2>1, <2>2, <2>4, <2>6, <3>1, PlacesAre DEF Shape, Saving, s0
    <2>9. \A s \in Segments : On(c, s)' <=> On(c, s)
      BY <2>4, <2>7 DEF On
    <2>10. ASSUME NEW s \in Segments \ torn, On(c, s) PROVE Progress(c, s)'
      <3>1. /\ Settled(s, left[s]) /\ s \in job[c].segs
            /\ job'[c].op \in {"update", "remove"} => left[s] = {}
        BY <1>1, <2>4, <2>7, <2>10, HereIs DEF Progress, On
      <3>2. Pending(j) = want[s0]
        BY <2>4, <2>6 DEF Pending
      <3>3. Saved(job'[c], s) = left[s]
        BY <2>1, <2>4, <2>7, <3>1, <3>2 DEF s0, Saved
      <3> DEFINE L == left[s]
      <3>4. Saved(job'[c], s) = L /\ Settled(s, L)
        BY <3>1, <3>3
      <3> HIDE DEF L
      <3>5. \A e \in Entities : <<s, e>> \in stale' \/ (e \in Sourced(s)' <=> e \in L)
        BY <1>1, <3>4 DEF Settled, Sourced
      <3> QED
        BY <1>1, <2>7, <3>1, <3>4, <3>5, SavingIs DEF Saving
    <2> QED
      BY <1>1, <1>3, <2>1, <2>4, <2>7, <2>8, <2>9, <2>10, HereIs, QuietKeeps DEF Works, Types
  <1> QED
    BY <1>2, <1>3 DEF ExtractDocuments

-----------------------------------------------------------------------------
(* The entities of one segment.                                            *)

LEMMA SavingHere ==
  ASSUME IInv, NEW c \in Clients, pc[c] \in Saving
  PROVE  /\ Shape(pc[c], job[c]) /\ job[c] \in Jobs
         /\ job[c].op \in {"file", "add", "update"}
         /\ job[c].rest \in Seq(Segments) /\ job[c].rest # <<>> /\ Distinct(job[c].rest)
         /\ Head(job[c].rest) \in SetOf(job[c].rest) /\ SetOf(job[c].rest) \subseteq job[c].segs
         /\ job[c].segs \subseteq Segments /\ Head(job[c].rest) \in Segments
         /\ job[c].want \in [Segments -> SUBSET Entities]
  <1>1. Shape(pc[c], job[c]) /\ job[c] \in Jobs
    BY HereIs
  <1>2. /\ job[c].op \in {"none", "file", "add", "update", "remove", "docs", "bydoc"}
        /\ job[c].rest \in Seq(Segments) /\ job[c].segs \subseteq Segments
        /\ job[c].want \in [Segments -> SUBSET Entities]
    BY <1>1 DEF Jobs
  <1>3. job[c].rest # <<>> /\ Distinct(job[c].rest) /\ SetOf(job[c].rest) \subseteq job[c].segs
    BY <1>1 DEF Shape
  <1> QED
    BY <1>1, <1>2, <1>3, HeadIs, PlacesAre DEF Shape, Saving

\* A step that reads for the segment being saved.
LEMMA SavesQuietly ==
  ASSUME IInv, NEW c \in Clients, pc[c] \in Saving, Works,
         NEW there \in Saving, NEW j \in Jobs, Goto(c, there, j), Shape(there, j),
         UNCHANGED <<origin, chunks, text, graph, keys, left, stale, ops>>,
         j.op = job[c].op, j.segs = job[c].segs, j.rest = job[c].rest,
         j.want = job[c].want, j.bad = job[c].bad, Pending(j) = Pending(job[c])
  PROVE  IInv'
  <1>1. /\ pc' \in [Clients -> Places] /\ job' \in [Clients -> Jobs] /\ Others(c)
        /\ pc'[c] = there /\ job'[c] = j
    BY GotoIs, HereIs DEF Places
  <1>2. ASSUME NEW s \in Segments \ torn, On(c, s) PROVE Progress(c, s)'
    <2>1. /\ Settled(s, Saved(job[c], s))
          /\ job'[c].op \in {"update", "remove"} => left[s] = {}
      BY <1>1, <1>2, HereIs DEF Progress
    <2>2. Saved(job'[c], s) = Saved(job[c], s)
      BY <1>1 DEF Saved
    <2> DEFINE E == Saved(job[c], s)
    <2> HIDE DEF E
    <2>3. Saved(job'[c], s) = E /\ Settled(s, E)
      BY <2>1, <2>2 DEF E
    <2>4. \A e \in Entities : <<s, e>> \in stale' \/ (e \in Sourced(s)' <=> e \in E)
      BY <2>3 DEF Settled, Sourced
    <2> QED
      BY <1>1, <2>1, <2>3, <2>4, SavingIs
  <1>3. \A s \in Segments : On(c, s)' <=> On(c, s)
    BY <1>1 DEF On
  <1> QED
    BY <1>1, <1>2, <1>3, HereIs, QuietKeeps DEF Works, Types

LEMMA FindKeeps ==
  ASSUME IInv, NEW c \in Clients, FindExisting(c)
  PROVE  IInv'
  <1>1. /\ pc[c] = "find" /\ pc[c] \in Saving /\ ops' = ops
        /\ UNCHANGED <<origin, chunks, text, graph, keys, left, stale>>
    BY DEF FindExisting, At, backends, Saving
  <1>2. /\ Shape("find", job[c]) /\ job[c].held = {} /\ job[c].create \subseteq Entities
        /\ job[c].find \cap job[c].create = {}
        /\ job[c].find \cup job[c].create \subseteq job[c].want[Head(job[c].rest)]
    BY <1>1, SavingHere DEF Shape, Jobs
  <1>3. CASE Fails(c) /\ SkipResult(c)
    BY <1>1, <1>3, FailIs, SkipKeeps
  <1>4. ASSUME NEW e \in job[c].find, Works,
               Goto(c, "find", [[job[c] EXCEPT !.find = @ \ {e}] EXCEPT !.create = @ \cup {e}])
        PROVE  IInv'
    <2> DEFINE j == [[job[c] EXCEPT !.find = @ \ {e}] EXCEPT !.create = @ \cup {e}]
    <2>1. /\ j \in Jobs /\ j.op = job[c].op /\ j.segs = job[c].segs /\ j.rest = job[c].rest
          /\ j.want = job[c].want /\ j.bad = job[c].bad /\ j.held = job[c].held
          /\ j.find = job[c].find \ {e} /\ j.create = job[c].create \cup {e}
      BY SavingHere, <1>1 DEF Jobs
    <2>2. Goto(c, "find", j)
      BY <1>4
    <2> HIDE DEF j
    <2>3. Pending(j) = Pending(job[c])
      BY <2>1 DEF Pending
    <2>4. Shape("find", j)
      BY <1>2, <2>1 DEF Shape, Saving
    <2> QED
      BY <1>1, <1>4, <2>1, <2>2, <2>3, <2>4, SavesQuietly DEF Saving
  <1>5. ASSUME NEW e \in job[c].find, NEW n \in Exists(e), Works,
               Goto(c, "readSources", [[job[c] EXCEPT !.find = @ \ {e}]
                                         EXCEPT !.held = {[node |-> n, src |-> {}]}])
        PROVE  IInv'
    <2> DEFINE h == [node |-> n, src |-> {}]
               j == [[job[c] EXCEPT !.find = @ \ {e}] EXCEPT !.held = {h}]
    <2>1. n \in Nodes /\ n[1] = e /\ h \in [node: Nodes, src: SUBSET Segments] /\ h.node = n
      BY DEF Exists
    <2>2. Goto(c, "readSources", j)
      BY <1>5
    <2> HIDE DEF h
    <2>3. /\ j \in Jobs /\ j.op = job[c].op /\ j.segs = job[c].segs /\ j.rest = job[c].rest
          /\ j.want = job[c].want /\ j.bad = job[c].bad /\ j.held = {h}
          /\ j.find = job[c].find \ {e} /\ j.create = job[c].create
      BY SavingHere, <1>1, <2>1 DEF Jobs
    <2> HIDE DEF j
    <2>4. Pending(j) = Pending(job[c])
      BY <1>2, <2>1, <2>3 DEF Pending
    <2>5. Shape("readSources", j)
      <3>1. j.op \in {"file", "add", "update"} /\ j.rest # <<>>
        BY <1>1, <2>3, SavingHere
      <3>2. \A k \in j.held : /\ k.node[1] \in j.want[Head(j.rest)] \ (j.find \cup j.create)
                              /\ \A i \in j.held : k = i
        BY <1>2, <2>1, <2>3
      <3> QED
        BY <1>2, <2>3, <3>1, <3>2, PlacesAre DEF Shape, Saving
    <2> QED
      BY <1>1, <1>5, <2>2, <2>3, <2>4, <2>5, SavesQuietly DEF Saving
  <1> QED
    BY <1>3, <1>4, <1>5 DEF FindExisting

LEMMA ReadKeeps ==
  ASSUME IInv, NEW c \in Clients, ReadSources(c)
  PROVE  IInv'
  <1>1. /\ pc[c] = "readSources" /\ pc[c] \in Saving /\ ops' = ops
        /\ UNCHANGED <<origin, chunks, text, graph, keys, left, stale>>
    BY DEF ReadSources, At, backends, Saving
  <1>2. CASE Fails(c) /\ SkipResult(c)
    BY <1>1, <1>2, FailIs, SkipKeeps
  <1>3. CASE UNCHANGED faults /\ torn' = torn \cup job[c].segs /\ SkipResult(c)
    BY <1>1, <1>3, SkipKeeps DEF IInv, Types
  <1>4. ASSUME NEW h \in job[c].held, Works, graph[h.node] # {},
               Goto(c, "writeSources", [job[c] EXCEPT !.held = {[h EXCEPT !.src = graph[h.node]]}])
        PROVE  IInv'
    <2> DEFINE k == [h EXCEPT !.src = graph[h.node]]
               j == [job[c] EXCEPT !.held = {k}]
    <2>1. h \in [node: Nodes, src: SUBSET Segments] /\ \A i \in job[c].held : i = h
      BY <1>1, SavingHere DEF Jobs, Shape
    <2>2. k \in [node: Nodes, src: SUBSET Segments] /\ k.node = h.node /\ k.src = graph[h.node]
      BY <2>1, HereIs DEF Types
    <2>3. Goto(c, "writeSources", j)
      BY <1>4
    <2> HIDE DEF k
    <2>4. /\ j \in Jobs /\ j.op = job[c].op /\ j.segs = job[c].segs /\ j.rest = job[c].rest
          /\ j.want = job[c].want /\ j.bad = job[c].bad /\ j.held = {k}
          /\ j.find = job[c].find /\ j.create = job[c].create
      BY SavingHere, <1>1, <2>2 DEF Jobs
    <2> HIDE DEF j
    <2>5. Pending(j) = Pending(job[c])
      BY <1>4, <2>1, <2>2, <2>4 DEF Pending
    <2>6. Shape("writeSources", j)
      <3>1. Shape("readSources", job[c]) /\ j.op \in {"file", "add", "update"}
        BY <1>1, <2>4, SavingHere
      <3>2. \A m \in j.held : /\ m.node[1] \in j.want[Head(j.rest)] \ (j.find \cup j.create)
                              /\ (\A i \in j.held : m = i) /\ m.src # {}
        BY <1>4, <2>2, <2>4, <3>1 DEF Shape, Saving
      <3> QED
        BY <2>4, <3>1, <3>2, PlacesAre DEF Shape, Saving
    <2> QED
      BY <1>1, <1>4, <2>3, <2>4, <2>5, <2>6, SavesQuietly DEF Saving
  <1> QED
    BY <1>2, <1>3, <1>4 DEF ReadSources

\* An upsert that should leave segment s where it is, does so or makes the pair stale.
LEMMA UpsertIs ==
  ASSUME Types, NEW n \in Nodes, NEW sources \in SUBSET Segments, NEW right \in SUBSET Segments,
         Upsert(n, sources, right), UNCHANGED <<chunks, text, keys, left>>
  PROVE  /\ graph' \in [Nodes -> SUBSET Segments] /\ stale' \subseteq Segments \X Entities
         /\ graph'[n] = sources /\ stale \subseteq stale'
         /\ \A m \in Nodes : m # n => graph'[m] = graph[m]
         /\ \A s \in Segments, e \in Entities : e # n[1] => (<<s, e>> \in stale' <=> <<s, e>> \in stale)
         /\ \A s \in Segments : (s \in right <=> s \in graph[n]) => Untouched(s)
  <1> DEFINE D == (sources \ right) \cup (right \ sources)
  <1>1. graph' = [graph EXCEPT ![n] = sources] /\ stale' = stale \cup {<<s, n[1]>> : s \in D}
    BY DEF Upsert
  <1>2. /\ D \subseteq Segments /\ n[1] \in Entities /\ graph \in [Nodes -> SUBSET Segments]
        /\ stale \subseteq Segments \X Entities /\ \A s \in D : <<s, n[1]>> \in stale'
    BY <1>1 DEF Nodes, Types
  <1>3. graph'[n] = sources /\ \A m \in Nodes : m # n => graph'[m] = graph[m]
    BY <1>1, <1>2
  <1>4. /\ graph' \in [Nodes -> SUBSET Segments] /\ stale' \subseteq Segments \X Entities
        /\ stale \subseteq stale'
        /\ \A s \in Segments, e \in Entities : e # n[1] => (<<s, e>> \in stale' <=> <<s, e>> \in stale)
    BY <1>1, <1>2
  <1>5. ASSUME NEW s \in Segments, s \in right <=> s \in graph[n] PROVE Untouched(s)
    <2>1. <<s, n[1]>> \in stale' \/ (s \in sources <=> s \in graph[n])
      BY <1>2, <1>5
    <2>2. \A m \in Nodes : <<s, m[1]>> \in stale' \/ (s \in graph'[m] <=> s \in graph[m])
      BY <1>3, <2>1
    <2>3. \A e \in Entities : <<s, e>> \in stale => <<s, e>> \in stale'
      BY <1>4
    <2>4. Same(s)
      BY <2>2, <2>3, SameIs
    <2> QED
      BY <2>2, <2>3, <2>4 DEF Untouched
  <1> QED
    BY <1>3, <1>4, <1>5

LEMMA WriteKeeps ==
  ASSUME IInv, NEW c \in Clients, WriteSources(c)
  PROVE  IInv'
  <1>1. /\ pc[c] = "writeSources" /\ pc[c] \in Saving /\ ops' = ops
        /\ UNCHANGED <<origin, chunks, text, keys, left>>
    BY DEF WriteSources, At, Saving
  <1>2. CASE Fails(c) /\ SkipResult(c) /\ UNCHANGED <<graph, stale>>
    BY <1>1, <1>2, FailIs, SkipKeeps
  <1> DEFINE s0 == Head(job[c].rest)
  <1>3. ASSUME NEW h \in job[c].held, Works,
               Upsert(h.node, h.src \cup {s0}, graph[h.node] \cup {s0}),
               Goto(c, "find", [job[c] EXCEPT !.held = {}])
        PROVE  IInv'
    <2> DEFINE j == [job[c] EXCEPT !.held = {}]
               n == h.node
               e0 == n[1]
    <2>1. /\ h \in [node: Nodes, src: SUBSET Segments] /\ \A i \in job[c].held : i = h
          /\ e0 \in job[c].want[s0] \ (job[c].find \cup job[c].create)
      BY <1>1, SavingHere DEF Jobs, Shape
    <2>2. /\ n \in Nodes /\ e0 \in Entities /\ s0 \in Segments /\ s0 \in SetOf(job[c].rest)
          /\ SetOf(job[c].rest) \subseteq job[c].segs
          /\ h.src \cup {s0} \in SUBSET Segments /\ graph[n] \cup {s0} \in SUBSET Segments
      BY <1>1, <2>1, SavingHere, HereIs DEF Types, Nodes
    <2>3. /\ j \in Jobs /\ j.op = job[c].op /\ j.segs = job[c].segs /\ j.rest = job[c].rest
          /\ j.want = job[c].want /\ j.bad = job[c].bad /\ j.held = {}
          /\ j.find = job[c].find /\ j.create = job[c].create
      BY SavingHere, <1>1 DEF Jobs
    <2>4. Goto(c, "find", j)
      BY <1>3
    <2> HIDE DEF j, s0
    <2>5. /\ graph' \in [Nodes -> SUBSET Segments] /\ stale' \subseteq Segments \X Entities
          /\ graph'[n] = h.src \cup {s0} /\ stale \subseteq stale'
          /\ \A m \in Nodes : m # n => graph'[m] = graph[m]
          /\ \A s \in Segments, e \in Entities : e # e0 => (<<s, e>> \in stale' <=> <<s, e>> \in stale)
          /\ \A s \in Segments : (s \in graph[n] \cup {s0} <=> s \in graph[n]) => Untouched(s)
      <3> DEFINE A == h.src \cup {s0}
                 B == graph[n] \cup {s0}
      <3>1. Types /\ UNCHANGED <<chunks, text, keys, left>>
        BY <1>1, HereIs
      <3>2. A \in SUBSET Segments /\ B \in SUBSET Segments /\ Upsert(n, A, B) /\ n \in Nodes
        BY <1>3, <2>2
      <3> HIDE DEF A, B, n, e0
      <3>3. /\ graph' \in [Nodes -> SUBSET Segments] /\ stale' \subseteq Segments \X Entities
            /\ graph'[n] = A /\ stale \subseteq stale'
            /\ \A m \in Nodes : m # n => graph'[m] = graph[m]
            /\ \A s \in Segments, e \in Entities : e # n[1] => (<<s, e>> \in stale' <=> <<s, e>> \in stale)
            /\ \A s \in Segments : (s \in B <=> s \in graph[n]) => Untouched(s)
        BY <3>1, <3>2, UpsertIs
      <3> QED
        BY <3>3, Zenon DEF A, B, e0
    <2>6. /\ pc' \in [Clients -> Places] /\ job' \in [Clients -> Jobs] /\ Others(c)
          /\ pc'[c] = "find" /\ job'[c] = j
      BY <2>3, <2>4, GotoIs, HereIs DEF Places, Saving
    <2>7. Shape("find", j)
      <3>1. Shape("writeSources", job[c]) /\ j.op \in {"file", "add", "update"}
        BY <1>1, <2>3, SavingHere
      <3> QED
        BY <2>3, <3>1, PlacesAre DEF Shape, Saving
    <2>8. /\ Pending(job[c]) = Pending(j) \cup {e0} /\ e0 \notin Pending(j)
          /\ e0 \in job[c].want[s0]
      BY <1>3, <2>1, <2>3 DEF Pending
    <2>9. \A s \in Segments : On(c, s)' <=> On(c, s)
      BY <2>3, <2>6 DEF On
    <2>10. ASSUME NEW s \in Segments, s # s0 PROVE Untouched(s)
      BY <2>5, <2>10
    <2>11. ASSUME NEW s \in Segments \ torn, On(c, s) PROVE Progress(c, s)'
      <3> DEFINE E == Saved(job[c], s)
      <3>1. /\ Settled(s, E)
            /\ job'[c].op \in {"update", "remove"} => left[s] = {}
        BY <1>1, <2>3, <2>6, <2>11, HereIs DEF Progress
      <3>2. CASE s # s0
        <4>1. Saved(job'[c], s) = E
          BY <2>3, <2>6, <3>2 DEF Saved, s0
        <4> HIDE DEF E
        <4>2. \A e \in Entities : <<s, e>> \in stale' \/ (e \in Sourced(s)' <=> e \in E)
          BY <2>10, <3>1, <3>2 DEF Untouched, Same, Settled
        <4> QED
          BY <1>1, <2>6, <3>1, <4>1, <4>2, SavingIs DEF Saving
      <3>3. CASE s = s0
        <4>1. Saved(job'[c], s) = E \cup {e0} /\ E = left[s] \cup (job[c].want[s0] \ Pending(job[c]))
          BY <2>2, <2>3, <2>6, <2>8, <3>3 DEF Saved, s0
        <4> HIDE DEF E, e0
        <4>2. e0 \in Sourced(s)'
          BY <2>2, <2>5, <3>3 DEF Sourced, e0
        <4>3. ASSUME NEW e \in Entities, e # e0 PROVE e \in Sourced(s)' <=> e \in Sourced(s)
          <5>1. \A m \in Nodes : m[1] = e => graph'[m] = graph[m]
            BY <2>5, <4>3 DEF e0
          <5> QED
            BY <5>1 DEF Sourced
        <4>4. \A e \in Entities : <<s, e>> \in stale' \/ (e \in Sourced(s)' <=> e \in E \cup {e0})
          BY <2>5, <3>1, <4>2, <4>3 DEF Settled
        <4> QED
          BY <1>1, <2>6, <3>1, <4>1, <4>4, SavingIs DEF Saving
      <3> QED
        BY <3>2, <3>3
    <2>12. ASSUME NEW s \in Segments \ torn' PROVE Owes(c, s)
      <3>1. s \in Segments \ torn
        BY <1>3 DEF Works
      <3>2. CASE On(c, s)
        BY <2>9, <2>11, <3>1, <3>2 DEF Owes
      <3>3. CASE ~On(c, s)
        <4>1. s # s0
          BY <1>1, <2>2, <3>3, SavingHere DEF On
        <4> QED
          BY <2>9, <2>10, <3>3, <4>1 DEF Owes
      <3> QED
        BY <3>2, <3>3
    <2>13. Types' /\ torn' = torn
      BY <1>1, <1>3, <2>5, <2>6, HereIs DEF Types, Works
    <2> QED
      BY <2>3, <2>6, <2>7, <2>12, <2>13, StepKeeps, HereIs
  <1> QED
    BY <1>2, <1>3 DEF WriteSources

\* The nodes created list only the segment being saved; no other one is touched.
LEMMA CreateKeeps ==
  ASSUME IInv, NEW c \in Clients, CreateEntities(c)
  PROVE  IInv'
  <1> DEFINE s0 == Head(job[c].rest)
             new == {n \in Nodes : n[1] \in job[c].create /\ graph[n] = {}
                                   /\ \A d \in Clients : \A h \in job[d].held : h.node # n}
  <1>1. /\ pc[c] = "find" /\ pc[c] \in Saving /\ ops' = ops /\ job[c].find = {}
        /\ UNCHANGED <<origin, chunks, text, keys, left, stale>>
    BY DEF CreateEntities, At, Saving
  <1>2. CASE Fails(c) /\ SkipResult(c) /\ UNCHANGED graph
    BY <1>1, <1>2, FailIs, SkipKeeps
  <1>3. ASSUME Works, NextResult(c, job[c]),
               NEW made \in SUBSET new,
               \A e \in job[c].create : \E n \in made : n[1] = e,
               graph' = [n \in Nodes |-> IF n \in made THEN {s0} ELSE graph[n]]
        PROVE  IInv'
    <2> DEFINE r == Tail(job[c].rest)
    <2>1. /\ job[c] \in Jobs /\ job[c].held = {} /\ job[c].create \subseteq job[c].want[s0]
          /\ job[c].op \in {"file", "add", "update"} /\ s0 \in Segments
          /\ job[c].rest \in Seq(Segments) /\ job[c].rest # <<>> /\ Distinct(job[c].rest)
          /\ s0 \in SetOf(job[c].rest) /\ SetOf(job[c].rest) \subseteq job[c].segs
      BY <1>1, SavingHere DEF Shape
    <2>2. r \in Seq(Segments) /\ Distinct(r) /\ SetOf(r) = SetOf(job[c].rest) \ {s0}
          /\ (r = <<>> => SetOf(job[c].rest) = {s0})
      BY <2>1, TailIs
    <2>3. /\ made \subseteq Nodes
          /\ \A n \in made : n[1] \in job[c].create /\ graph[n] = {} /\ graph'[n] = {s0}
          /\ \A n \in Nodes : n \notin made => graph'[n] = graph[n]
      BY <1>3
    <2>4. graph' \in [Nodes -> SUBSET Segments]
      BY <1>3, <2>1, HereIs DEF Types
    <2> HIDE DEF s0, r, new
    <2>5. /\ pc' \in [Clients -> Places] /\ job' \in [Clients -> Jobs] /\ Others(c)
          /\ Shape(pc'[c], job'[c])
          /\ \/ job[c].bad /\ job'[c] = NoJob
             \/ /\ job'[c].segs = job[c].segs /\ job'[c].op = job[c].op
                /\ job'[c].bad = job[c].bad /\ job'[c].want = job[c].want /\ job'[c].rest = r
                /\ \/ /\ pc'[c] = "find" /\ r # <<>>
                      /\ job'[c].find = job[c].want[Head(r)]
                      /\ job'[c].create = {} /\ job'[c].held = {}
                   \/ pc'[c] = "vectorAdd" /\ r = <<>>
      BY <1>3, <2>1, NextIs, HereIs DEF r
    <2>6. ASSUME NEW s \in Segments, s # s0 PROVE Untouched(s)
      <3>1. \A n \in Nodes : s \in graph'[n] <=> s \in graph[n]
        BY <2>3, <2>6
      <3>2. Same(s)
        BY <1>1, <3>1, SameIs
      <3> QED
        BY <1>1, <3>1, <3>2 DEF Untouched
    <2>7. ASSUME NEW s \in Segments \ torn, On(c, s)
          PROVE  /\ ~job[c].bad /\ On(c, s)'
                 /\ s \in SetOf(job[c].rest) \/ s # s0
                 /\ IF s \in SetOf(r)
                    THEN \A e \in Entities : <<s, e>> \in stale'
                                             \/ (e \in Sourced(s)' <=> e \in left[s])
                    ELSE \A e \in Entities : <<s, e>> \in stale'
                           \/ (e \in Sourced(s)' <=> e \in job[c].want[s] \cup left[s])
                 /\ job'[c].op \in {"update", "remove"} => left[s] = {}
      <3>1. ~job[c].bad /\ On(c, s)' /\ job'[c].op = job[c].op
        BY <2>5, <2>7, HereIs DEF On
      <3>2. ~job[c].bad /\ On(c, s)' /\ (job'[c].op \in {"update", "remove"} => left[s] = {})
        BY <2>7, <3>1, HereIs DEF Progress
      <3>3. Settled(s, Saved(job[c], s)) /\ Pending(job[c]) = job[c].create
        BY <1>1, <2>1, <2>7, HereIs DEF Progress, Pending
      <3>4. CASE s = s0
        <4>1. Saved(job[c], s) = left[s] \cup (job[c].want[s] \ job[c].create) /\ s \notin SetOf(r)
          BY <2>1, <2>2, <3>3, <3>4 DEF Saved, s0
        <4>2. \A e \in Entities : e \in Sourced(s)' <=> e \in Sourced(s) \/ e \in job[c].create
          <5>1. ASSUME NEW e \in Entities, e \in job[c].create PROVE e \in Sourced(s)'
            BY <1>3, <2>3, <3>4, <5>1 DEF Sourced
          <5>2. ASSUME NEW e \in Entities, e \notin job[c].create
                PROVE  e \in Sourced(s)' <=> e \in Sourced(s)
            <6>1. \A n \in Nodes : n[1] = e => graph'[n] = graph[n]
              BY <2>3, <5>2
            <6> QED
              BY <6>1 DEF Sourced
          <5>3. ASSUME NEW e \in Entities, e \in Sourced(s) PROVE e \in Sourced(s)'
            <6>1. PICK n \in Nodes : n[1] = e /\ s \in graph[n]
              BY <5>3 DEF Sourced
            <6>2. s \in graph'[n]
              BY <2>3, <6>1
            <6> QED
              BY <6>1, <6>2 DEF Sourced
          <5> QED
            BY <5>1, <5>2, <5>3
        <4>3. \A e \in Entities : <<s, e>> \in stale
                \/ (e \in Sourced(s) <=> e \in left[s] \cup (job[c].want[s] \ job[c].create))
          BY <3>3, <4>1 DEF Settled
        <4>4. \A e \in Entities : <<s, e>> \in stale'
                \/ (e \in Sourced(s)' <=> e \in job[c].want[s] \cup left[s])
          BY <1>1, <2>1, <3>4, <4>2, <4>3
        <4> QED
          BY <2>1, <3>2, <3>4, <4>1, <4>4
      <3>5. CASE s # s0
        <4> DEFINE E == Saved(job[c], s)
        <4>1. E = IF s \in SetOf(r) THEN left[s] ELSE job[c].want[s] \cup left[s]
          BY <2>2, <3>5 DEF Saved, s0
        <4> HIDE DEF E
        <4>2. \A e \in Entities : <<s, e>> \in stale' \/ (e \in Sourced(s)' <=> e \in E)
          <5>1. Settled(s, E)
            BY <3>3 DEF E
          <5> QED
            BY <2>6, <3>5, <5>1 DEF Untouched, Same, Settled
        <4> QED
          BY <3>2, <3>5, <4>1, <4>2
      <3> QED
        BY <3>4, <3>5
    <2>8. ASSUME NEW s \in Segments \ torn, On(c, s) PROVE Progress(c, s)'
      <3>1. /\ job'[c].segs = job[c].segs /\ job'[c].op = job[c].op
            /\ job'[c].want = job[c].want /\ job'[c].rest = r
            /\ \/ /\ pc'[c] = "find" /\ r # <<>>
                  /\ job'[c].find = job[c].want[Head(r)]
                  /\ job'[c].create = {} /\ job'[c].held = {}
               \/ pc'[c] = "vectorAdd" /\ r = <<>>
        BY <2>5, <2>7, <2>8
      <3>2. CASE pc'[c] = "find" /\ r # <<>>
        <4>1. Pending(job'[c]) = job[c].want[Head(r)]
          BY <3>1, <3>2 DEF Pending
        <4>2. Saved(job'[c], s) = IF s \in SetOf(r) THEN left[s] ELSE job[c].want[s] \cup left[s]
          BY <3>1, <4>1 DEF Saved
        <4> DEFINE E == IF s \in SetOf(r) THEN left[s] ELSE job[c].want[s] \cup left[s]
        <4>3. \A e \in Entities : <<s, e>> \in stale' \/ (e \in Sourced(s)' <=> e \in E)
          BY <2>7, <2>8
        <4> HIDE DEF E
        <4>4. Saved(job'[c], s) = E
          BY <4>2 DEF E
        <4> QED
          BY <1>1, <2>7, <2>8, <3>2, <4>3, <4>4, SavingIs DEF Saving
      <3>3. CASE pc'[c] = "vectorAdd" /\ r = <<>>
        <4>1. s \notin SetOf(r)
          BY <3>3, EmptyIs
        <4>2. \A e \in Entities : <<s, e>> \in stale'
                \/ (e \in Sourced(s)' <=> e \in job'[c].want[s] \cup left'[s])
          BY <1>1, <2>7, <2>8, <3>1, <4>1
        <4>3. Settled(s, job[c].want[s] \cup left[s])'
          BY <4>2 DEF Settled
        <4>4. job'[c].op \in {"update", "remove"} => left'[s] = {}
          BY <1>1, <2>7, <2>8
        <4> QED
          BY <3>3, <4>3, <4>4 DEF Progress, Saving
      <3> QED
        BY <3>1, <3>2, <3>3
    <2>9. ASSUME NEW s \in Segments \ torn' PROVE Owes(c, s)
      <3>1. s \in Segments \ torn
        BY <1>3 DEF Works
      <3>2. CASE On(c, s)
        BY <2>7, <2>8, <3>1, <3>2 DEF Owes
      <3>3. CASE ~On(c, s)
        <4>1. s \notin job[c].segs
          BY <2>1, <3>3 DEF On
        <4>2. s # s0 /\ ~On(c, s)'
          BY <2>1, <2>5, <4>1, NoJobIs DEF On
        <4> QED
          BY <2>6, <3>3, <4>2 DEF Owes
      <3> QED
        BY <3>2, <3>3
    <2>10. Types' /\ torn' = torn
      BY <1>1, <1>3, <2>4, <2>5, HereIs DEF Types, Works
    <2>11. job'[c].bad => job'[c].segs \subseteq torn'
      BY <2>5, <2>10, HereIs, NoJobIs
    <2> QED
      BY <2>5, <2>9, <2>10, <2>11, StepKeeps
  <1> QED
    BY <1>2, <1>3 DEF CreateEntities

LEMMA VectorAddKeeps ==
  ASSUME IInv, NEW c \in Clients, VectorAdd(c)
  PROVE  IInv'
  <1>1. /\ pc[c] = "vectorAdd" /\ ops' = ops /\ UNCHANGED <<origin, graph, keys, left, stale>>
    BY DEF VectorAdd, At
  <1>2. ASSUME GiveUp(c), NEW stored \in SUBSET job[c].segs, chunks' = chunks \cup stored,
               text' = [s \in Segments |-> IF s \in stored THEN job[c].want[s] ELSE text[s]]
        PROVE  IInv'
    <2>1. /\ pc' \in [Clients -> Places] /\ job' \in [Clients -> Jobs] /\ Others(c)
          /\ Shape(pc'[c], job'[c]) /\ ~job'[c].bad /\ \A s \in Segments : ~On(c, s)'
      BY <1>2, EndIs, HereIs DEF GiveUp
    <2>2. /\ torn' = torn \cup job[c].segs /\ faults' \in 0..MaxFaults
          /\ job[c].segs \subseteq Segments /\ job[c].want \in [Segments -> SUBSET Entities]
      BY <1>2, FailIs, HereIs DEF GiveUp, Jobs
    <2>3. Types'
      BY <1>1, <1>2, <2>1, <2>2, HereIs DEF Types
    <2>4. ASSUME NEW s \in Segments \ torn' PROVE Owes(c, s)
      <3>1. s \notin job[c].segs /\ ~On(c, s)
        BY <2>2 DEF On
      <3>2. (s \in chunks' <=> s \in chunks) /\ text'[s] = text[s]
        BY <1>2, <3>1
      <3>3. Untouched(s)
        BY <1>1, <3>2, SameIs DEF Untouched
      <3> QED
        BY <2>1, <3>1, <3>3 DEF Owes
    <2> QED
      BY <2>1, <2>2, <2>3, <2>4, StepKeeps
  <1>3. ASSUME Works, chunks' = chunks \cup job[c].segs,
               text' = [s \in Segments |-> IF s \in job[c].segs THEN job[c].want[s] ELSE text[s]],
               IF job[c].op = "file" THEN End(c) ELSE Move(c, "keys")
        PROVE  IInv'
    <2>1. /\ job[c].op \in {"file", "add", "update"} /\ Shape("vectorAdd", job[c])
          /\ job[c] \in Jobs /\ job[c].want \in [Segments -> SUBSET Entities]
          /\ job[c].segs \subseteq Segments
      <3>1. job[c] \in Jobs /\ Shape("vectorAdd", job[c]) /\ job[c].segs \subseteq Segments
        BY <1>1, HereIs
      <3> QED
        BY <3>1, PlacesAre DEF Shape, Saving, Jobs
    <2>2. /\ pc' \in [Clients -> Places] /\ job' \in [Clients -> Jobs] /\ Others(c)
          /\ Shape(pc'[c], job'[c])
          /\ \/ job'[c] = NoJob /\ \A s \in Segments : ~On(c, s)'
             \/ job'[c] = job[c] /\ pc'[c] = "keys" /\ job[c].op \in {"add", "update"}
      <3>1. CASE job[c].op = "file"
        BY <1>3, <3>1, EndIs, HereIs
      <3>2. CASE job[c].op # "file"
        <4>1. /\ pc' \in [Clients -> Places] /\ job' \in [Clients -> Jobs] /\ Others(c)
              /\ pc'[c] = "keys" /\ job'[c] = job[c]
          BY <1>3, <3>2, MoveIs, HereIs DEF Places
        <4>2. Shape("keys", job[c])
          BY <2>1, <3>2, PlacesAre DEF Shape, Saving
        <4> QED
          BY <2>1, <3>2, <4>1, <4>2
      <3> QED
        BY <3>1, <3>2
    <2>3. Types' /\ torn' = torn
      BY <1>1, <1>3, <2>1, <2>2, HereIs DEF Types, Works
    <2>4. ASSUME NEW s \in Segments \ torn' PROVE Owes(c, s)
      <3>1. CASE On(c, s)
        <4>1. /\ s \in job[c].segs /\ s \in chunks' /\ text'[s] = job[c].want[s]
              /\ Settled(s, job[c].want[s] \cup left[s])
              /\ job[c].op \in {"update", "remove"} => left[s] = {}
          BY <1>1, <1>3, <2>3, <3>1, HereIs DEF On, Progress
        <4>2. Settled(s, text[s] \cup left[s])'
          BY <1>1, <4>1 DEF Settled, Sourced
        <4>3. CASE job'[c] = NoJob /\ \A t \in Segments : ~On(c, t)'
          BY <3>1, <4>1, <4>2, <4>3 DEF Final, Owes
        <4>4. CASE job'[c] = job[c] /\ pc'[c] = "keys"
          BY <1>1, <3>1, <4>1, <4>2, <4>4 DEF Progress, Saving, Owes, On
        <4> QED
          BY <2>2, <4>3, <4>4
      <3>2. CASE ~On(c, s)
        <4>1. s \notin job[c].segs
          BY <2>1, <3>2 DEF On
        <4>2. ~On(c, s)'
          BY <2>2, <3>2, <4>1 DEF On
        <4>3. (s \in chunks' <=> s \in chunks) /\ text'[s] = text[s]
          BY <1>3, <4>1
        <4>4. Untouched(s)
          BY <1>1, <4>3, SameIs DEF Untouched
        <4> QED
          BY <3>2, <4>2, <4>4 DEF Owes
      <3> QED
        BY <3>1, <3>2
    <2>5. job'[c].bad => job'[c].segs \subseteq torn'
      BY <2>2, <2>3, HereIs, NoJobIs
    <2> QED
      BY <2>2, <2>3, <2>4, <2>5, StepKeeps
  <1> QED
    BY <1>2, <1>3 DEF VectorAdd

LEMMA StoreKeysKeeps ==
  ASSUME IInv, NEW c \in Clients, StoreKeys(c)
  PROVE  IInv'
  <1>1. /\ pc[c] = "keys" /\ End(c) /\ ops' = ops
        /\ UNCHANGED <<origin, chunks, text, graph, left, stale>>
    BY DEF StoreKeys, At
  <1>2. CASE Fails(c) /\ UNCHANGED keys
    BY <1>1, <1>2, GiveUpKeeps
  <1>3. ASSUME Works, keys' = keys \cup job[c].segs \/ keys' = keys PROVE IInv'
    <2>1. /\ pc' \in [Clients -> Places] /\ job' \in [Clients -> Jobs] /\ Others(c)
          /\ Shape(pc'[c], job'[c]) /\ ~job'[c].bad /\ \A s \in Segments : ~On(c, s)'
      BY <1>1, EndIs, HereIs
    <2>2. Types' /\ torn' = torn
      BY <1>1, <1>3, <2>1, HereIs DEF Types, Works
    <2>3. job[c].op \in {"add", "update"}
      <3>1. job[c] \in Jobs /\ Shape("keys", job[c])
        BY <1>1, HereIs
      <3> QED
        BY <3>1, PlacesAre DEF Shape, Saving, Jobs
    <2>4. ASSUME NEW s \in Segments \ torn' PROVE Owes(c, s)
      <3>1. CASE On(c, s)
        <4>1. s \in chunks /\ Settled(s, text[s] \cup left[s])
          BY <1>1, <2>2, <3>1, HereIs DEF Progress
        <4>2. s \in chunks' /\ Settled(s, text[s] \cup left[s])'
          BY <1>1, <4>1 DEF Settled, Sourced
        <4> QED
          BY <2>1, <3>1, <4>2 DEF Final, Owes
      <3>2. CASE ~On(c, s)
        <4>1. s \in keys' => s \in keys
          BY <1>3, <2>3, <3>2 DEF On
        <4>2. Untouched(s)
          BY <1>1, <4>1, SameIs DEF Untouched
        <4> QED
          BY <2>1, <3>2, <4>2 DEF Owes
      <3> QED
        BY <3>1, <3>2
    <2> QED
      BY <2>1, <2>2, <2>4, StepKeeps
  <1> QED
    BY <1>2, <1>3 DEF StoreKeys

-----------------------------------------------------------------------------
(* Removing.                                                               *)

LEMMA VectorDeleteKeeps ==
  ASSUME IInv, NEW c \in Clients, VectorDelete(c)
  PROVE  IInv'
  <1>1. /\ pc[c] = "vectorDelete" /\ Move(c, "query") /\ ops' = ops
        /\ UNCHANGED <<origin, text, graph, keys, left, stale>>
    BY DEF VectorDelete, At
  <1>2. job[c].op = "remove" /\ Shape("query", job[c])
    <2>1. job[c] \in Jobs /\ Shape("vectorDelete", job[c])
      BY <1>1, HereIs
    <2>2. job[c].op = "remove"
      BY <2>1, PlacesAre DEF Shape, Saving, Jobs
    <2> QED
      BY <2>1, <2>2, PlacesAre DEF Shape, Saving
  <1>3. CASE Fails(c) /\ UNCHANGED chunks
    BY <1>1, <1>2, <1>3, FailMoveKeeps DEF Places
  <1>4. CASE Works /\ chunks' = chunks \ job[c].segs
    <2>1. /\ pc' \in [Clients -> Places] /\ job' \in [Clients -> Jobs] /\ Others(c)
          /\ pc'[c] = "query" /\ job'[c] = job[c]
      BY <1>1, MoveIs, HereIs DEF Places
    <2>2. Types' /\ torn' = torn
      BY <1>1, <1>4, <2>1, HereIs DEF Types, Works
    <2>3. ASSUME NEW s \in Segments \ torn' PROVE Owes(c, s)
      <3>1. CASE On(c, s)
        <4>1. s \notin chunks' /\ left'[s] = {}
          BY <1>1, <1>2, <1>4, <2>2, <3>1, HereIs DEF On, Progress
        <4> QED
          BY <2>1, <3>1, <4>1 DEF Progress, Saving, Owes, On
      <3>2. CASE ~On(c, s)
        <4>1. s \in chunks' <=> s \in chunks
          BY <1>2, <1>4, <3>2 DEF On
        <4>2. Untouched(s)
          BY <1>1, <4>1, SameIs DEF Untouched
        <4> QED
          BY <2>1, <3>2, <4>2 DEF Owes, On
      <3> QED
        BY <3>1, <3>2
    <2> QED
      BY <1>2, <2>1, <2>2, <2>3, StepKeeps, HereIs
  <1> QED
    BY <1>3, <1>4 DEF VectorDelete

\* Where a client goes when it has taken a segment out of the graph.
LEMMA AfterIs ==
  ASSUME IInv, NEW c \in Clients, pc[c] \in {"query", "rewrite"},
         pc[c] = "rewrite" => job[c].held = {}
  PROVE  /\ AfterGraph(c) \in {"extract", "dropKeys"} /\ AfterGraph(c) \in Places
         /\ Shape(AfterGraph(c), job[c])
         /\ AfterGraph(c) = "dropKeys" => job[c].op = "remove"
  <1>1. job[c] \in Jobs /\ Shape(pc[c], job[c])
    BY HereIs
  <1>2. job[c].op \in {"update", "remove"}
    BY <1>1, PlacesAre DEF Shape, Saving, Jobs
  <1>3. CASE job[c].op = "update"
    BY <1>1, <1>3, PlacesAre DEF Shape, Saving, AfterGraph, Places
  <1>4. CASE job[c].op = "remove"
    BY <1>1, <1>4, PlacesAre DEF Shape, Saving, AfterGraph, Places
  <1> QED
    BY <1>2, <1>3, <1>4

LEMMA QueryKeeps ==
  ASSUME IInv, NEW c \in Clients, QuerySources(c)
  PROVE  IInv'
  <1>1. /\ pc[c] = "query" /\ ops' = ops
        /\ UNCHANGED <<origin, chunks, text, graph, keys, left, stale>>
    BY DEF QuerySources, At, backends
  <1>2. CASE Fails(c) /\ Move(c, AfterGraph(c))
    BY <1>1, <1>2, AfterIs, FailMoveKeeps
  <1>3. ASSUME NEW s0 \in job[c].segs, Works,
               Goto(c, "rewrite", [job[c] EXCEPT
                 !.held = {[node |-> n, src |-> graph[n]] : n \in {m \in Nodes : s0 \in graph[m]}}])
        PROVE  IInv'
    <2> DEFINE held == {[node |-> n, src |-> graph[n]] : n \in {m \in Nodes : s0 \in graph[m]}}
               j == [job[c] EXCEPT !.held = held]
    <2>1. Goto(c, "rewrite", j)
      BY <1>3
    <2>2. /\ held \subseteq [node: Nodes, src: SUBSET Segments]
          /\ \A n \in Nodes : s0 \in graph[n] => \E h \in held : h.node = n
      <3>1. \A n \in Nodes : graph[n] \subseteq Segments
        BY HereIs DEF Types
      <3>2. ASSUME NEW n \in Nodes, s0 \in graph[n] PROVE \E h \in held : h.node = n
        <4>1. [node |-> n, src |-> graph[n]] \in held
          BY <3>2
        <4> QED
          BY <4>1
      <3> QED
        BY <3>1, <3>2
    <2> HIDE DEF held
    <2>3. /\ Shape("query", job[c]) /\ job[c] \in Jobs /\ job[c].segs = {s0}
      BY <1>1, <1>3, HereIs DEF Shape
    <2>4. /\ j \in Jobs /\ j.op = job[c].op /\ j.segs = job[c].segs /\ j.rest = job[c].rest
          /\ j.want = job[c].want /\ j.bad = job[c].bad /\ j.held = held
          /\ j.create = job[c].create /\ j.find = job[c].find
      BY <2>2, <2>3 DEF Jobs
    <2> HIDE DEF j
    <2>5. /\ pc' \in [Clients -> Places] /\ job' \in [Clients -> Jobs] /\ Others(c)
          /\ pc'[c] = "rewrite" /\ job'[c] = j
      BY <2>1, <2>4, GotoIs, HereIs DEF Places
    <2>6. Shape("rewrite", j)
      <3>1. job[c].op \in {"update", "remove"}
        BY <2>3, PlacesAre DEF Shape, Saving, Jobs
      <3> QED
        BY <2>3, <2>4, <3>1, PlacesAre DEF Shape, Saving
    <2>7. \A s \in Segments : On(c, s)' <=> On(c, s)
      BY <2>4, <2>5 DEF On
    <2>8. ASSUME NEW s \in Segments \ torn, On(c, s) PROVE Progress(c, s)'
      <3>1. /\ s = s0 /\ (job[c].op = "remove" => s \notin chunks)
            /\ job[c].op \in {"update", "remove"} => left[s] = {}
        BY <1>1, <2>3, <2>8, HereIs DEF Progress, On
      <3>2. /\ job'[c].op = "remove" => s \notin chunks'
            /\ job'[c].op \in {"update", "remove"} => left'[s] = {}
        BY <1>1, <2>4, <2>5, <3>1
      <3>3. \A n \in Nodes : s \in graph'[n] => \E h \in job'[c].held : h.node = n
        BY <1>1, <2>2, <2>4, <2>5, <3>1
      <3> QED
        BY <2>5, <3>2, <3>3 DEF Progress, Saving, Nodes
    <2> QED
      BY <1>1, <1>3, <2>4, <2>5, <2>6, <2>7, <2>8, HereIs, QuietKeeps DEF Works, Types
  <1> QED
    BY <1>2, <1>3 DEF QuerySources

LEMMA RewriteKeeps ==
  ASSUME IInv, NEW c \in Clients, Rewrite(c)
  PROVE  IInv'
  <1>1. /\ pc[c] = "rewrite" /\ ops' = ops /\ UNCHANGED <<origin, chunks, text, keys, left>>
    BY DEF Rewrite, At
  <1>2. PICK h \in job[c].held, s0 \in job[c].segs :
          /\ Goto(c, "rewrite", [job[c] EXCEPT !.held = @ \ {h}])
          /\ \/ Works /\ Upsert(h.node, h.src \ {s0}, graph[h.node] \ {s0})
             \/ Fails(c) /\ UNCHANGED <<graph, stale>>
    BY DEF Rewrite
  <1> DEFINE j == [job[c] EXCEPT !.held = @ \ {h}]
             n == h.node
  <1>3. /\ job[c] \in Jobs /\ Shape("rewrite", job[c]) /\ job[c].segs = {s0} /\ s0 \in Segments
        /\ job[c].op \in {"update", "remove"} /\ job[c].segs \subseteq Segments
    <2>1. job[c] \in Jobs /\ Shape("rewrite", job[c]) /\ job[c].segs \subseteq Segments
      BY <1>1, HereIs
    <2>2. job[c].op \in {"update", "remove"}
      BY <2>1, PlacesAre DEF Shape, Saving, Jobs
    <2>3. job[c].segs = {s0}
      BY <1>2, <2>1 DEF Shape
    <2> QED
      BY <1>2, <2>1, <2>2, <2>3
  <1>4. h \in [node: Nodes, src: SUBSET Segments] /\ n \in Nodes
    BY <1>2, <1>3 DEF Jobs
  <1>5. /\ j \in Jobs /\ j.op = job[c].op /\ j.segs = job[c].segs /\ j.rest = job[c].rest
        /\ j.want = job[c].want /\ j.bad = job[c].bad /\ j.held = job[c].held \ {h}
        /\ j.create = job[c].create /\ j.find = job[c].find
    BY <1>3 DEF Jobs
  <1>6. Goto(c, "rewrite", j)
    BY <1>2
  <1> HIDE DEF j
  <1>7. /\ pc' \in [Clients -> Places] /\ job' \in [Clients -> Jobs] /\ Others(c)
        /\ pc'[c] = "rewrite" /\ job'[c] = j
    BY <1>5, <1>6, GotoIs, HereIs DEF Places
  <1>8. Shape("rewrite", j)
    BY <1>3, <1>5, PlacesAre DEF Shape, Saving
  <1>9. CASE Fails(c) /\ UNCHANGED <<graph, stale>>
    BY <1>1, <1>5, <1>7, <1>8, <1>9, FailIs, TearKeeps
  <1>10. CASE Works /\ Upsert(h.node, h.src \ {s0}, graph[h.node] \ {s0})
    <2> DEFINE A == h.src \ {s0}
               B == graph[n] \ {s0}
    <2>1. /\ A \in SUBSET Segments /\ B \in SUBSET Segments /\ Upsert(n, A, B)
          /\ s0 \notin A /\ \A s \in Segments : s # s0 => (s \in B <=> s \in graph[n])
      BY <1>4, <1>10, HereIs DEF Types
    <2> HIDE DEF A, B, n
    <2>2. /\ graph' \in [Nodes -> SUBSET Segments] /\ stale' \subseteq Segments \X Entities
          /\ graph'[n] = A /\ stale \subseteq stale'
          /\ \A m \in Nodes : m # n => graph'[m] = graph[m]
          /\ \A s \in Segments : (s \in B <=> s \in graph[n]) => Untouched(s)
      BY <1>1, <1>4, <2>1, UpsertIs, HereIs
    <2>3. Types' /\ torn' = torn
      BY <1>1, <1>7, <1>10, <2>2, HereIs DEF Types, Works
    <2>4. \A s \in Segments : On(c, s)' <=> On(c, s)
      BY <1>5, <1>7 DEF On
    <2>5. ASSUME NEW s \in Segments \ torn, On(c, s) PROVE Progress(c, s)'
      <3>1. /\ s = s0 /\ (job[c].op = "remove" => s \notin chunks)
            /\ job[c].op \in {"update", "remove"} => left[s] = {}
            /\ \A m \in Nodes :
                 s \in graph[m] => <<s, m[1]>> \in stale \/ \E k \in job[c].held : k.node = m
        BY <1>1, <1>3, <2>5, HereIs DEF Progress, On
      <3>2. /\ job'[c].op = "remove" => s \notin chunks'
            /\ job'[c].op \in {"update", "remove"} => left'[s] = {}
        BY <1>1, <1>5, <1>7, <3>1
      <3>3. ASSUME NEW m \in Nodes, s \in graph'[m]
            PROVE  <<s, m[1]>> \in stale' \/ \E k \in job'[c].held : k.node = m
        <4>1. m # n /\ s \in graph[m]
          BY <2>1, <2>2, <3>1, <3>3
        <4>2. CASE <<s, m[1]>> \in stale
          BY <2>2, <4>2
        <4>3. ASSUME NEW k \in job[c].held, k.node = m PROVE k \in job'[c].held
          BY <1>5, <1>7, <4>1, <4>3 DEF n
        <4> QED
          BY <3>1, <4>1, <4>2, <4>3
      <3> QED
        BY <1>7, <3>2, <3>3 DEF Progress, Saving, Nodes
    <2>6. ASSUME NEW s \in Segments \ torn' PROVE Owes(c, s)
      <3>1. CASE On(c, s)
        BY <2>3, <2>4, <2>5, <3>1 DEF Owes
      <3>2. CASE ~On(c, s)
        <4>1. s # s0
          BY <1>3, <3>2 DEF On
        <4> QED
          BY <2>1, <2>2, <2>4, <3>2, <4>1 DEF Owes
      <3> QED
        BY <3>1, <3>2
    <2>7. job'[c].bad => job'[c].segs \subseteq torn'
      BY <1>5, <1>7, <2>3, HereIs
    <2> QED
      BY <1>7, <1>8, <2>3, <2>6, <2>7, StepKeeps
  <1> QED
    BY <1>2, <1>9, <1>10

LEMMA RewrittenKeeps ==
  ASSUME IInv, NEW c \in Clients, Rewritten(c)
  PROVE  IInv'
  <1>1. /\ pc[c] = "rewrite" /\ job[c].held = {} /\ Works /\ Move(c, AfterGraph(c)) /\ ops' = ops
        /\ UNCHANGED <<origin, chunks, text, graph, keys, left, stale>>
    BY DEF Rewritten, At, backends
  <1>2. /\ AfterGraph(c) \in {"extract", "dropKeys"} /\ AfterGraph(c) \in Places
        /\ Shape(AfterGraph(c), job[c])
        /\ AfterGraph(c) = "dropKeys" => job[c].op = "remove"
    BY <1>1, AfterIs
  <1>3. /\ pc' \in [Clients -> Places] /\ job' \in [Clients -> Jobs] /\ Others(c)
        /\ pc'[c] = AfterGraph(c) /\ job'[c] = job[c]
    BY <1>1, <1>2, MoveIs, HereIs
  <1>4. ASSUME NEW s \in Segments \ torn, On(c, s) PROVE Progress(c, s)'
    <2>1. \A n \in Nodes : s \in graph[n] => <<s, n[1]>> \in stale
      BY <1>1, <1>4, HereIs DEF Progress
    <2>2. Settled(s, {})'
      BY <1>1, <2>1 DEF Settled, Sourced
    <2>3. /\ job'[c].op = "remove" => s \notin chunks'
          /\ job'[c].op \in {"update", "remove"} => left'[s] = {}
      BY <1>1, <1>3, <1>4, HereIs DEF Progress
    <2>4. Settled(s, left[s])'
      <3>1. job[c].op \in {"update", "remove"}
        BY <1>1, PlacesAre, HereIs DEF Shape, Saving, Jobs
      <3> QED
        BY <1>3, <2>2, <2>3, <3>1
    <2> QED
      BY <1>2, <1>3, <2>2, <2>3, <2>4 DEF Progress, Saving
  <1>5. \A s \in Segments : On(c, s)' <=> On(c, s)
    BY <1>3 DEF On
  <1> QED
    BY <1>1, <1>2, <1>3, <1>4, <1>5, HereIs, QuietKeeps DEF Works, Types

LEMMA DropKeysKeeps ==
  ASSUME IInv, NEW c \in Clients, DropKeys(c)
  PROVE  IInv'
  <1>1. /\ pc[c] = "dropKeys" /\ End(c) /\ ops' = ops
        /\ UNCHANGED <<origin, chunks, text, graph, left, stale>>
    BY DEF DropKeys, At
  <1>2. CASE Fails(c) /\ UNCHANGED keys
    BY <1>1, <1>2, GiveUpKeeps
  <1>3. CASE Works /\ keys' = keys \ job[c].segs
    <2>1. /\ pc' \in [Clients -> Places] /\ job' \in [Clients -> Jobs] /\ Others(c)
          /\ Shape(pc'[c], job'[c]) /\ ~job'[c].bad /\ \A s \in Segments : ~On(c, s)'
      BY <1>1, EndIs, HereIs
    <2>2. Types' /\ torn' = torn
      BY <1>1, <1>3, <2>1, HereIs DEF Types, Works
    <2>3. job[c].op \in {"remove", "docs", "bydoc"}
      <3>1. job[c] \in Jobs /\ Shape("dropKeys", job[c])
        BY <1>1, HereIs
      <3> QED
        BY <3>1, PlacesAre DEF Shape, Saving, Jobs
    <2>4. ASSUME NEW s \in Segments \ torn' PROVE Owes(c, s)
      <3>1. CASE On(c, s)
        <4>1. s \notin chunks /\ Settled(s, {}) /\ s \notin keys' /\ left[s] = {}
          BY <1>1, <1>3, <2>2, <2>3, <3>1, HereIs DEF Progress, On
        <4>2. s \notin chunks' /\ Settled(s, {})' /\ left'[s] = {}
          BY <1>1, <4>1 DEF Settled, Sourced
        <4> QED
          BY <2>1, <3>1, <4>1, <4>2 DEF Final, Owes
      <3>2. CASE ~On(c, s)
        <4>1. Untouched(s)
          BY <1>1, <1>3, SameIs DEF Untouched
        <4> QED
          BY <2>1, <3>2, <4>1 DEF Owes
      <3> QED
        BY <3>1, <3>2
    <2> QED
      BY <2>1, <2>2, <2>4, StepKeeps
  <1> QED
    BY <1>2, <1>3 DEF DropKeys

\* RemoveDocs and RemoveSegmentsByDocID are on no segment until they list them.
LEMMA AllHere ==
  ASSUME IInv, NEW c \in Clients, pc[c] \in {"filterDelete", "dropOrigin", "listKeys"}
  PROVE  /\ job[c].op \in {"docs", "bydoc"} /\ job[c].segs = {} /\ ~job[c].bad
         /\ job[c] \in Jobs /\ Shape(pc[c], job[c]) /\ SetOf(job[c].rest) = {}
         /\ pc[c] \in {"filterDelete", "dropOrigin"} => Shape("listKeys", job[c])
         /\ job[c].op = "docs" => Shape("dropOrigin", job[c])
  <1>1. job[c] \in Jobs /\ Shape(pc[c], job[c])
    BY HereIs
  <1>2. job[c].op \in {"docs", "bydoc"}
    BY <1>1, PlacesAre DEF Shape, Saving, Jobs
  <1> QED
    BY <1>1, <1>2, PlacesAre DEF Shape, Saving

LEMMA FilterDeleteKeeps ==
  ASSUME IInv, NEW c \in Clients, FilterDelete(c)
  PROVE  IInv'
  <1> DEFINE there == IF job[c].op = "docs" THEN "dropOrigin" ELSE "listKeys"
  <1>1. /\ pc[c] = "filterDelete" /\ Move(c, there) /\ ops' = ops
        /\ UNCHANGED <<origin, text, graph, keys, left, stale>>
    BY DEF FilterDelete, At
  <1>2. Shape(there, job[c]) /\ there \in Places /\ job[c].op \in {"docs", "bydoc"}
        /\ ~job[c].bad
    BY <1>1, AllHere DEF Places
  <1> HIDE DEF there
  <1>3. CASE Fails(c) /\ UNCHANGED chunks
    BY <1>1, <1>2, <1>3, FailMoveKeeps
  <1>4. ASSUME UNCHANGED faults, torn \subseteq torn', torn' \subseteq Segments,
               chunks' \subseteq Segments,
               \A s \in Segments \ torn' : s \in chunks' <=> s \in chunks
        PROVE  IInv'
    <2>1. /\ pc' \in [Clients -> Places] /\ job' \in [Clients -> Jobs] /\ Others(c)
          /\ pc'[c] = there /\ job'[c] = job[c]
      BY <1>1, <1>2, MoveIs, HereIs
    <2>2. Types'
      BY <1>1, <1>4, <2>1, HereIs DEF Types
    <2>3. ASSUME NEW s \in Segments \ torn' PROVE Owes(c, s)
      <3>1. ~On(c, s) /\ ~On(c, s)'
        BY <1>2, <2>1 DEF On
      <3>2. Untouched(s)
        BY <1>1, <1>4, SameIs DEF Untouched
      <3> QED
        BY <3>1, <3>2 DEF Owes
    <2> QED
      BY <1>2, <1>4, <2>1, <2>2, <2>3, StepKeeps
  <1>5. CASE UNCHANGED faults /\ chunks' = {} /\ torn' = torn \cup chunks
    BY <1>4, <1>5, HereIs DEF Types
  <1>6. CASE Works /\ UNCHANGED chunks
    BY <1>4, <1>6, HereIs DEF Types, Works
  <1> QED
    BY <1>3, <1>5, <1>6 DEF FilterDelete

LEMMA DropOriginKeeps ==
  ASSUME IInv, NEW c \in Clients, DropOrigin(c)
  PROVE  IInv'
  <1>1. /\ pc[c] = "dropOrigin" /\ Move(c, "listKeys") /\ ops' = ops
        /\ UNCHANGED <<chunks, text, graph, keys, left, stale>>
    BY DEF DropOrigin, At
  <1>2. Shape("listKeys", job[c]) /\ job[c].op \in {"docs", "bydoc"} /\ ~job[c].bad
    BY <1>1, AllHere
  <1>3. CASE Fails(c) /\ UNCHANGED origin
    BY <1>1, <1>2, <1>3, FailMoveKeeps DEF Places
  <1>4. CASE Works /\ origin' = FALSE
    <2>1. /\ pc' \in [Clients -> Places] /\ job' \in [Clients -> Jobs] /\ Others(c)
          /\ pc'[c] = "listKeys" /\ job'[c] = job[c]
      BY <1>1, MoveIs, HereIs DEF Places
    <2>2. \A s \in Segments : ~On(c, s) /\ ~On(c, s)'
      BY <1>2, <2>1 DEF On
    <2> QED
      BY <1>1, <1>2, <1>4, <2>1, <2>2, QuietKeeps DEF Works
  <1> QED
    BY <1>3, <1>4 DEF DropOrigin

LEMMA ListKeysKeeps ==
  ASSUME IInv, NEW c \in Clients, ListKeys(c)
  PROVE  IInv'
  <1>1. /\ pc[c] = "listKeys" /\ ops' = ops
        /\ UNCHANGED <<origin, chunks, text, graph, keys, left, stale>>
    BY DEF ListKeys, At, backends
  <1>2. CASE GiveUp(c)
    BY <1>1, <1>2, GiveUpKeeps DEF GiveUp
  <1>3. CASE Works /\ Goto(c, "dropKeys", [job[c] EXCEPT !.segs = chunks])
    <2> DEFINE j == [job[c] EXCEPT !.segs = chunks]
    <2>1. /\ job[c].op \in {"docs", "bydoc"} /\ ~job[c].bad /\ job[c] \in Jobs
          /\ Shape("listKeys", job[c]) /\ SetOf(job[c].rest) = {}
      BY <1>1, AllHere
    <2>2. /\ j \in Jobs /\ j.op = job[c].op /\ j.bad = job[c].bad /\ j.segs = chunks
          /\ j.rest = job[c].rest
      BY <2>1, HereIs DEF Jobs, Types
    <2>3. Goto(c, "dropKeys", j)
      BY <1>3
    <2> HIDE DEF j
    <2>4. /\ pc' \in [Clients -> Places] /\ job' \in [Clients -> Jobs] /\ Others(c)
          /\ pc'[c] = "dropKeys" /\ job'[c] = j
      BY <2>2, <2>3, GotoIs, HereIs DEF Places
    <2>5. Shape("dropKeys", j)
      BY <2>1, <2>2, PlacesAre DEF Shape, Saving
    <2>6. \A s \in Segments : ~On(c, s) /\ ~On(c, s)'
      BY <2>1, <2>2, <2>4 DEF On
    <2>7. origin' \in BOOLEAN
      BY <1>1, HereIs DEF Types
    <2> QED
      BY <1>1, <1>3, <2>1, <2>2, <2>4, <2>5, <2>6, <2>7, QuietKeeps DEF Works
  <1> QED
    BY <1>2, <1>3 DEF ListKeys

-----------------------------------------------------------------------------
(* The invariant and the properties.                                       *)

LEMMA InitIInv == Init => IInv
  <1> SUFFICES ASSUME Init PROVE IInv
    OBVIOUS
  <1>1. Types
    <2>1. pc \in [Clients -> Places] /\ job \in [Clients -> Jobs]
      BY NoJobIs DEF Init, Places
    <2>2. /\ text \in [Segments -> SUBSET Entities] /\ graph \in [Nodes -> SUBSET Segments]
          /\ origin \in BOOLEAN /\ chunks \subseteq Segments /\ keys \subseteq Segments
          /\ torn \subseteq Segments /\ left \in [Segments -> SUBSET Entities]
          /\ stale \subseteq Segments \X Entities
      BY DEF Init
    <2>3. ops \in 0..MaxOps /\ faults \in 0..MaxFaults
      BY DocumentAssumption DEF Init
    <2> QED
      BY <2>1, <2>2, <2>3 DEF Types
  <1>2. \A c \in Clients : Shape(pc[c], job[c]) /\ ~job[c].bad /\ job[c].segs = {}
    BY NoJobIs DEF Init
  <1>3. \A s \in Segments : (\A c \in Clients : ~On(c, s)) /\ Final(s)
    BY <1>2 DEF On, Final, Settled, Sourced, Init
  <1> QED
    BY <1>1, <1>2, <1>3 DEF IInv, State

LEMMA StepIInv == IInv /\ [Next]_vars => IInv'
  <1> SUFFICES ASSUME IInv, [Next]_vars PROVE IInv'
    OBVIOUS
  <1>1. ASSUME NEW c \in Clients, Step(c) PROVE IInv'
    BY <1>1, StoreOriginKeeps, ExtractKeeps, FindKeeps, ReadKeeps, WriteKeeps, CreateKeeps,
       VectorAddKeeps, StoreKeysKeeps, VectorDeleteKeeps, QueryKeeps, RewriteKeeps,
       RewrittenKeeps, DropKeysKeeps, FilterDeleteKeeps, DropOriginKeeps, ListKeysKeeps
       DEF Step
  <1>2. CASE UNCHANGED vars
    <2>1. UNCHANGED <<origin, chunks, text, graph, keys, pc, job, ops, faults, torn, left, stale>>
      BY <1>2 DEF vars, backends, bounds
    <2>2. Types'
      BY <2>1 DEF IInv, Types
    <2>3. \A c \in Clients : Shape(pc'[c], job'[c]) /\ (job'[c].bad => job'[c].segs \subseteq torn')
      BY <2>1 DEF IInv
    <2>4. ASSUME NEW s \in Segments \ torn' PROVE State(s)'
      <3>1. Untouched(s) /\ State(s)
        BY <2>1, UnchangedIs DEF IInv
      <3>2. \A c \in Clients : On(c, s)' <=> On(c, s)
        BY <2>1 DEF On
      <3>3. \A c \in Clients : On(c, s) => Progress(c, s)'
        BY <2>1, <3>1, ProgressStays DEF State
      <3>4. (\A c \in Clients : ~On(c, s)) => Final(s)'
        BY <3>1, FinalStays DEF State
      <3> QED
        BY <3>1, <3>2, <3>3, <3>4 DEF State
    <2> QED
      BY <2>2, <2>3, <2>4 DEF IInv
  <1>3. CASE Next
    <2>1. PICK c \in Clients :
            \/ BeginFile(c) \/ BeginAdd(c) \/ BeginUpdate(c) \/ BeginRemove(c) \/ BeginRemoveAll(c)
            \/ Step(c)
      BY <1>3 DEF Next
    <2> QED
      BY <1>1, <2>1, BeginsKeep
  <1> QED
    BY <1>2, <1>3

\* At each call of an operation it is known how much of its segments is in the
\* graph, unless the operation failed or overlapped with another on them
\* (graphrag/document.go, segment_add.go, segment_remove.go:16-67, graph/neo4j/save.go).
THEOREM Invariance == Spec => []IInv
  <1>1. Init => IInv
    BY InitIInv
  <1>2. IInv /\ [Next]_vars => IInv'
    BY StepIInv
  <1> QED
    BY <1>1, <1>2, PTL DEF Spec

\* Every variable keeps its type; a client writes sources back only to a node of
\* which it has read some (graph/neo4j/save.go:200-260).
THEOREM TypeCorrect == Spec => []TypeOK
  <1>1. IInv => TypeOK
    <2> SUFFICES ASSUME IInv PROVE TypeOK
      OBVIOUS
    <2>1. Types
      BY DEF IInv
    <2>2. ASSUME NEW c \in Clients
          PROVE  /\ job[c].op \in {"none", "file", "add", "update", "remove", "docs", "bydoc"}
                 /\ pc[c] = "idle" <=> job[c].op = "none"
                 /\ job[c].segs \subseteq Segments /\ job[c].rest \in Seq(Segments)
                 /\ job[c].want \in [Segments -> SUBSET Entities]
                 /\ job[c].find \subseteq Entities /\ job[c].create \subseteq Entities
                 /\ \A h \in job[c].held : h.node \in Nodes /\ h.src \subseteq Segments
                 /\ pc[c] = "writeSources" => \A h \in job[c].held : h.src # {}
                 /\ job[c].bad \in BOOLEAN
      <3>1. job[c] \in Jobs /\ Shape(pc[c], job[c])
        BY HereIs
      <3>2. /\ job[c].op \in {"none", "file", "add", "update", "remove", "docs", "bydoc"}
            /\ job[c].segs \subseteq Segments /\ job[c].rest \in Seq(Segments)
            /\ job[c].want \in [Segments -> SUBSET Entities]
            /\ job[c].find \subseteq Entities /\ job[c].create \subseteq Entities
            /\ \A h \in job[c].held : h.node \in Nodes /\ h.src \subseteq Segments
            /\ job[c].bad \in BOOLEAN
        BY <3>1 DEF Jobs
      <3>3. pc[c] = "idle" <=> job[c].op = "none"
        BY <3>1, <3>2, PlacesAre DEF Shape, Saving
      <3>4. pc[c] = "writeSources" => \A h \in job[c].held : h.src # {}
        BY <3>1 DEF Shape
      <3> QED
        BY <3>2, <3>3, <3>4
    <2>3. pc \in [Clients -> {"idle", "origin", "extract", "find", "readSources", "writeSources",
                              "vectorAdd", "keys", "vectorDelete", "query", "rewrite", "dropKeys",
                              "filterDelete", "dropOrigin", "listKeys"}]
      BY <2>1 DEF Types, Places, Saving
    <2> QED
      BY <2>1, <2>2, <2>3 DEF Types, TypeOK
  <1> QED
    BY <1>1, Invariance, PTL

\* A segment no operation works on is Final, unless one failed on it.
LEMMA IdleIsFinal ==
  ASSUME IInv, NEW s \in Segments \ torn, ~Busy(s)
  PROVE  Final(s)
  BY DEF IInv, State, Busy, On

\* Whatever is added, changed and removed at the same time, the entities that
\* list a segment of the vector database are those its text mentions and those
\* that texts replaced by AddSegments have mentioned since an update or removal,
\* but for writes that collided and operations that failed
\* (graph/neo4j/save.go:103-260, segment_add.go:38, segment_remove.go:338-502).
THEOREM SourcesAreExact == Spec => []SourcesExact
  <1>1. IInv => SourcesExact
    BY IdleIsFinal DEF SourcesExact, Final, IInv, Types
  <1> QED
    BY <1>1, Invariance, PTL

\* A segment that is not in the vector database is nowhere, but for writes that
\* collided and operations that failed (segment_remove.go:16-67).
THEOREM RemovalIsComplete == Spec => []RemovalComplete
  <1>1. IInv => RemovalComplete
    BY IdleIsFinal DEF RemovalComplete, Final
  <1> QED
    BY <1>1, Invariance, PTL
=============================================================================
