------------------------ MODULE GraphCollectionsProofs ------------------------
(***************************************************************************)
(* Proofs about GraphCollections for any clients, any number of operations *)
(* and any number of failing calls.                                        *)
(*                                                                         *)
(* The safety properties speak of moments at which nobody works on the     *)
(* collection; what makes them inductive is what is true in between.  As   *)
(* long as nothing has failed and no removal has had company, the vector   *)
(* collection is a lock: who created it alone builds the rest (Built), and *)
(* who removes is alone.  What an operation repairs is a matter of its own *)
(* steps, if it has had no company (Alone), whatever it has found.         *)
(***************************************************************************)
EXTENDS GraphCollections, TLAPS

Creating == {"ensure", "sysCreate", "vecCreate", "index", "graphCreate", "save",
             "undoVector", "undoBoth", "undoGraph"}
Building == {"index", "graphCreate", "save"}
Removing == {"vecCheck", "vecDrop", "graphCheck", "graphDrop", "metaDrop"}

\* Who is where, and what the vector collection and the graph rest on.
Frame ==
  /\ graph => hasGraph
  /\ vec # "absent" => system
  /\ \A c \in Clients :
       /\ pc[c] \in Creating \ {"ensure", "sysCreate"} => system
       /\ pc[c] \in {"graphCreate", "undoGraph"} => hasGraph
       /\ pc[c] \in Creating => op[c] = "create"
       /\ pc[c] \in {"read", "write"} => op[c] = "update"
       /\ pc[c] \in Removing => op[c] = "remove"
       /\ pc[c] = "check" => op[c] \in {"create", "update"}

\* Who has company knows it, and a removal has none while torn is FALSE.
Company ==
  /\ \A c, d \in Clients : c # d /\ pc[c] # "idle" /\ pc[d] # "idle" =>
       crowd[c] /\ (~torn => pc[c] \notin Removing)
  /\ last # "none" => Idle

\* The metadata, the vector collection and the graph belong together.
Whole ==
  /\ vec = IF meta # {} THEN "ready" ELSE "absent"
  /\ (graph <=> hasGraph /\ meta # {})

\* How far the building or the removal has come, by what is there.
Built == ~torn =>
  /\ kept \subseteq meta
  /\ \A c, d \in Clients : pc[c] \in Building /\ pc[d] \in Building => c = d
  /\ (\A c \in Clients : pc[c] \notin Building \cup {"graphCheck", "graphDrop", "metaDrop"}) =>
       Whole
  /\ \A c \in Clients :
       /\ pc[c] \notin {"undoVector", "undoBoth", "undoGraph"}
       /\ pc[c] \in Building => meta = {}
       /\ pc[c] = "index" => vec = "bare" /\ ~graph
       /\ pc[c] = "graphCreate" => vec = "ready" /\ ~graph
       /\ pc[c] = "save" => vec = "ready" /\ (graph <=> hasGraph)
       /\ pc[c] \in {"read", "write"} => meta # {}
       /\ pc[c] = "write" => kept \subseteq read[c]
       /\ pc[c] \in {"graphCheck", "graphDrop", "metaDrop"} => vec = "absent"
       /\ pc[c] = "graphCheck" => (graph <=> hasGraph /\ meta # {})
       /\ pc[c] = "metaDrop" => ~graph

\* What an operation without company or failed calls has done so far.
Alone ==
  /\ \A c \in Clients : ~crowd[c] =>
       /\ pc[c] \in {"graphCheck", "graphDrop", "metaDrop"} => vec = "absent"
       /\ pc[c] = "metaDrop" => ~graph
       /\ pc[c] \in {"graphCreate", "save"} => vec = "ready"
       /\ pc[c] = "save" => (graph <=> hasGraph)
  /\ last = "remove" => meta = {} /\ vec = "absent" /\ ~graph
  /\ last = "create" => meta # {} /\ vec = "ready" /\ (graph <=> hasGraph)

\* TypeOK in three parts.
BackendTypes ==
  /\ hasStore \in BOOLEAN /\ hasGraph \in BOOLEAN /\ system \in BOOLEAN
  /\ vec \in {"absent", "bare", "ready"} /\ graph \in BOOLEAN
  /\ meta \subseteq Clients \cup Bare

ClientTypes ==
  /\ pc \in [Clients -> {"idle", "check", "read", "write"} \cup Creating \cup Removing]
  /\ op \in [Clients -> {"none", "create", "update", "remove"}]
  /\ read \in [Clients -> SUBSET (Clients \cup Bare)]

CountTypes ==
  /\ ops \in 0..MaxOps /\ faults \in 0..MaxFaults
  /\ torn \in BOOLEAN /\ crowd \in [Clients -> BOOLEAN] /\ failed \in [Clients -> BOOLEAN]
  /\ kept \subseteq Clients /\ last \in {"none", "create", "update", "remove"}

\* What a step of client c may do to the counters and the history.
Tally(c) ==
  /\ UNCHANGED ops /\ (Works \/ Fails(c))
  /\ failed' = failed \/ \E b \in BOOLEAN : failed' = [failed EXCEPT ![c] = b]
  /\ kept' \in {kept, {}, kept \cup {c}}
  /\ last' \in {last, "none", op[c], "remove"}

IInv == TypeOK /\ Frame /\ Company /\ Built /\ Alone

-----------------------------------------------------------------------------
\* What a step may count and remember.
LEMMA StepTallies == ASSUME TypeOK, NEW c \in Clients, Step(c) PROVE Tally(c)
<1> USE DEF TypeOK, Tally, Works, Fails, GiveUp, Return, Goto, At, config, backends
<1>1. CASE Check(c)
  BY <1>1 DEF Check, CollectionExists
<1>2. CASE Ensure(c)
  BY <1>2 DEF Ensure
<1>3. CASE EnsureCreate(c)
  BY <1>3 DEF EnsureCreate
<1>4. CASE VectorCreate(c)
  BY <1>4 DEF VectorCreate
<1>5. CASE VectorIndex(c)
  BY <1>5 DEF VectorIndex
<1>6. CASE GraphCreate(c)
  BY <1>6 DEF GraphCreate
<1>7. CASE SaveNew(c)
  BY <1>7 DEF SaveNew, Save, Bare
<1>8. CASE UndoVector(c)
  BY <1>8 DEF UndoVector
<1>9. CASE UndoGraph(c)
  BY <1>9 DEF UndoGraph
<1>10. CASE ReadMeta(c)
  BY <1>10 DEF ReadMeta, Bare
<1>11. CASE WriteMeta(c)
  BY <1>11 DEF WriteMeta, Save
<1>12. CASE VectorCheck(c)
  BY <1>12 DEF VectorCheck, Noted
<1>13. CASE VectorDrop(c)
  BY <1>13 DEF VectorDrop, Noted
<1>14. CASE GraphCheck(c)
  BY <1>14 DEF GraphCheck, Noted
<1>15. CASE GraphDrop(c)
  BY <1>15 DEF GraphDrop, Noted
<1>16. CASE MetaDrop(c)
  BY <1>16 DEF MetaDrop
<1>17. QED
  BY <1>1, <1>2, <1>3, <1>4, <1>5, <1>6, <1>7, <1>8, <1>9, <1>10, <1>11, <1>12, <1>13, <1>14,
     <1>15, <1>16 DEF Step

\* The parts make up TypeOK.
LEMMA TypeParts ==
  /\ TypeOK => BackendTypes /\ ClientTypes /\ CountTypes
  /\ BackendTypes /\ ClientTypes /\ CountTypes => TypeOK
<1>1. ASSUME TypeOK PROVE BackendTypes
  BY <1>1 DEF TypeOK, BackendTypes
<1>2. ASSUME TypeOK PROVE ClientTypes
  BY <1>2 DEF TypeOK, ClientTypes, Creating, Removing
<1>3. ASSUME TypeOK PROVE CountTypes
  BY <1>3 DEF TypeOK, CountTypes
<1>4. ASSUME BackendTypes, ClientTypes, CountTypes PROVE TypeOK
  BY <1>4 DEF TypeOK, BackendTypes, ClientTypes, CountTypes, Creating, Removing
<1>5. QED
  BY <1>1, <1>2, <1>3, <1>4

\* Each step keeps the types of what the services hold.
LEMMA BackendTypesKept == ASSUME TypeOK, [Next]_vars PROVE BackendTypes'
<1>1. CASE UNCHANGED vars
  BY <1>1 DEF vars, config, backends, bounds, history, TypeOK, BackendTypes
<1>2. ASSUME NEW c \in Clients, NEW kind \in {"create", "update", "remove"}, Begin(c, kind)
      PROVE BackendTypes'
  BY <1>2 DEF Begin, Busy, TypeOK, BackendTypes, Goto, config, backends
<1>3. ASSUME NEW c \in Clients, Step(c)
      PROVE BackendTypes'
  <2> USE DEF TypeOK, BackendTypes, Works, Fails, GiveUp, Return, Goto, At, config, backends
  <2>1. CASE Check(c)
    BY <2>1 DEF Check, CollectionExists
  <2>2. CASE Ensure(c)
    BY <2>2 DEF Ensure
  <2>3. CASE EnsureCreate(c)
    BY <2>3 DEF EnsureCreate
  <2>4. CASE VectorCreate(c)
    BY <2>4 DEF VectorCreate
  <2>5. CASE VectorIndex(c)
    BY <2>5 DEF VectorIndex
  <2>6. CASE GraphCreate(c)
    BY <2>6 DEF GraphCreate
  <2>7. CASE SaveNew(c)
    BY <2>7 DEF SaveNew, Save, Bare
  <2>8. CASE UndoVector(c)
    BY <2>8 DEF UndoVector
  <2>9. CASE UndoGraph(c)
    BY <2>9 DEF UndoGraph
  <2>10. CASE ReadMeta(c)
    BY <2>10 DEF ReadMeta, Bare
  <2>11. CASE WriteMeta(c)
    BY <2>11 DEF WriteMeta, Save
  <2>12. CASE VectorCheck(c)
    BY <2>12 DEF VectorCheck, Noted
  <2>13. CASE VectorDrop(c)
    BY <2>13 DEF VectorDrop, Noted
  <2>14. CASE GraphCheck(c)
    BY <2>14 DEF GraphCheck, Noted
  <2>15. CASE GraphDrop(c)
    BY <2>15 DEF GraphDrop, Noted
  <2>16. CASE MetaDrop(c)
    BY <2>16 DEF MetaDrop
  <2>17. QED
    BY <1>3, <2>1, <2>2, <2>3, <2>4, <2>5, <2>6, <2>7, <2>8, <2>9, <2>10, <2>11, <2>12, <2>13,
       <2>14, <2>15, <2>16 DEF Step
<1>4. QED
  BY <1>1, <1>2, <1>3 DEF Next

\* Each step keeps the types of what the clients hold.
LEMMA ClientTypesKept == ASSUME TypeOK, [Next]_vars PROVE ClientTypes'
<1>1. CASE UNCHANGED vars
  BY <1>1 DEF vars, config, backends, bounds, history, TypeOK, ClientTypes, Creating, Removing
<1>2. ASSUME NEW c \in Clients, NEW kind \in {"create", "update", "remove"}, Begin(c, kind)
      PROVE ClientTypes'
  BY <1>2 DEF Begin, Busy, TypeOK, ClientTypes, Creating, Removing, Goto, config, backends
<1>3. ASSUME NEW c \in Clients, Step(c)
      PROVE ClientTypes'
  <2> USE DEF TypeOK, ClientTypes, Creating, Removing, Works, Fails, GiveUp, Return, Goto, At,
     config, backends
  <2>1. CASE Check(c)
    BY <2>1 DEF Check, CollectionExists
  <2>2. CASE Ensure(c)
    BY <2>2 DEF Ensure
  <2>3. CASE EnsureCreate(c)
    BY <2>3 DEF EnsureCreate
  <2>4. CASE VectorCreate(c)
    BY <2>4 DEF VectorCreate
  <2>5. CASE VectorIndex(c)
    BY <2>5 DEF VectorIndex
  <2>6. CASE GraphCreate(c)
    BY <2>6 DEF GraphCreate
  <2>7. CASE SaveNew(c)
    BY <2>7 DEF SaveNew, Save, Bare
  <2>8. CASE UndoVector(c)
    BY <2>8 DEF UndoVector
  <2>9. CASE UndoGraph(c)
    BY <2>9 DEF UndoGraph
  <2>10. CASE ReadMeta(c)
    BY <2>10 DEF ReadMeta, Bare
  <2>11. CASE WriteMeta(c)
    BY <2>11 DEF WriteMeta, Save
  <2>12. CASE VectorCheck(c)
    BY <2>12 DEF VectorCheck, Noted
  <2>13. CASE VectorDrop(c)
    BY <2>13 DEF VectorDrop, Noted
  <2>14. CASE GraphCheck(c)
    BY <2>14 DEF GraphCheck, Noted
  <2>15. CASE GraphDrop(c)
    BY <2>15 DEF GraphDrop, Noted
  <2>16. CASE MetaDrop(c)
    BY <2>16 DEF MetaDrop
  <2>17. QED
    BY <1>3, <2>1, <2>2, <2>3, <2>4, <2>5, <2>6, <2>7, <2>8, <2>9, <2>10, <2>11, <2>12, <2>13,
       <2>14, <2>15, <2>16 DEF Step
<1>4. QED
  BY <1>1, <1>2, <1>3 DEF Next

\* Each step keeps the types of the counters and the history.
LEMMA CountTypesKept == ASSUME TypeOK, [Next]_vars PROVE CountTypes'
<1>1. CASE UNCHANGED vars
  BY <1>1 DEF vars, config, backends, bounds, history, TypeOK, CountTypes
<1>2. ASSUME NEW c \in Clients, NEW kind \in {"create", "update", "remove"}, Begin(c, kind)
      PROVE CountTypes'
  <2>1. (ops \in 0..MaxOps /\ faults \in 0..MaxFaults)'
    BY <1>2, CollectionAssumption DEF Begin, TypeOK
  <2>2. (torn \in BOOLEAN)'
    BY <1>2 DEF Begin, TypeOK
  <2>3. (crowd \in [Clients -> BOOLEAN])'
    BY <1>2 DEF Begin, TypeOK
  <2>4. (failed \in [Clients -> BOOLEAN])'
    BY <1>2 DEF Begin, TypeOK
  <2>5. (kept \subseteq Clients /\ last \in {"none", "create", "update", "remove"})'
    BY <1>2 DEF Begin, TypeOK
  <2>6. QED
    BY <2>1, <2>2, <2>3, <2>4, <2>5 DEF CountTypes
<1>3. ASSUME NEW c \in Clients, Step(c)
      PROVE CountTypes'
  <2>1. Tally(c)
    BY <1>3, StepTallies
  <2>2. (ops \in 0..MaxOps /\ faults \in 0..MaxFaults)'
    BY <2>1, CollectionAssumption DEF Tally, Works, Fails, TypeOK
  <2>3. (torn \in BOOLEAN /\ crowd \in [Clients -> BOOLEAN])'
    BY <2>1 DEF Tally, Works, Fails, TypeOK
  <2>4. (failed \in [Clients -> BOOLEAN])'
    BY <2>1 DEF Tally, TypeOK
  <2>5. (kept \subseteq Clients /\ last \in {"none", "create", "update", "remove"})'
    BY <2>1 DEF Tally, TypeOK
  <2>6. QED
    BY <2>2, <2>3, <2>4, <2>5 DEF CountTypes
<1>4. QED
  BY <1>1, <1>2, <1>3 DEF Next

\* Each step keeps who is where.
LEMMA FrameKept == ASSUME TypeOK, Frame, [Next]_vars PROVE Frame'
<1>1. CASE UNCHANGED vars
  BY <1>1 DEF vars, config, backends, bounds, history, TypeOK, Frame, Creating, Removing
<1>2. ASSUME NEW c \in Clients, NEW kind \in {"create", "update", "remove"}, Begin(c, kind)
      PROVE Frame'
  BY <1>2 DEF Begin, Busy, TypeOK, Frame, Creating, Removing, Goto, config, backends
<1>3. ASSUME NEW c \in Clients, Step(c)
      PROVE Frame'
  <2> USE DEF TypeOK, Frame, Creating, Removing, Works, Fails, GiveUp, Return, Goto, At, config,
     backends
  <2>1. CASE Check(c)
    BY <2>1 DEF Check, CollectionExists
  <2>2. CASE Ensure(c)
    BY <2>2 DEF Ensure
  <2>3. CASE EnsureCreate(c)
    BY <2>3 DEF EnsureCreate
  <2>4. CASE VectorCreate(c)
    BY <2>4 DEF VectorCreate
  <2>5. CASE VectorIndex(c)
    BY <2>5 DEF VectorIndex
  <2>6. CASE GraphCreate(c)
    BY <2>6 DEF GraphCreate
  <2>7. CASE SaveNew(c)
    BY <2>7 DEF SaveNew, Save, Bare
  <2>8. CASE UndoVector(c)
    BY <2>8 DEF UndoVector
  <2>9. CASE UndoGraph(c)
    BY <2>9 DEF UndoGraph
  <2>10. CASE ReadMeta(c)
    BY <2>10 DEF ReadMeta, Bare
  <2>11. CASE WriteMeta(c)
    BY <2>11 DEF WriteMeta, Save
  <2>12. CASE VectorCheck(c)
    BY <2>12 DEF VectorCheck, Noted
  <2>13. CASE VectorDrop(c)
    BY <2>13 DEF VectorDrop, Noted
  <2>14. CASE GraphCheck(c)
    BY <2>14 DEF GraphCheck, Noted
  <2>15. CASE GraphDrop(c)
    BY <2>15 DEF GraphDrop, Noted
  <2>16. CASE MetaDrop(c)
    BY <2>16 DEF MetaDrop
  <2>17. QED
    BY <1>3, <2>1, <2>2, <2>3, <2>4, <2>5, <2>6, <2>7, <2>8, <2>9, <2>10, <2>11, <2>12, <2>13,
       <2>14, <2>15, <2>16 DEF Step
<1>4. QED
  BY <1>1, <1>2, <1>3 DEF Next

\* Who meets another operation learns it.
LEMMA CompanyKept == ASSUME TypeOK, Frame, Company, [Next]_vars PROVE Company'
<1>1. CASE UNCHANGED vars
  BY <1>1 DEF vars, config, backends, bounds, history, TypeOK, Frame, Company, Idle, Creating,
     Removing
<1>2. ASSUME NEW c \in Clients, NEW kind \in {"create", "update", "remove"}, Begin(c, kind)
      PROVE Company'
  <2>1. pc[c] = "idle" /\ pc' = [pc EXCEPT ![c] = IF kind = "remove" THEN "vecCheck" ELSE "check"]
    BY <1>2 DEF Begin, Goto
  <2>2. ASSUME NEW d \in Clients, NEW e \in Clients, d # e, pc'[d] # "idle", pc'[e] # "idle"
        PROVE crowd'[d] /\ (~torn' => pc'[d] \notin Removing)
    <3>1. (d = c \/ d \in Busy) /\ (e = c \/ e \in Busy) /\ Busy # {}
      BY <2>1, <2>2 DEF Busy, TypeOK
    <3>2. crowd'[d]
      BY <1>2, <3>1 DEF Begin
    <3>3. ASSUME ~torn', d = c PROVE pc'[d] \notin Removing
      BY <1>2, <2>1, <2>2, <3>1, <3>3 DEF Begin, Removing, TypeOK
    <3>4. ASSUME ~torn', d # c, e = c PROVE pc'[d] \notin Removing
      BY <1>2, <2>1, <2>2, <3>1, <3>4 DEF Begin, Removing, Frame, TypeOK
    <3>5. ASSUME ~torn', d # c, e # c PROVE pc'[d] \notin Removing
      BY <1>2, <2>1, <2>2, <3>5 DEF Begin, Company, TypeOK
    <3>6. QED
      BY <3>2, <3>3, <3>4, <3>5
  <2>3. last' = "none"
    BY <1>2 DEF Begin
  <2>4. QED
    BY <2>2, <2>3 DEF Company
<1>3. ASSUME NEW c \in Clients, Step(c)
      PROVE Company'
  <2> USE DEF TypeOK, Frame, Company, Idle, Creating, Removing, Works, Fails, GiveUp, Return,
     Goto, At, config, backends
  <2>1. CASE Check(c)
    BY <2>1 DEF Check, CollectionExists
  <2>2. CASE Ensure(c)
    BY <2>2 DEF Ensure
  <2>3. CASE EnsureCreate(c)
    BY <2>3 DEF EnsureCreate
  <2>4. CASE VectorCreate(c)
    BY <2>4 DEF VectorCreate
  <2>5. CASE VectorIndex(c)
    BY <2>5 DEF VectorIndex
  <2>6. CASE GraphCreate(c)
    BY <2>6 DEF GraphCreate
  <2>7. CASE SaveNew(c)
    BY <2>7 DEF SaveNew, Save, Bare
  <2>8. CASE UndoVector(c)
    BY <2>8 DEF UndoVector
  <2>9. CASE UndoGraph(c)
    BY <2>9 DEF UndoGraph
  <2>10. CASE ReadMeta(c)
    BY <2>10 DEF ReadMeta, Bare
  <2>11. CASE WriteMeta(c)
    BY <2>11 DEF WriteMeta, Save
  <2>12. CASE VectorCheck(c)
    BY <2>12 DEF VectorCheck, Noted
  <2>13. CASE VectorDrop(c)
    BY <2>13 DEF VectorDrop, Noted
  <2>14. CASE GraphCheck(c)
    BY <2>14 DEF GraphCheck, Noted
  <2>15. CASE GraphDrop(c)
    BY <2>15 DEF GraphDrop, Noted
  <2>16. CASE MetaDrop(c)
    BY <2>16 DEF MetaDrop
  <2>17. QED
    BY <1>3, <2>1, <2>2, <2>3, <2>4, <2>5, <2>6, <2>7, <2>8, <2>9, <2>10, <2>11, <2>12, <2>13,
       <2>14, <2>15, <2>16 DEF Step
<1>4. QED
  BY <1>1, <1>2, <1>3 DEF Next

\* Each step takes the building, or the removal, one part further.
LEMMA BuiltKept == ASSUME TypeOK, Frame, Company, Built, [Next]_vars PROVE Built'
<1>1. CASE UNCHANGED vars
  BY <1>1 DEF vars, config, backends, bounds, history, TypeOK, Frame, Company, Built, Creating,
     Building, Removing, Whole
<1>2. ASSUME NEW c \in Clients, NEW kind \in {"create", "update", "remove"}, Begin(c, kind)
      PROVE Built'
  BY <1>2 DEF Begin, Busy, TypeOK, Frame, Company, Built, Creating, Building, Removing, Whole,
     Goto, config, backends
<1>3. ASSUME NEW c \in Clients, Step(c)
      PROVE Built'
  <2> USE DEF TypeOK, Frame, Company, Built, Creating, Building, Removing, Whole, Works, Fails,
     GiveUp, Return, Goto, At, config, backends
  <2>1. CASE Check(c)
    BY <2>1 DEF Check, CollectionExists
  <2>2. CASE Ensure(c)
    BY <2>2 DEF Ensure
  <2>3. CASE EnsureCreate(c)
    BY <2>3 DEF EnsureCreate
  <2>4. CASE VectorCreate(c)
    BY <2>4 DEF VectorCreate
  <2>5. CASE VectorIndex(c)
    BY <2>5 DEF VectorIndex
  <2>6. CASE GraphCreate(c)
    BY <2>6 DEF GraphCreate
  <2>7. CASE SaveNew(c)
    BY <2>7 DEF SaveNew, Save, Bare
  <2>8. CASE UndoVector(c)
    BY <2>8 DEF UndoVector
  <2>9. CASE UndoGraph(c)
    BY <2>9 DEF UndoGraph
  <2>10. CASE ReadMeta(c)
    BY <2>10 DEF ReadMeta, Bare
  <2>11. CASE WriteMeta(c)
    BY <2>11 DEF WriteMeta, Save
  <2>12. CASE VectorCheck(c)
    BY <2>12 DEF VectorCheck, Noted
  <2>13. CASE VectorDrop(c)
    BY <2>13 DEF VectorDrop, Noted
  <2>14. CASE GraphCheck(c)
    BY <2>14 DEF GraphCheck, Noted
  <2>15. CASE GraphDrop(c)
    BY <2>15 DEF GraphDrop, Noted
  <2>16. CASE MetaDrop(c)
    BY <2>16 DEF MetaDrop
  <2>17. QED
    BY <1>3, <2>1, <2>2, <2>3, <2>4, <2>5, <2>6, <2>7, <2>8, <2>9, <2>10, <2>11, <2>12, <2>13,
       <2>14, <2>15, <2>16 DEF Step
<1>4. QED
  BY <1>1, <1>2, <1>3 DEF Next

\* An operation without company finds what it has done.
LEMMA AloneKept == ASSUME TypeOK, Frame, Company, Alone, [Next]_vars PROVE Alone'
<1>1. CASE UNCHANGED vars
  BY <1>1 DEF vars, config, backends, bounds, history, TypeOK, Frame, Company, Alone, Idle,
     Creating, Removing
<1>2. ASSUME NEW c \in Clients, NEW kind \in {"create", "update", "remove"}, Begin(c, kind)
      PROVE Alone'
  BY <1>2 DEF Begin, Busy, TypeOK, Frame, Company, Alone, Idle, Creating, Removing, Goto,
     config, backends
<1>3. ASSUME NEW c \in Clients, Step(c)
      PROVE Alone'
  <2> USE DEF TypeOK, Frame, Company, Alone, Idle, Creating, Removing, Works, Fails, GiveUp,
     Return, Goto, At, config, backends
  <2>1. CASE Check(c)
    BY <2>1 DEF Check, CollectionExists
  <2>2. CASE Ensure(c)
    BY <2>2 DEF Ensure
  <2>3. CASE EnsureCreate(c)
    BY <2>3 DEF EnsureCreate
  <2>4. CASE VectorCreate(c)
    BY <2>4 DEF VectorCreate
  <2>5. CASE VectorIndex(c)
    BY <2>5 DEF VectorIndex
  <2>6. CASE GraphCreate(c)
    BY <2>6 DEF GraphCreate
  <2>7. CASE SaveNew(c)
    BY <2>7 DEF SaveNew, Save, Bare
  <2>8. CASE UndoVector(c)
    BY <2>8 DEF UndoVector
  <2>9. CASE UndoGraph(c)
    BY <2>9 DEF UndoGraph
  <2>10. CASE ReadMeta(c)
    BY <2>10 DEF ReadMeta, Bare
  <2>11. CASE WriteMeta(c)
    BY <2>11 DEF WriteMeta, Save
  <2>12. CASE VectorCheck(c)
    BY <2>12 DEF VectorCheck, Noted
  <2>13. CASE VectorDrop(c)
    BY <2>13 DEF VectorDrop, Noted
  <2>14. CASE GraphCheck(c)
    BY <2>14 DEF GraphCheck, Noted
  <2>15. CASE GraphDrop(c)
    BY <2>15 DEF GraphDrop, Noted
  <2>16. CASE MetaDrop(c)
    BY <2>16 DEF MetaDrop
  <2>17. QED
    BY <1>3, <2>1, <2>2, <2>3, <2>4, <2>5, <2>6, <2>7, <2>8, <2>9, <2>10, <2>11, <2>12, <2>13,
       <2>14, <2>15, <2>16 DEF Step
<1>4. QED
  BY <1>1, <1>2, <1>3 DEF Next
\* The inductive invariant holds from the start and forever.
THEOREM Invariance == Spec => []IInv
<1>1. Init => IInv
  <2> SUFFICES ASSUME Init PROVE IInv
    OBVIOUS
  <2> USE CollectionAssumption DEF Init, Bare
  <2>1. TypeOK
    <3>1. BackendTypes
      BY DEF BackendTypes
    <3>2. ClientTypes
      BY DEF ClientTypes
    <3>3. ops \in 0..MaxOps /\ faults \in 0..MaxFaults
      OBVIOUS
    <3>4. torn \in BOOLEAN /\ crowd \in [Clients -> BOOLEAN] /\ failed \in [Clients -> BOOLEAN]
      OBVIOUS
    <3>5. kept \subseteq Clients /\ last \in {"none", "create", "update", "remove"}
      OBVIOUS
    <3>6. QED
      BY <3>1, <3>2, <3>3, <3>4, <3>5, TypeParts DEF CountTypes
  <2>2. Frame
    BY DEF Frame, Creating, Removing
  <2>3. Company
    BY DEF Company, Idle
  <2>4. Built
    BY DEF Built, Building, Whole
  <2>5. Alone
    BY DEF Alone
  <2>6. QED
    BY <2>1, <2>2, <2>3, <2>4, <2>5 DEF IInv
<1>2. IInv /\ [Next]_vars => IInv'
  <2> SUFFICES ASSUME IInv, [Next]_vars PROVE IInv'
    OBVIOUS
  <2>1. TypeOK'
    BY BackendTypesKept, ClientTypesKept, CountTypesKept, PTL, TypeParts DEF IInv
  <2>2. Frame' /\ Company' /\ Built' /\ Alone'
    BY FrameKept, CompanyKept, BuiltKept, AloneKept DEF IInv
  <2>3. QED
    BY <2>1, <2>2 DEF IInv
<1>3. QED
  BY <1>1, <1>2, PTL DEF Spec

\* Every variable keeps its type.
THEOREM TypeCorrect == Spec => []TypeOK
<1>1. IInv => TypeOK
  BY DEF IInv
<1>2. QED
  BY <1>1, Invariance, PTL

\* Without failed calls, and removals that overlap another operation, a collection
\* at rest is whole or absent (CreateCollection, RemoveCollection).
THEOREM WholeOrAbsent == Spec => []NoHalves
<1>1. IInv => NoHalves
  BY DEF IInv, TypeOK, Built, Whole, Building, NoHalves, Idle
<1>2. QED
  BY <1>1, Invariance, PTL

\* Updates that were acknowledged and had no company stay in the metadata
\* (UpdateCollectionMetadata).
THEOREM AcknowledgedStay == Spec => []UpdatesKept
<1>1. IInv => UpdatesKept
  BY DEF IInv, Built, UpdatesKept
<1>2. QED
  BY <1>1, Invariance, PTL

\* A removal that runs alone leaves nothing, and a creation that succeeds alone
\* has made everything, whatever they have found.
THEOREM RepairedAlone == Spec => []Heals
<1>1. IInv => Heals
  BY DEF IInv, TypeOK, Alone, Heals
<1>2. QED
  BY <1>1, Invariance, PTL
=============================================================================
