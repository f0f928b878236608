------------------------- MODULE V8DispatcherProofs -------------------------
(***************************************************************************)
(* Proofs about V8Dispatcher for any callers, any sizes of the pool and    *)
(* any number of runners and executions.                                   *)
(*                                                                         *)
(* That a runner is in one place follows from how far the execution for    *)
(* the caller that holds it has come (Uses): between two commands of that  *)
(* execution its goroutine has nothing else in its channel, so every       *)
(* command finds it where the code expects it.  Runners that a Context has *)
(* executed on (spoiled) are exempt, for which this is not so.             *)
(***************************************************************************)
EXTENDS V8Dispatcher, FiniteSetTheorems, TLAPS

\* Runners are numbered as they are created.
Numbered == \A r \in Runners : rpc[r] = "none" <=> r > created

\* What a caller holds and has asked for, by where it stands.
Seated ==
  \A c \in Callers :
    /\ pc[c] \in {"idle", "select"} <=> hold[c] = NoRunner
    /\ pc[c] = "select" => op[c] \in Operations
    /\ pc[c] = "open" => op[c] \in {"context", "contextWith"}
    /\ pc[c] \in {"exec", "signal", "listen", "wait"} =>
         /\ op[c] \in {"process", "context", "contextWith"}
         /\ hold[c] \notin spoiled => op[c] = "process"
    /\ pc[c] \in {"signal", "listen"} => request[hold[c]] # NoRequest
    /\ pc[c] = "wait" <=> listen[c] # NoRequest

\* A request is made once, of the runner its caller holds: no other runner is
\* asked, or answers, and nobody else listens for it.
Asked(r) == {request[r], reply[r]}

Issued ==
  /\ \A r \in Runners, d \in Callers, n \in Nat : <<d, n>> \in Asked(r) =>
       n <= calls[d] /\ (pc[d] \in {"select", "exec"} => n # calls[d])
  /\ \A c, d \in Callers, n \in Nat : listen[c] = <<d, n>> =>
       n <= calls[d] /\ (pc[d] \in {"select", "exec"} => n # calls[d])
  /\ \A d \in Callers : pc[d] \in {"signal", "listen", "wait"} /\ hold[d] \notin spoiled =>
       /\ \A r \in Runners : <<d, calls[d]>> \in Asked(r) => r = hold[d]
       /\ \A c \in Callers : listen[c] = <<d, calls[d]>> => c = d

\* No runner is offered twice or held by two callers.
Unique ==
  /\ \A i, j \in DOMAIN availables :
       availables[i] = availables[j] /\ availables[i] \notin spoiled => i = j
  /\ \A c, d \in Callers :
       hold[c] = hold[d] /\ hold[c] \notin spoiled \cup {NoRunner} => c = d

\* Some element of the channel of the dispatcher is r; some caller holds it.
Offered(r) == \E i \in DOMAIN availables : availables[i] = r
Held(r) == \E c \in Callers : hold[c] = r

\* The goroutine waits for a command, and none is on its way.
Waits(r) == rpc[r] \in {"ready", "loop"} /\ signal[r] = <<>> /\ resets[r] = 0

\* How far the execution for caller c has come.
Uses(c, r) ==
  /\ resets[r] = 0
  /\ pc[c] \in {"open", "exec", "signal"} => Waits(r)
  /\ pc[c] \in {"signal", "listen", "wait"} => request[r] = <<c, calls[c]>>
  /\ pc[c] \in {"listen", "wait"} =>
       \/ rpc[r] \in {"ready", "loop"} /\ signal[r] = <<"exec">>
       \/ rpc[r] = "exec" /\ signal[r] = <<>> /\ ran[r] = <<c, calls[c]>>
       \/ rpc[r] = "respond" /\ signal[r] = <<>> /\ ran[r] = <<c, calls[c]>> /\ reply[r] = ran[r]
  /\ pc[c] = "wait" => listen[c] = <<c, calls[c]>>

\* On its way back to the pool: a Reset is to be sent, is in the channel, or is
\* under way; a new runner starts where a reset one ends.
Returns(r) ==
  \/ resets[r] = 1 /\ signal[r] = <<>> /\ rpc[r] = "loop"
  \/ resets[r] = 0 /\ signal[r] = <<"reset">> /\ rpc[r] \in {"ready", "loop"}
  \/ resets[r] = 0 /\ signal[r] = <<>> /\ rpc[r] \in {"start", "reset", "online"}

\* On its way to its end, from the health check that fails to destroy.
Retires(r) ==
  /\ resets[r] = 0
  /\ \/ signal[r] = <<>> /\ rpc[r] \in {"condemn", "destroy", "discount", "dead"}
     \/ signal[r] = <<"destroy">> /\ rpc[r] \in {"replace", "wait", "loop"}

\* The one place of a runner.
Place(r) ==
  \/ Offered(r) /\ ~Held(r) /\ r \notin leaked /\ Waits(r)
  \/ ~Offered(r) /\ Held(r) /\ r \notin leaked /\ \A c \in Callers : hold[c] = r => Uses(c, r)
  \/ ~Offered(r) /\ ~Held(r) /\ r \in leaked /\ Waits(r)
  \/ ~Offered(r) /\ ~Held(r) /\ r \notin leaked /\ (Returns(r) \/ Retires(r))
  \/ /\ ~Offered(r) /\ ~Held(r) /\ r \notin leaked
     /\ rpc[r] = "none" /\ signal[r] = <<>> /\ resets[r] = 0

Placed == \A r \in Runners \ spoiled : Place(r)

IInv == TypeOK /\ Numbered /\ Seated /\ Issued /\ Unique /\ Placed

\* What a step leaves alone that leaves runner r in its place.
Still(r) ==
  /\ rpc'[r] = rpc[r] /\ signal'[r] = signal[r] /\ resets'[r] = resets[r]
  /\ request'[r] = request[r] /\ ran'[r] = ran[r] /\ reply'[r] = reply[r]
  /\ Offered(r)' <=> Offered(r)
  /\ r \in leaked' <=> r \in leaked
  /\ \A c \in Callers :
       /\ hold'[c] = r <=> hold[c] = r
       /\ hold[c] = r => pc'[c] = pc[c] /\ calls'[c] = calls[c] /\ listen'[c] = listen[c]

\* TypeOK in six parts.
PoolTypes ==
  /\ availables \in Seq(Runners) /\ Len(availables) <= Max
  /\ missed \in BOOLEAN
  /\ spawned \in Nat /\ started \in 0..Min
  /\ spc \in {"tick", "loop"} /\ si \in 0..UintMod

CountTypes ==
  /\ total \in 0..(UintMod - 1)
  /\ cnt \in [Runners -> {"none", "load", "store", "counted"}]
  /\ seen \in [Runners -> 0..(UintMod - 1)] /\ left \in [Runners -> 0..(UintMod - 1)]

CreateTypes ==
  /\ created \in 0..MaxRunners
  /\ by \in [Runners -> Runners \union {NoRunner, ByStart, ByScaling, BySelect}]
  /\ rpc \in [Runners -> Commands \union {"none", "start", "ready", "loop", "online",
                 "condemn", "replace", "wait", "respond", "discount", "dead"}]

SignalTypes ==
  /\ signal \in [Runners -> Seq(Commands)]
  /\ \A q \in Runners : Len(signal[q]) <= 2
  /\ resets \in [Runners -> Nat]

RequestTypes ==
  /\ request \in [Runners -> Requests \union {NoRequest}]
  /\ ran \in [Runners -> Requests \union {NoRequest}]
  /\ reply \in [Runners -> Requests \union {NoRequest}]
  /\ listen \in [Callers -> Requests \union {NoRequest}]

CallerTypes ==
  /\ pc \in [Callers -> {"idle", "select", "open", "exec", "signal", "listen", "wait"}]
  /\ op \in [Callers -> Operations \union {"none"}]
  /\ hold \in [Callers -> Runners \union {NoRunner}]
  /\ calls \in [Callers -> Nat] /\ ticks \in [Callers -> 0..(Ticks - 1)]
  /\ spoiled \subseteq Runners /\ leaked \subseteq Runners

LEMMA TypeParts == TypeOK <=> PoolTypes /\ CountTypes /\ CreateTypes
                           /\ SignalTypes /\ RequestTypes /\ CallerTypes
<1>1. TypeOK => PoolTypes
  BY DEF TypeOK, PoolTypes
<1>2. TypeOK => CountTypes
  BY DEF TypeOK, CountTypes
<1>3. TypeOK => CreateTypes
  BY DEF TypeOK, CreateTypes
<1>4. TypeOK => SignalTypes
  BY DEF TypeOK, SignalTypes
<1>5. TypeOK => RequestTypes
  BY DEF TypeOK, RequestTypes
<1>6. TypeOK => CallerTypes
  BY DEF TypeOK, CallerTypes
<1>7. PoolTypes /\ CountTypes /\ CreateTypes /\ SignalTypes /\ RequestTypes /\ CallerTypes => TypeOK
  BY DEF TypeOK, PoolTypes, CountTypes, CreateTypes, SignalTypes, RequestTypes, CallerTypes
<1>8. QED
  BY <1>1, <1>2, <1>3, <1>4, <1>5, <1>6, <1>7

-----------------------------------------------------------------------------
\* Making the next runner keeps the types.
LEMMA CreateKeeps ==
  ASSUME CreateTypes, NEW who \in Runners \cup {NoRunner, ByStart, ByScaling, BySelect},
         CanCreate, Create(who)
  PROVE CreateTypes'
<1>1. created + 1 \in Runners
  BY PoolAssumption DEF CreateTypes, CanCreate, Runners
<1>2. created' \in 0..MaxRunners
  BY <1>1 DEF Create, CreateTypes, Runners
<1>3. (by \in [Runners -> Runners \union {NoRunner, ByStart, ByScaling, BySelect}])'
  BY <1>1 DEF Create, CreateTypes
<1>4. (rpc \in [Runners -> Commands \union {"none", "start", "ready", "loop", "online",
                 "condemn", "replace", "wait", "respond", "discount", "dead"}])'
  BY <1>1 DEF Create, CreateTypes
<1>5. QED
  BY <1>2, <1>3, <1>4 DEF CreateTypes

\* So does create, whether or not it makes one.
LEMMA CreateOrNotKeeps ==
  ASSUME CreateTypes, NEW who \in Runners \cup {NoRunner, ByStart, ByScaling, BySelect},
         CreateOrNot(who)
  PROVE CreateTypes'
<1>1. CASE CanCreate
  BY <1>1, CreateKeeps DEF CreateOrNot
<1>2. CASE ~CanCreate
  BY <1>2 DEF CreateOrNot, CreateTypes
<1>3. QED
  BY <1>1, <1>2

\* A command is appended, or nothing is sent to a closed channel.
LEMMA SendKeeps ==
  ASSUME SignalTypes, NEW r \in Runners, NEW command \in Commands, Send(r, command),
         \/ UNCHANGED resets
         \/ resets[r] > 0 /\ resets' = [resets EXCEPT ![r] = @ - 1]
  PROVE SignalTypes'
<1>1. resets' \in [Runners -> Nat]
  BY DEF SignalTypes
<1>2. CASE Closed(r)
  BY <1>1, <1>2 DEF Send, SignalTypes
<1>3. CASE ~Closed(r)
  <2>1. /\ signal' = [signal EXCEPT ![r] = Append(signal[r], command)]
        /\ Len(signal[r]) < 2 /\ signal[r] \in Seq(Commands)
    BY <1>3 DEF Send, SignalTypes
  <2>2. Append(signal[r], command) \in Seq(Commands) /\ Len(Append(signal[r], command)) <= 2
    BY <2>1
  <2>3. signal' \in [Runners -> Seq(Commands)]
    BY <2>1, <2>2 DEF SignalTypes
  <2>4. \A q \in Runners : Len(signal'[q]) <= 2
    BY <2>1, <2>2 DEF SignalTypes
  <2>5. QED
    BY <1>1, <2>3, <2>4 DEF SignalTypes
<1>4. QED
  BY <1>2, <1>3

\* A caller that leaves keeps its runner or returns.
LEMMA LeaveKeeps ==
  ASSUME CallerTypes, NEW c \in Callers, Leave(c) \/ Return(c)
  PROVE /\ (pc \in [Callers -> {"idle", "select", "open", "exec", "signal", "listen", "wait"}])'
        /\ (op \in [Callers -> Operations \union {"none"}])'
        /\ (hold \in [Callers -> Runners \union {NoRunner}])'
<1>1. CASE Return(c)
  BY <1>1 DEF Return, CallerTypes
<1>2. CASE pc' = [pc EXCEPT ![c] = "open"] /\ UNCHANGED <<op, hold>>
  BY <1>2 DEF CallerTypes
<1>3. QED
  BY <1>1, <1>2 DEF Leave

\* Runners have their numbers whether or not create makes one.
LEMMA CreateNumbers ==
  ASSUME CreateTypes, Numbered, NEW who, CreateOrNot(who)
  PROVE Numbered'
<1>1. CASE CanCreate
  <2>1. created + 1 \in Runners /\ created \in Nat
    BY <1>1, PoolAssumption DEF CreateTypes, CanCreate, Runners
  <2>2. created' = created + 1 /\ rpc' = [rpc EXCEPT ![created + 1] = "start"]
    BY <1>1 DEF CreateOrNot, Create
  <2>3. ASSUME NEW r \in Runners PROVE rpc'[r] = "none" <=> r > created'
    BY <2>1, <2>2 DEF Numbered, CreateTypes, Runners
  <2>4. QED
    BY <2>3 DEF Numbered
<1>2. CASE ~CanCreate
  BY <1>2 DEF CreateOrNot, Numbered
<1>3. QED
  BY <1>1, <1>2

\* Each step keeps the types of what the dispatcher holds.
LEMMA PoolTypesKept == ASSUME PoolTypes, CountTypes, [Next]_vars PROVE PoolTypes'
<1> USE DEF PoolTypes, CountTypes, Runners, dispVars, createVars, scaleVars
<1>1. ASSUME UNCHANGED <<availables, missed, spawned, started, spc, si>> PROVE PoolTypes'
  BY <1>1 DEF PoolTypes
<1>2. CASE UNCHANGED vars
  BY <1>1, <1>2 DEF vars, dispVars, createVars, countVars, scaleVars, runVars, callVars
<1>3. CASE Start
  <2>1. (availables \in Seq(Runners) /\ Len(availables) <= Max)'
    BY PoolAssumption, <1>3 DEF Start
  <2>2. (missed \in BOOLEAN)'
    BY PoolAssumption, <1>3 DEF Start
  <2>3. (spawned \in Nat /\ started \in 0..Min)'
    BY PoolAssumption, <1>3 DEF Start
  <2>4. (spc \in {"tick", "loop"} /\ si \in 0..UintMod)'
    BY PoolAssumption, <1>3 DEF Start
  <2>5. QED
    BY <2>1, <2>2, <2>3, <2>4 DEF PoolTypes
<1>4. CASE Spawn
  <2>1. (availables \in Seq(Runners) /\ Len(availables) <= Max)'
    BY PoolAssumption, <1>4 DEF Spawn
  <2>2. (missed \in BOOLEAN)'
    BY PoolAssumption, <1>4 DEF Spawn
  <2>3. (spawned \in Nat /\ started \in 0..Min)'
    BY PoolAssumption, <1>4 DEF Spawn
  <2>4. (spc \in {"tick", "loop"} /\ si \in 0..UintMod)'
    BY PoolAssumption, <1>4 DEF Spawn
  <2>5. QED
    BY <2>1, <2>2, <2>3, <2>4 DEF PoolTypes
<1>5. CASE Scale
  <2>1. (availables \in Seq(Runners) /\ Len(availables) <= Max)'
    BY PoolAssumption, <1>5 DEF Scale
  <2>2. (missed \in BOOLEAN)'
    BY PoolAssumption, <1>5 DEF Scale
  <2>3. (spawned \in Nat /\ started \in 0..Min)'
    BY PoolAssumption, <1>5 DEF Scale
  <2>4. (spc \in {"tick", "loop"} /\ si \in 0..UintMod)'
    BY PoolAssumption, <1>5 DEF Scale
  <2>5. QED
    BY <2>1, <2>2, <2>3, <2>4 DEF PoolTypes
<1>6. CASE ScaleLoop
  <2>1. (Max + UintMod - total) % UintMod \in 0..UintMod
    BY PoolAssumption DEF CountTypes
  <2>2. spc' \in {"tick", "loop"} /\ si' \in 0..UintMod
    BY <1>6, <2>1, PoolAssumption DEF ScaleLoop, PoolTypes
  <2>3. QED
    BY <1>6, <2>2 DEF ScaleLoop, PoolTypes, dispVars
<1>7. ASSUME NEW r \in Runners, Runner(r) PROVE PoolTypes'
  <2>1. CASE Online(r)
    BY PoolAssumption, <2>1 DEF Online
  <2>2. CASE Ready(r) \/ Take(r) \/ Finish(r) \/ Reset(r) \/ Condemn(r) \/ Replace(r)
             \/ Replaced(r) \/ DestroyLoad(r) \/ Destroy(r) \/ SendReset(r) \/ CountLoad(r)
             \/ CountStore(r)
    BY <1>1, <2>2 DEF Ready, Take, Finish, Reset, Condemn, Replace, Replaced, DestroyLoad,
       Destroy, SendReset, CountLoad, CountStore, dispVars, createVars, countVars, scaleVars,
       runVars, callVars
  <2>3. ASSUME NEW c \in Callers, Respond(r, c) PROVE PoolTypes'
    BY <1>1, <2>3 DEF Respond, dispVars, createVars, countVars, scaleVars, runVars, callVars
  <2>4. QED
    BY <1>7, <2>1, <2>2, <2>3 DEF Runner, Goroutine, Count
<1>8. ASSUME NEW c \in Callers, Proceed(c) \/ Context(c) PROVE PoolTypes'
  <2>1. CASE Select(c)
    BY PoolAssumption, <2>1 DEF Select, Return
  <2>2. CASE Tick(c)
    <3>1. (availables \in Seq(Runners) /\ Len(availables) <= Max)'
      BY PoolAssumption, <2>2 DEF Tick
    <3>2. (missed \in BOOLEAN)'
      BY PoolAssumption, <2>2 DEF Tick
    <3>3. (spawned \in Nat /\ started \in 0..Min)'
      BY PoolAssumption, <2>2 DEF Tick
    <3>4. (spc \in {"tick", "loop"} /\ si \in 0..UintMod)'
      BY PoolAssumption, <2>2 DEF Tick
    <3>5. QED
      BY <3>1, <3>2, <3>3, <3>4 DEF PoolTypes
  <2>3. CASE Exec(c) \/ ExecSignal(c) \/ ExecListen(c) \/ ContextCall(c) \/ Cancel(c)
             \/ Close(c)
    BY <1>1, <2>3 DEF Exec, ExecSignal, ExecListen, ContextCall, Cancel, Close, dispVars,
       createVars, countVars, scaleVars, runVars, callVars
  <2>4. QED
    BY <1>8, <2>1, <2>2, <2>3 DEF Proceed, Context
<1>9. ASSUME NEW c \in Callers, NEW o \in Operations, Call(c, o) PROVE PoolTypes'
  BY <1>1, <1>9 DEF Call, dispVars, createVars, countVars, scaleVars, runVars, callVars
<1>10. QED
  BY <1>2, <1>3, <1>4, <1>5, <1>6, <1>7, <1>8, <1>9 DEF Next, Pool

\* Each step keeps the types of its count of runners.
LEMMA CountTypesKept == ASSUME CountTypes, [Next]_vars PROVE CountTypes'
<1> USE DEF CountTypes, countVars
<1>1. ASSUME UNCHANGED <<total, cnt, seen, left>> PROVE CountTypes'
  BY <1>1 DEF CountTypes
<1>2. CASE UNCHANGED vars
  BY <1>1, <1>2 DEF vars, dispVars, createVars, countVars, scaleVars, runVars, callVars
<1>3. CASE Start \/ Spawn \/ Scale \/ ScaleLoop
  BY <1>1, <1>3 DEF Start, Spawn, Scale, ScaleLoop, dispVars, createVars, countVars, scaleVars,
     runVars, callVars
<1>4. ASSUME NEW r \in Runners, Runner(r) PROVE CountTypes'
  <2>1. CASE Ready(r)
    BY <2>1 DEF Ready
  <2>2. CASE DestroyLoad(r)
    BY <2>2 DEF DestroyLoad
  <2>3. CASE Destroy(r)
    <3>1. (left[r] + UintMod - 1) % UintMod \in 0..(UintMod - 1)
      BY PoolAssumption DEF CountTypes
    <3>2. QED
      BY <2>3, <3>1, PoolAssumption DEF Destroy, CountTypes
  <2>4. CASE CountLoad(r)
    BY <2>4 DEF CountLoad
  <2>5. CASE CountStore(r)
    BY <2>5, PoolAssumption DEF CountStore
  <2>6. CASE Online(r) \/ Take(r) \/ Finish(r) \/ Reset(r) \/ Condemn(r) \/ Replace(r)
             \/ Replaced(r) \/ SendReset(r)
    BY <1>1, <2>6 DEF Online, Take, Finish, Reset, Condemn, Replace, Replaced, SendReset,
       dispVars, createVars, countVars, scaleVars, runVars, callVars
  <2>7. ASSUME NEW c \in Callers, Respond(r, c) PROVE CountTypes'
    BY <1>1, <2>7 DEF Respond, dispVars, createVars, countVars, scaleVars, runVars, callVars
  <2>8. QED
    BY <1>4, <2>1, <2>2, <2>3, <2>4, <2>5, <2>6, <2>7 DEF Runner, Goroutine, Count
<1>5. ASSUME NEW c \in Callers, Proceed(c) \/ Context(c) PROVE CountTypes'
  BY <1>1, <1>5 DEF Proceed, Context, Select, Tick, Exec, ExecSignal, ExecListen, ContextCall,
     Cancel, Close, dispVars, createVars, countVars, scaleVars, runVars, callVars
<1>6. ASSUME NEW c \in Callers, NEW o \in Operations, Call(c, o) PROVE CountTypes'
  BY <1>1, <1>6 DEF Call, dispVars, createVars, countVars, scaleVars, runVars, callVars
<1>7. QED
  BY <1>2, <1>3, <1>4, <1>5, <1>6 DEF Next, Pool

\* Each step keeps the types of what it creates.
LEMMA CreateTypesKept == ASSUME CreateTypes, SignalTypes, [Next]_vars PROVE CreateTypes'
<1> USE DEF CreateTypes, SignalTypes, Runners, Commands, createVars, runVars
<1>1. ASSUME UNCHANGED <<created, by, rpc>> PROVE CreateTypes'
  BY <1>1 DEF CreateTypes
<1>2. CASE UNCHANGED vars
  BY <1>1, <1>2 DEF vars, dispVars, createVars, countVars, scaleVars, runVars, callVars
<1>3. CASE Start
  BY <1>3, CreateOrNotKeeps DEF Start
<1>4. CASE Spawn
  BY <1>4, CreateOrNotKeeps DEF Spawn
<1>5. CASE ScaleLoop
  BY <1>5, CreateOrNotKeeps DEF ScaleLoop, CreateTypes
<1>6. CASE Scale
  BY <1>1, <1>6 DEF Scale, dispVars, createVars, countVars, scaleVars, runVars, callVars
<1>7. ASSUME NEW r \in Runners, Runner(r) PROVE CreateTypes'
  <2>1. CASE Online(r)
    BY <2>1 DEF Online
  <2>2. CASE Ready(r)
    BY <2>2 DEF Ready
  <2>3. CASE Take(r)
    BY <2>3 DEF Take
  <2>4. CASE Finish(r)
    BY <2>4 DEF Finish
  <2>5. CASE Reset(r)
    BY <2>5 DEF Reset
  <2>6. CASE Condemn(r)
    BY <2>6 DEF Condemn, Send, Closed
  <2>7. CASE Replace(r)
    <3>1. CASE CanCreate
      <4>1. created + 1 \in Runners
        BY PoolAssumption, <3>1 DEF CreateTypes, CanCreate, Runners
      <4>2. created' \in 0..MaxRunners
        BY <2>7, <3>1, <4>1 DEF Replace, CreateTypes, Runners
      <4>3. (by \in [Runners -> Runners \union {NoRunner, ByStart, ByScaling, BySelect}])'
        BY <2>7, <3>1, <4>1 DEF Replace, CreateTypes
      <4>4. (rpc \in [Runners -> Commands \union {"none", "start", "ready", "loop", "online",
                       "condemn", "replace", "wait", "respond", "discount", "dead"}])'
        BY <2>7, <3>1, <4>1 DEF Replace, CreateTypes
      <4>5. QED
        BY <4>2, <4>3, <4>4 DEF CreateTypes
    <3>2. CASE ~CanCreate
      BY <2>7, <3>2 DEF Replace, CreateTypes
    <3>3. QED
      BY <3>1, <3>2
  <2>8. CASE Replaced(r)
    BY <2>8 DEF Replaced
  <2>9. CASE DestroyLoad(r)
    BY <2>9 DEF DestroyLoad
  <2>10. CASE Destroy(r)
    BY <2>10 DEF Destroy
  <2>11. CASE CountStore(r)
    BY <2>11 DEF CountStore
  <2>12. CASE SendReset(r) \/ CountLoad(r)
    BY <1>1, <2>12 DEF SendReset, CountLoad, dispVars, createVars, countVars, scaleVars,
       runVars, callVars
  <2>13. ASSUME NEW c \in Callers, Respond(r, c) PROVE CreateTypes'
    BY <2>13 DEF Respond, Leave, Return
  <2>14. QED
    BY <1>7, <2>1, <2>2, <2>3, <2>4, <2>5, <2>6, <2>7, <2>8, <2>9, <2>10, <2>11, <2>12, <2>13
       DEF Runner, Goroutine, Count
<1>8. ASSUME NEW c \in Callers, Proceed(c) \/ Context(c) PROVE CreateTypes'
  BY <1>1, <1>8 DEF Proceed, Context, Select, Tick, Exec, ExecSignal, ExecListen, ContextCall,
     Cancel, Close, dispVars, createVars, countVars, scaleVars, runVars, callVars
<1>9. ASSUME NEW c \in Callers, NEW o \in Operations, Call(c, o) PROVE CreateTypes'
  BY <1>1, <1>9 DEF Call, dispVars, createVars, countVars, scaleVars, runVars, callVars
<1>10. QED
  BY <1>2, <1>3, <1>4, <1>5, <1>6, <1>7, <1>8, <1>9 DEF Next, Pool

\* Each step keeps the types of what runners are sent.
LEMMA SignalTypesKept == ASSUME SignalTypes, CallerTypes, Seated, [Next]_vars PROVE SignalTypes'
<1> USE DEF SignalTypes, CallerTypes, Seated, Commands, runVars
<1>1. ASSUME UNCHANGED <<signal, resets>> PROVE SignalTypes'
  BY <1>1 DEF SignalTypes
<1>2. CASE UNCHANGED vars
  BY <1>1, <1>2 DEF vars, dispVars, createVars, countVars, scaleVars, runVars, callVars
<1>3. CASE Start \/ Spawn \/ Scale \/ ScaleLoop
  BY <1>1, <1>3 DEF Start, Spawn, Scale, ScaleLoop, dispVars, createVars, countVars, scaleVars,
     runVars, callVars
<1>4. ASSUME NEW r \in Runners, Runner(r) PROVE SignalTypes'
  <2>1. CASE Take(r)
    <3>1. signal[r] \in Seq(Commands) /\ signal[r] # <<>> /\ Len(signal[r]) <= 2
      BY <2>1 DEF Take, SignalTypes
    <3>2. Tail(signal[r]) \in Seq(Commands) /\ Len(Tail(signal[r])) <= 2
      BY <3>1
    <3>3. signal' = [signal EXCEPT ![r] = Tail(signal[r])] /\ UNCHANGED resets
      BY <2>1 DEF Take
    <3>4. signal' \in [Runners -> Seq(Commands)]
      BY <3>2, <3>3 DEF SignalTypes
    <3>5. \A q \in Runners : Len(signal'[q]) <= 2
      BY <3>2, <3>3 DEF SignalTypes
    <3>6. QED
      BY <3>3, <3>4, <3>5 DEF SignalTypes
  <2>2. CASE Condemn(r)
    BY <2>2, SendKeeps DEF Condemn, Commands
  <2>3. CASE Destroy(r)
    <3>1. <<>> \in Seq(Commands) /\ Len(<<>>) <= 2
      OBVIOUS
    <3>2. signal' = [signal EXCEPT ![r] = <<>>] /\ UNCHANGED resets
      BY <2>3 DEF Destroy
    <3>3. signal' \in [Runners -> Seq(Commands)]
      BY <3>1, <3>2 DEF SignalTypes
    <3>4. \A q \in Runners : Len(signal'[q]) <= 2
      BY <3>1, <3>2 DEF SignalTypes
    <3>5. QED
      BY <3>2, <3>3, <3>4 DEF SignalTypes
  <2>4. CASE SendReset(r)
    BY <2>4, SendKeeps DEF SendReset, Commands
  <2>5. CASE Online(r) \/ Ready(r) \/ Finish(r) \/ Reset(r) \/ Replace(r) \/ Replaced(r)
             \/ DestroyLoad(r) \/ CountLoad(r) \/ CountStore(r)
    BY <1>1, <2>5 DEF Online, Ready, Finish, Reset, Replace, Replaced, DestroyLoad, CountLoad,
       CountStore, dispVars, createVars, countVars, scaleVars, runVars, callVars
  <2>6. ASSUME NEW c \in Callers, Respond(r, c) PROVE SignalTypes'
    BY <2>6 DEF Respond, Leave, Return
  <2>7. QED
    BY <1>4, <2>1, <2>2, <2>3, <2>4, <2>5, <2>6 DEF Runner, Goroutine, Count
<1>5. ASSUME NEW c \in Callers, Proceed(c) \/ Context(c) PROVE SignalTypes'
  <2>1. CASE ExecSignal(c)
    <3>1. hold[c] \in Runners
      BY <2>1 DEF ExecSignal, Seated, CallerTypes
    <3>2. QED
      BY <2>1, <3>1, SendKeeps DEF ExecSignal, Commands, runVars
  <2>2. CASE Close(c)
    <3>1. hold[c] \in Runners
      BY <2>2 DEF Close, Seated, CallerTypes
    <3>2. QED
      BY <2>2, <3>1, SendKeeps DEF Close, Commands, runVars
  <2>3. CASE Select(c) \/ Tick(c) \/ Exec(c) \/ ExecListen(c) \/ ContextCall(c) \/ Cancel(c)
    BY <1>1, <2>3 DEF Select, Tick, Exec, ExecListen, ContextCall, Cancel, dispVars,
       createVars, countVars, scaleVars, runVars, callVars
  <2>4. QED
    BY <1>5, <2>1, <2>2, <2>3 DEF Proceed, Context
<1>6. ASSUME NEW c \in Callers, NEW o \in Operations, Call(c, o) PROVE SignalTypes'
  BY <1>1, <1>6 DEF Call, dispVars, createVars, countVars, scaleVars, runVars, callVars
<1>7. QED
  BY <1>2, <1>3, <1>4, <1>5, <1>6 DEF Next, Pool

\* Each step keeps the types of what runners are asked for.
LEMMA RequestTypesKept == ASSUME RequestTypes, CallerTypes, Seated, [Next]_vars PROVE RequestTypes'
<1> USE DEF RequestTypes, CallerTypes, Seated, Requests, runVars, callVars
<1>1. ASSUME UNCHANGED <<request, ran, reply, listen>> PROVE RequestTypes'
  BY <1>1 DEF RequestTypes
<1>2. CASE UNCHANGED vars
  BY <1>1, <1>2 DEF vars, dispVars, createVars, countVars, scaleVars, runVars, callVars
<1>3. CASE Start \/ Spawn \/ Scale \/ ScaleLoop
  BY <1>1, <1>3 DEF Start, Spawn, Scale, ScaleLoop, dispVars, createVars, countVars, scaleVars,
     runVars, callVars
<1>4. ASSUME NEW r \in Runners, Runner(r) PROVE RequestTypes'
  <2>1. CASE Take(r)
    BY <2>1 DEF Take
  <2>2. CASE Finish(r)
    BY <2>2 DEF Finish
  <2>3. CASE Online(r) \/ Ready(r) \/ Reset(r) \/ Condemn(r) \/ Replace(r) \/ Replaced(r)
             \/ DestroyLoad(r) \/ Destroy(r) \/ SendReset(r) \/ CountLoad(r)
             \/ CountStore(r)
    BY <1>1, <2>3 DEF Online, Ready, Reset, Condemn, Replace, Replaced, DestroyLoad, Destroy,
       SendReset, CountLoad, CountStore, dispVars, createVars, countVars, scaleVars, runVars,
       callVars
  <2>4. ASSUME NEW c \in Callers, Respond(r, c) PROVE RequestTypes'
    BY <2>4 DEF Respond, Leave, Return
  <2>5. QED
    BY <1>4, <2>1, <2>2, <2>3, <2>4 DEF Runner, Goroutine, Count
<1>5. ASSUME NEW c \in Callers, Proceed(c) \/ Context(c) PROVE RequestTypes'
  <2>1. CASE Exec(c)
    <3>1. hold[c] \in Runners /\ <<c, calls[c]>> \in Requests
      BY <2>1 DEF Exec, Seated, CallerTypes, Requests
    <3>2. QED
      BY <2>1, <3>1 DEF Exec, RequestTypes, runVars
  <2>2. CASE ExecListen(c)
    BY <2>2 DEF ExecListen
  <2>3. CASE Cancel(c)
    BY <2>3 DEF Cancel
  <2>4. CASE Select(c) \/ Tick(c) \/ ExecSignal(c) \/ ContextCall(c) \/ Close(c)
    BY <1>1, <2>4 DEF Select, Tick, ExecSignal, ContextCall, Close, dispVars, createVars,
       countVars, scaleVars, runVars, callVars
  <2>5. QED
    BY <1>5, <2>1, <2>2, <2>3, <2>4 DEF Proceed, Context
<1>6. ASSUME NEW c \in Callers, NEW o \in Operations, Call(c, o) PROVE RequestTypes'
  BY <1>1, <1>6 DEF Call, dispVars, createVars, countVars, scaleVars, runVars, callVars
<1>7. QED
  BY <1>2, <1>3, <1>4, <1>5, <1>6 DEF Next, Pool

\* Each step keeps the types of the callers.
LEMMA CallerTypesKept == ASSUME CallerTypes, PoolTypes, Seated, [Next]_vars PROVE CallerTypes'
<1> USE DEF CallerTypes, callVars
<1>1. ASSUME UNCHANGED <<pc, op, hold, calls, ticks, spoiled, leaked>> PROVE CallerTypes'
  BY <1>1 DEF CallerTypes
<1>2. CASE UNCHANGED vars
  BY <1>1, <1>2 DEF vars, dispVars, createVars, countVars, scaleVars, runVars, callVars
<1>3. CASE Start \/ Spawn \/ Scale \/ ScaleLoop
  BY <1>1, <1>3 DEF Start, Spawn, Scale, ScaleLoop, dispVars, createVars, countVars, scaleVars,
     runVars, callVars
<1>4. ASSUME NEW r \in Runners, Runner(r) PROVE CallerTypes'
  <2>1. CASE Online(r) \/ Ready(r) \/ Take(r) \/ Finish(r) \/ Reset(r) \/ Condemn(r)
             \/ Replace(r) \/ Replaced(r) \/ DestroyLoad(r) \/ Destroy(r) \/ SendReset(r)
             \/ CountLoad(r) \/ CountStore(r)
    BY <1>1, <2>1 DEF Online, Ready, Take, Finish, Reset, Condemn, Replace, Replaced,
       DestroyLoad, Destroy, SendReset, CountLoad, CountStore, dispVars, createVars, countVars,
       scaleVars, runVars, callVars
  <2>2. ASSUME NEW c \in Callers, Respond(r, c) PROVE CallerTypes'
    <3>1. /\ (pc \in [Callers -> {"idle", "select", "open", "exec", "signal", "listen", "wait"}])'
          /\ (op \in [Callers -> Operations \union {"none"}])'
          /\ (hold \in [Callers -> Runners \union {NoRunner}])'
      BY <2>2, LeaveKeeps DEF Respond
    <3>2. QED
      BY <2>2, <3>1 DEF Respond, CallerTypes
  <2>3. QED
    BY <1>4, <2>1, <2>2 DEF Runner, Goroutine, Count
<1>5. ASSUME NEW c \in Callers, Proceed(c) \/ Context(c) PROVE CallerTypes'
  <2>1. CASE Select(c)
    <3>1. /\ (pc \in [Callers -> {"idle", "select", "open", "exec", "signal", "listen", "wait"}])'
          /\ (op \in [Callers -> Operations \union {"none"}])'
          /\ (hold \in [Callers -> Runners \union {NoRunner}])'
      <4>1. CASE op[c] = "direct"
        BY <2>1, <4>1, LeaveKeeps DEF Select
      <4>2. CASE ~(op[c] = "direct")
        <5>0. Head(availables) \in Runners
          BY <2>1 DEF Select, PoolTypes
        <5>1. (pc \in [Callers -> {"idle", "select", "open", "exec", "signal", "listen", "wait"}])'
          BY <2>1, <4>2 DEF Select, CallerTypes
        <5>2. (op \in [Callers -> Operations \union {"none"}])'
          BY <2>1, <4>2 DEF Select, CallerTypes
        <5>3. (hold \in [Callers -> Runners \union {NoRunner}])'
          BY <2>1, <4>2, <5>0 DEF Select, CallerTypes
        <5>4. QED
          BY <5>1, <5>2, <5>3
      <4>3. QED
        BY <4>1, <4>2
    <3>2. (calls \in [Callers -> Nat] /\ ticks \in [Callers -> 0..(Ticks - 1)])'
      BY <2>1, PoolAssumption DEF Select, CallerTypes
    <3>3. (spoiled \subseteq Runners /\ leaked \subseteq Runners)'
      BY <2>1 DEF Select, CallerTypes, PoolTypes, dispVars
    <3>4. QED
      BY <3>1, <3>2, <3>3 DEF CallerTypes
  <2>2. CASE Tick(c)
    <3>1. /\ (pc \in [Callers -> {"idle", "select", "open", "exec", "signal", "listen", "wait"}])'
          /\ (op \in [Callers -> Operations \union {"none"}])'
          /\ (hold \in [Callers -> Runners \union {NoRunner}])'
      <4>1. CASE ticks[c] + 1 = Ticks
        BY <2>2, <4>1, LeaveKeeps DEF Tick
      <4>2. CASE ~(ticks[c] + 1 = Ticks)
        <5>1. (pc \in [Callers -> {"idle", "select", "open", "exec", "signal", "listen", "wait"}])'
          BY <2>2, <4>2 DEF Tick, CallerTypes
        <5>2. (op \in [Callers -> Operations \union {"none"}])'
          BY <2>2, <4>2 DEF Tick, CallerTypes
        <5>3. (hold \in [Callers -> Runners \union {NoRunner}])'
          BY <2>2, <4>2 DEF Tick, CallerTypes
        <5>4. QED
          BY <5>1, <5>2, <5>3
      <4>3. QED
        BY <4>1, <4>2
    <3>2. (calls \in [Callers -> Nat] /\ ticks \in [Callers -> 0..(Ticks - 1)])'
      <4>1. CASE ticks[c] + 1 = Ticks
        BY <2>2, <4>1, PoolAssumption DEF Tick, CallerTypes
      <4>2. CASE ticks[c] + 1 # Ticks
        <5>1. ticks[c] + 1 \in 0..(Ticks - 1)
          BY <4>2, PoolAssumption DEF CallerTypes
        <5>2. ticks' = [ticks EXCEPT ![c] = @ + 1] /\ UNCHANGED calls
          BY <2>2, <4>2 DEF Tick
        <5>3. QED
          BY <5>1, <5>2 DEF CallerTypes
      <4>3. QED
        BY <4>1, <4>2
    <3>3. (spoiled \subseteq Runners /\ leaked \subseteq Runners)'
      BY <2>2 DEF Tick, CallerTypes
    <3>4. QED
      BY <3>1, <3>2, <3>3 DEF CallerTypes
  <2>3. CASE Exec(c)
    <3>1. /\ (pc \in [Callers -> {"idle", "select", "open", "exec", "signal", "listen", "wait"}])'
          /\ (op \in [Callers -> Operations \union {"none"}])'
          /\ (hold \in [Callers -> Runners \union {NoRunner}])'
      <4>1. CASE Closed(hold[c])
        BY <2>3, <4>1, LeaveKeeps DEF Exec
      <4>2. CASE ~(Closed(hold[c]))
        BY <2>3, <4>2 DEF Exec, CallerTypes
      <4>3. QED
        BY <4>1, <4>2
    <3>2. (calls \in [Callers -> Nat] /\ ticks \in [Callers -> 0..(Ticks - 1)])'
      BY <2>3 DEF Exec, CallerTypes
    <3>3. (spoiled \subseteq Runners /\ leaked \subseteq Runners)'
      BY <2>3 DEF Exec, CallerTypes
    <3>4. QED
      BY <3>1, <3>2, <3>3 DEF CallerTypes
  <2>4. CASE ExecSignal(c)
    <3>1. /\ (pc \in [Callers -> {"idle", "select", "open", "exec", "signal", "listen", "wait"}])'
          /\ (op \in [Callers -> Operations \union {"none"}])'
          /\ (hold \in [Callers -> Runners \union {NoRunner}])'
      <4>1. CASE Closed(hold[c])
        BY <2>4, <4>1, LeaveKeeps DEF ExecSignal
      <4>2. CASE ~(Closed(hold[c]))
        BY <2>4, <4>2 DEF ExecSignal, CallerTypes
      <4>3. QED
        BY <4>1, <4>2
    <3>2. (calls \in [Callers -> Nat] /\ ticks \in [Callers -> 0..(Ticks - 1)])'
      BY <2>4 DEF ExecSignal, CallerTypes
    <3>3. (spoiled \subseteq Runners /\ leaked \subseteq Runners)'
      BY <2>4 DEF ExecSignal, CallerTypes
    <3>4. QED
      BY <3>1, <3>2, <3>3 DEF CallerTypes
  <2>5. CASE ExecListen(c)
    BY <2>5 DEF ExecListen
  <2>6. CASE ContextCall(c)
    BY <2>6 DEF ContextCall, Seated
  <2>7. CASE Cancel(c)
    BY <2>7 DEF Cancel
  <2>8. CASE Close(c)
    <3>1. /\ (pc \in [Callers -> {"idle", "select", "open", "exec", "signal", "listen", "wait"}])'
          /\ (op \in [Callers -> Operations \union {"none"}])'
          /\ (hold \in [Callers -> Runners \union {NoRunner}])'
      BY <2>8, LeaveKeeps DEF Close
    <3>2. QED
      BY <2>8, <3>1 DEF Close, CallerTypes
  <2>9. QED
    BY <1>5, <2>1, <2>2, <2>3, <2>4, <2>5, <2>6, <2>7, <2>8 DEF Proceed, Context
<1>6. ASSUME NEW c \in Callers, NEW o \in Operations, Call(c, o) PROVE CallerTypes'
  BY <1>6, PoolAssumption DEF Call
<1>7. QED
  BY <1>2, <1>3, <1>4, <1>5, <1>6 DEF Next, Pool

\* Numbers are given in order.
LEMMA NumberedKept == ASSUME CreateTypes, SignalTypes, Numbered, [Next]_vars PROVE Numbered'
<1> USE DEF CreateTypes, SignalTypes, Numbered, Runners, Commands, createVars, runVars
<1>1. ASSUME UNCHANGED <<rpc, created>> PROVE Numbered'
  BY <1>1 DEF Numbered
<1>2. CASE UNCHANGED vars
  BY <1>1, <1>2 DEF vars, dispVars, createVars, countVars, scaleVars, runVars, callVars
<1>3. CASE Start
  BY <1>3, CreateNumbers DEF Start
<1>4. CASE Spawn
  BY <1>4, CreateNumbers DEF Spawn
<1>5. CASE ScaleLoop
  BY <1>5, CreateNumbers DEF ScaleLoop, Numbered
<1>6. CASE Scale
  BY <1>1, <1>6 DEF Scale, dispVars, createVars, countVars, scaleVars, runVars, callVars
<1>7. ASSUME NEW r \in Runners, Runner(r) PROVE Numbered'
  <2>1. CASE Online(r)
    BY <2>1 DEF Online
  <2>2. CASE Ready(r)
    BY <2>2 DEF Ready
  <2>3. CASE Take(r)
    <3>1. Head(signal[r]) \in Commands
      BY <2>3 DEF Take, SignalTypes
    <3>2. rpc'[r] # "none" /\ rpc[r] # "none" /\ \A q \in Runners \ {r} : rpc'[q] = rpc[q]
      BY <2>3, <3>1 DEF Take, Commands, CreateTypes
    <3>3. QED
      BY <2>3, <3>2 DEF Take, Numbered, createVars
  <2>4. CASE Finish(r)
    BY <2>4 DEF Finish
  <2>5. CASE Reset(r)
    BY <2>5 DEF Reset
  <2>6. CASE Condemn(r)
    BY <2>6 DEF Condemn, Send, Closed
  <2>7. CASE Replace(r)
    <3>1. CASE CanCreate
      <4>1. created + 1 \in Runners /\ created \in Nat /\ r \in Nat
        BY PoolAssumption, <3>1 DEF CreateTypes, CanCreate, Runners
      <4>2. /\ created' = created + 1 /\ rpc[r] = "replace"
            /\ rpc' = [rpc EXCEPT ![r] = "wait", ![created + 1] = "start"]
        BY <2>7, <3>1 DEF Replace
      <4>3. ASSUME NEW q \in Runners PROVE rpc'[q] = "none" <=> q > created'
        BY <4>1, <4>2 DEF Numbered, CreateTypes, Runners
      <4>4. QED
        BY <4>3 DEF Numbered
    <3>2. CASE ~CanCreate
      BY <2>7, <3>2 DEF Replace, Numbered, CreateTypes
    <3>3. QED
      BY <3>1, <3>2
  <2>8. CASE Replaced(r)
    BY <2>8 DEF Replaced
  <2>9. CASE DestroyLoad(r)
    BY <2>9 DEF DestroyLoad
  <2>10. CASE Destroy(r)
    BY <2>10 DEF Destroy
  <2>11. CASE SendReset(r) \/ CountLoad(r) \/ CountStore(r)
    BY <1>1, <2>11 DEF SendReset, CountLoad, CountStore, dispVars, createVars, countVars,
       scaleVars, runVars, callVars
  <2>12. ASSUME NEW c \in Callers, Respond(r, c) PROVE Numbered'
    BY <2>12 DEF Respond, Leave, Return
  <2>13. QED
    BY <1>7, <2>1, <2>2, <2>3, <2>4, <2>5, <2>6, <2>7, <2>8, <2>9, <2>10, <2>11, <2>12 DEF
       Runner, Goroutine, Count
<1>8. ASSUME NEW c \in Callers, Proceed(c) \/ Context(c) PROVE Numbered'
  BY <1>1, <1>8 DEF Proceed, Context, Select, Tick, Exec, ExecSignal, ExecListen, ContextCall,
     Cancel, Close, dispVars, createVars, countVars, scaleVars, runVars, callVars
<1>9. ASSUME NEW c \in Callers, NEW o \in Operations, Call(c, o) PROVE Numbered'
  BY <1>1, <1>9 DEF Call, dispVars, createVars, countVars, scaleVars, runVars, callVars
<1>10. QED
  BY <1>2, <1>3, <1>4, <1>5, <1>6, <1>7, <1>8, <1>9 DEF Next, Pool

\* NoRunner is not the number of a runner.
LEMMA NoRunnerIsNone == NoRunner \notin Runners
<1>1. NoRunner \notin Nat
  BY PoolAssumption
<1>2. QED
  BY <1>1 DEF Runners

\* Who returns holds nothing, who leaves does not listen.
LEMMA LeaveSeats ==
  ASSUME CallerTypes, Seated, NEW c \in Callers,
         pc[c] \in {"exec", "signal", "listen", "wait"}, Leave(c), listen'[c] = NoRequest
  PROVE /\ pc'[c] \in {"idle", "select"} <=> hold'[c] = NoRunner
        /\ pc'[c] = "open" => op'[c] \in {"context", "contextWith"}
        /\ pc'[c] \in {"idle", "open"}
        /\ \A d \in Callers \ {c} : pc'[d] = pc[d] /\ op'[d] = op[d] /\ hold'[d] = hold[d]
<1>1. CASE op[c] = "process"
  BY <1>1 DEF Leave, Return, CallerTypes
<1>2. CASE op[c] # "process"
  BY <1>2 DEF Leave, Seated, CallerTypes
<1>3. QED
  BY <1>1, <1>2

\* What callers hold and have asked for.
LEMMA SeatedKept == ASSUME PoolTypes, CallerTypes, RequestTypes, Seated, [Next]_vars PROVE Seated'
<1> USE DEF CallerTypes, RequestTypes, Operations, Requests, Seated, callVars
<1>1. ASSUME UNCHANGED <<pc, op, hold, listen, request, spoiled>> PROVE Seated'
  BY <1>1 DEF Seated
<1>2. CASE UNCHANGED vars
  BY <1>1, <1>2 DEF vars, dispVars, createVars, countVars, scaleVars, runVars, callVars
<1>3. CASE Start \/ Spawn \/ Scale \/ ScaleLoop
  BY <1>1, <1>3 DEF Start, Spawn, Scale, ScaleLoop, dispVars, createVars, countVars, scaleVars,
     runVars, callVars
<1>4. ASSUME NEW r \in Runners, Runner(r) PROVE Seated'
  <2>1. CASE Online(r) \/ Ready(r) \/ Take(r) \/ Finish(r) \/ Reset(r) \/ Condemn(r)
             \/ Replace(r) \/ Replaced(r) \/ DestroyLoad(r) \/ Destroy(r) \/ SendReset(r)
             \/ CountLoad(r) \/ CountStore(r)
    BY <1>1, <2>1 DEF Online, Ready, Take, Finish, Reset, Condemn, Replace, Replaced,
       DestroyLoad, Destroy, SendReset, CountLoad, CountStore, dispVars, createVars, countVars,
       scaleVars, runVars, callVars
  <2>2. ASSUME NEW c \in Callers, Respond(r, c) PROVE Seated'
    BY <2>2 DEF Respond, Leave, Return
  <2>3. QED
    BY <1>4, <2>1, <2>2 DEF Runner, Goroutine, Count
<1>5. ASSUME NEW c \in Callers, Proceed(c) \/ Context(c) PROVE Seated'
  <2>1. CASE Select(c)
    <3>1. Head(availables) \in Runners /\ Head(availables) # NoRunner
      <4>1. availables \in Seq(Runners) /\ availables # <<>>
        BY <2>1 DEF Select, PoolTypes
      <4>2. Head(availables) \in Runners
        BY <4>1
      <4>3. QED
        BY <4>2, NoRunnerIsNone
    <3>2. CASE op[c] = "direct"
      BY <2>1, <3>2 DEF Select, Return, Seated, CallerTypes
    <3>3. CASE op[c] # "direct"
      <4>1. /\ hold' = [hold EXCEPT ![c] = Head(availables)] /\ UNCHANGED <<op, listen, spoiled, request>>
            /\ pc' = [pc EXCEPT ![c] = IF op[c] = "process" THEN "exec" ELSE "open"]
            /\ pc[c] = "select"
        BY <2>1, <3>3 DEF Select
      <4>2. op[c] \in {"process", "context", "contextWith"} /\ listen[c] = NoRequest
        BY <3>3, <4>1 DEF Seated, Operations
      <4>3. QED
        BY <3>1, <4>1, <4>2 DEF Seated, CallerTypes
    <3>4. QED
      BY <3>2, <3>3
  <2>2. CASE Tick(c)
    BY <2>2 DEF Tick, Return
  <2>3. CASE Exec(c)
    <3>1. hold[c] \in Runners /\ <<c, calls[c]>> # NoRequest /\ listen[c] = NoRequest
      BY <2>3, PoolAssumption DEF Exec, Seated, CallerTypes
    <3>2. CASE Closed(hold[c])
      BY <2>3, <3>1, <3>2, LeaveSeats DEF Exec, Seated
    <3>3. CASE ~Closed(hold[c])
      <4>1. /\ request' = [request EXCEPT ![hold[c]] = <<c, calls[c]>>]
            /\ pc' = [pc EXCEPT ![c] = "signal"] /\ UNCHANGED <<op, hold, listen, spoiled>>
        BY <2>3, <3>3 DEF Exec
      <4>2. \A r \in Runners : request'[r] \in {request[r], <<c, calls[c]>>}
        BY <3>1, <4>1 DEF RequestTypes
      <4>3. \A d \in Callers : request[hold[d]] # NoRequest /\ hold[d] \in Runners =>
              request'[hold[d]] # NoRequest
        BY <3>1, <4>2
      <4>4. request'[hold[c]] # NoRequest
        BY <3>1, <4>1 DEF RequestTypes
      <4>5. pc[c] = "exec"
        BY <2>3 DEF Exec
      <4>6. ASSUME NEW d \in Callers, d # c, pc[d] \in {"signal", "listen"}
            PROVE request'[hold[d]] # NoRequest
        BY <4>3, <4>6 DEF Seated, CallerTypes
      <4>7. QED
        BY <4>1, <4>4, <4>5, <4>6 DEF Seated, CallerTypes
    <3>4. QED
      BY <3>2, <3>3
  <2>4. CASE ExecSignal(c)
    BY <2>4 DEF ExecSignal, Send, Closed, Leave, Return
  <2>5. CASE ExecListen(c)
    BY <2>5 DEF ExecListen
  <2>6. CASE ContextCall(c)
    BY <2>6 DEF ContextCall
  <2>7. CASE Cancel(c)
    BY <2>7 DEF Cancel
  <2>8. CASE Close(c)
    BY <2>8 DEF Close, Send, Closed, Return
  <2>9. QED
    BY <1>5, <2>1, <2>2, <2>3, <2>4, <2>5, <2>6, <2>7, <2>8 DEF Proceed, Context
<1>6. ASSUME NEW c \in Callers, NEW o \in Operations, Call(c, o) PROVE Seated'
  BY <1>6 DEF Call
<1>7. QED
  BY <1>2, <1>3, <1>4, <1>5, <1>6 DEF Next, Pool

\* Where nothing is asked that was not asked before, Issued stays.
LEMMA NothingAsked ==
  ASSUME CallerTypes, RequestTypes, Issued, UNCHANGED calls,
         \A r \in Runners : Asked(r)' \subseteq Asked(r) \cup {NoRequest},
         \A d \in Callers :
           /\ listen'[d] \in {listen[d], NoRequest}
           /\ pc'[d] \in {"select", "exec"} => pc[d] \in {"select", "exec"}
           /\ pc'[d] \in {"signal", "listen", "wait"} /\ hold'[d] \notin spoiled' =>
                pc[d] \in {"signal", "listen", "wait"} /\ hold[d] \notin spoiled /\ hold'[d] = hold[d]
  PROVE Issued'
<1>1. \A d \in Callers, n \in Nat : <<d, n>> # NoRequest
  BY PoolAssumption
<1>2. \A r \in Runners, d \in Callers, n \in Nat : <<d, n>> \in Asked(r)' => <<d, n>> \in Asked(r)
  BY <1>1
<1>3. \A c, d \in Callers, n \in Nat : listen'[c] = <<d, n>> => listen[c] = <<d, n>>
  BY <1>1
<1>4. \A d \in Callers : calls[d] \in Nat
  BY DEF CallerTypes
<1>5. (\A r \in Runners, d \in Callers, n \in Nat : <<d, n>> \in Asked(r) =>
         n <= calls[d] /\ (pc[d] \in {"select", "exec"} => n # calls[d]))'
  BY <1>2 DEF Issued
<1>6. (\A c, d \in Callers, n \in Nat : listen[c] = <<d, n>> =>
         n <= calls[d] /\ (pc[d] \in {"select", "exec"} => n # calls[d]))'
  BY <1>3 DEF Issued
<1>7. (\A d \in Callers : pc[d] \in {"signal", "listen", "wait"} /\ hold[d] \notin spoiled =>
         /\ \A r \in Runners : <<d, calls[d]>> \in Asked(r) => r = hold[d]
         /\ \A c \in Callers : listen[c] = <<d, calls[d]>> => c = d)'
  BY <1>2, <1>3, <1>4 DEF Issued
<1>8. QED
  BY <1>5, <1>6, <1>7 DEF Issued

\* Requests are made and answered once.
LEMMA IssuedKept == ASSUME CallerTypes, RequestTypes, Seated, Unique, Issued, [Next]_vars PROVE Issued'
<1>1. ASSUME UNCHANGED <<request, reply, listen, calls, pc, hold, spoiled>> PROVE Issued'
  BY <1>1 DEF Issued, Asked
<1>2. CASE UNCHANGED vars
  BY <1>1, <1>2 DEF vars, dispVars, createVars, countVars, scaleVars, runVars, callVars
<1>3. CASE Start \/ Spawn \/ Scale \/ ScaleLoop
  BY <1>1, <1>3 DEF Start, Spawn, Scale, ScaleLoop, dispVars, createVars, countVars, scaleVars,
     runVars, callVars
<1>4. ASSUME NEW r \in Runners, Runner(r) PROVE Issued'
  <2>1. CASE Finish(r)
    BY <2>1, NothingAsked DEF Finish, CallerTypes, RequestTypes, Asked, callVars
  <2>2. CASE Online(r) \/ Ready(r) \/ Take(r) \/ Reset(r) \/ Condemn(r) \/ Replace(r)
             \/ Replaced(r) \/ DestroyLoad(r) \/ Destroy(r) \/ SendReset(r) \/ CountLoad(r)
             \/ CountStore(r)
    BY <1>1, <2>2 DEF Online, Ready, Take, Reset, Condemn, Replace, Replaced, DestroyLoad,
       Destroy, SendReset, CountLoad, CountStore, dispVars, createVars, countVars, scaleVars,
       runVars, callVars
  <2>3. ASSUME NEW c \in Callers, Respond(r, c) PROVE Issued'
    <3>1. pc[c] = "wait" /\ pc'[c] \in {"idle", "open"}
          /\ \A d \in Callers \ {c} : pc'[d] = pc[d] /\ hold'[d] = hold[d]
      BY <2>3 DEF Respond, Leave, Return, CallerTypes
    <3>2. QED
      BY <2>3, <3>1, NothingAsked DEF Respond, CallerTypes, RequestTypes, Asked
  <2>4. QED
    BY <1>4, <2>1, <2>2, <2>3 DEF Runner, Goroutine, Count
<1>5. ASSUME NEW c \in Callers, Proceed(c) \/ Context(c) PROVE Issued'
  <2>1. CASE Select(c)
    <3>1. /\ pc[c] = "select" /\ pc'[c] \in {"idle", "open", "exec"}
          /\ \A d \in Callers \ {c} : pc'[d] = pc[d] /\ hold'[d] = hold[d]
      BY <2>1 DEF Select, Return, CallerTypes
    <3>2. QED
      BY <2>1, <3>1, NothingAsked DEF Select, CallerTypes, RequestTypes, Asked, runVars
  <2>2. CASE Tick(c)
    BY <2>2, NothingAsked DEF Tick, Return, CallerTypes, RequestTypes, Asked, runVars
  <2>3. CASE Exec(c)
    <3>1. hold[c] \in Runners /\ pc[c] = "exec" /\ UNCHANGED <<calls, listen, spoiled, reply>>
      BY <2>3 DEF Exec, Seated, CallerTypes, runVars
    <3>2. CASE Closed(hold[c])
      BY <2>3, <3>1, <3>2, NothingAsked DEF Exec, Leave, Return, CallerTypes, Asked
    <3>3. CASE ~Closed(hold[c])
      <4>1. /\ request' = [request EXCEPT ![hold[c]] = <<c, calls[c]>>]
            /\ pc' = [pc EXCEPT ![c] = "signal"] /\ UNCHANGED hold
        BY <2>3, <3>3 DEF Exec
      <4>2. \A r \in Runners : Asked(r)' \subseteq Asked(r) \cup (IF r = hold[c] THEN {<<c, calls[c]>>} ELSE {})
        BY <3>1, <4>1 DEF Asked, RequestTypes
      <4>3. /\ \A r \in Runners : <<c, calls[c]>> \notin Asked(r)
            /\ \A d \in Callers : listen[d] # <<c, calls[c]>>
        BY <3>1 DEF Issued, CallerTypes
      <4>4. ASSUME NEW r \in Runners, NEW d \in Callers, NEW n \in Nat, <<d, n>> \in Asked(r)'
            PROVE n <= calls[d] /\ (pc'[d] \in {"select", "exec"} => n # calls[d])
        <5>1. CASE <<d, n>> \in Asked(r)
          BY <4>1, <5>1 DEF Issued, CallerTypes
        <5>2. CASE <<d, n>> = <<c, calls[c]>>
          BY <4>1, <5>2 DEF CallerTypes
        <5>3. QED
          BY <4>2, <4>4, <5>1, <5>2
      <4>5. ASSUME NEW d \in Callers, pc'[d] \in {"signal", "listen", "wait"}, hold[d] \notin spoiled
            PROVE /\ \A r \in Runners : <<d, calls[d]>> \in Asked(r)' => r = hold[d]
                  /\ \A e \in Callers : listen[e] = <<d, calls[d]>> => e = d
        <5>1. CASE d = c
          BY <4>2, <4>3, <5>1
        <5>2. CASE d # c
          BY <4>1, <4>2, <4>5, <5>2 DEF Issued, CallerTypes
        <5>3. QED
          BY <5>1, <5>2
      <4>6. \A e, d \in Callers, n \in Nat : listen[e] = <<d, n>> =>
              n <= calls[d] /\ (pc'[d] \in {"select", "exec"} => n # calls[d])
        BY <4>1 DEF Issued, CallerTypes
      <4>7. QED
        BY <3>1, <4>1, <4>4, <4>5, <4>6 DEF Issued
    <3>4. QED
      BY <3>2, <3>3
  <2>4. CASE ExecSignal(c)
    BY <2>4, NothingAsked DEF ExecSignal, Send, Closed, Leave, Return, CallerTypes,
       RequestTypes, Asked, runVars
  <2>5. CASE ExecListen(c)
    <3>1. /\ hold[c] \in Runners /\ pc[c] = "listen" /\ listen' = [listen EXCEPT ![c] = request[hold[c]]]
          /\ pc' = [pc EXCEPT ![c] = "wait"] /\ UNCHANGED <<calls, hold, spoiled, request, reply>>
      BY <2>5 DEF ExecListen, Seated, CallerTypes, runVars
    <3>2. \A r \in Runners : Asked(r)' = Asked(r)
      BY <3>1 DEF Asked
    <3>3. (\A r \in Runners, d \in Callers, n \in Nat : <<d, n>> \in Asked(r) =>
             n <= calls[d] /\ (pc[d] \in {"select", "exec"} => n # calls[d]))'
      BY <3>1, <3>2 DEF Issued, CallerTypes
    <3>4. ASSUME NEW e \in Callers, NEW d \in Callers, NEW n \in Nat, listen'[e] = <<d, n>>
          PROVE n <= calls[d] /\ (pc'[d] \in {"select", "exec"} => n # calls[d])
      <4>1. CASE e = c
        <5>1. <<d, n>> \in Asked(hold[c])
          BY <3>1, <3>4, <4>1 DEF Asked, RequestTypes
        <5>2. QED
          BY <3>1, <5>1 DEF Issued, CallerTypes
      <4>2. CASE e # c
        BY <3>1, <3>4, <4>2 DEF Issued, CallerTypes
      <4>3. QED
        BY <4>1, <4>2
    <3>5. ASSUME NEW d \in Callers, pc'[d] \in {"signal", "listen", "wait"}, hold[d] \notin spoiled
          PROVE /\ \A r \in Runners : <<d, calls[d]>> \in Asked(r)' => r = hold[d]
                /\ \A e \in Callers : listen'[e] = <<d, calls[d]>> => e = d
      <4>1. pc[d] \in {"signal", "listen", "wait"}
        BY <3>1, <3>5 DEF CallerTypes
      <4>2. \A r \in Runners : <<d, calls[d]>> \in Asked(r)' => r = hold[d]
        BY <3>2, <3>5, <4>1 DEF Issued
      <4>3. ASSUME NEW e \in Callers, listen'[e] = <<d, calls[d]>> PROVE e = d
        <5>1. CASE e = c
          <6>1. <<d, calls[d]>> \in Asked(hold[c])'
            BY <3>1, <3>2, <4>3, <5>1 DEF Asked, RequestTypes
          <6>2. hold[c] = hold[d] /\ hold[c] # NoRunner
            BY <3>1, <4>2, <6>1, PoolAssumption DEF Runners
          <6>3. QED
            BY <3>5, <5>1, <6>2 DEF Unique
        <5>2. CASE e # c
          BY <3>1, <3>5, <4>1, <4>3, <5>2 DEF Issued, RequestTypes
        <5>3. QED
          BY <5>1, <5>2
      <4>4. QED
        BY <4>2, <4>3
    <3>6. QED
      BY <3>1, <3>3, <3>4, <3>5 DEF Issued
  <2>6. CASE ContextCall(c)
    BY <2>6 DEF ContextCall, Return, CallerTypes, Issued, Asked, runVars
  <2>7. CASE Cancel(c)
    BY <2>7, NothingAsked DEF Cancel, Closed, CallerTypes, RequestTypes, Asked, runVars
  <2>8. CASE Close(c)
    BY <2>8 DEF Close, Return, CallerTypes, Issued, Asked, runVars
  <2>9. QED
    BY <1>5, <2>1, <2>2, <2>3, <2>4, <2>5, <2>6, <2>7, <2>8 DEF Proceed, Context
<1>6. ASSUME NEW c \in Callers, NEW o \in Operations, Call(c, o) PROVE Issued'
  BY <1>6 DEF Call, CallerTypes, Issued, Asked, runVars
<1>7. QED
  BY <1>2, <1>3, <1>4, <1>5, <1>6 DEF Next, Pool

-----------------------------------------------------------------------------
\* What an append to, and the tail of, the channel of the dispatcher offer.
LEMMA OffersOne ==
  ASSUME PoolTypes, NEW r \in Runners, availables' = Append(availables, r)
  PROVE /\ Offered(r)'
        /\ \A q \in Runners \ {r} : Offered(q)' <=> Offered(q)
<1>1. /\ availables \in Seq(Runners) /\ Len(availables) \in Nat
      /\ DOMAIN availables = 1..Len(availables)
      /\ DOMAIN availables' = 1..(Len(availables) + 1)
      /\ availables'[Len(availables) + 1] = r
      /\ \A i \in 1..Len(availables) : availables'[i] = availables[i]
  BY DEF PoolTypes
<1>2. Offered(r)'
  BY <1>1 DEF Offered
<1>3. ASSUME NEW q \in Runners \ {r} PROVE Offered(q)' <=> Offered(q)
  BY <1>1 DEF Offered
<1>4. QED
  BY <1>2, <1>3

LEMMA TakesOne ==
  ASSUME PoolTypes, NEW r, availables # <<>>, availables' = Tail(availables),
         r = Head(availables)
  PROVE /\ r \in Runners /\ Offered(r)
        /\ \A q \in Runners \ {r} : Offered(q)' <=> Offered(q)
        /\ r \notin spoiled /\ Unique => ~Offered(r)'
<1>1. /\ availables \in Seq(Runners) /\ Len(availables) \in Nat \ {0}
      /\ DOMAIN availables = 1..Len(availables)
      /\ DOMAIN availables' = 1..(Len(availables) - 1)
      /\ \A i \in 1..(Len(availables) - 1) : availables'[i] = availables[i + 1]
      /\ r = availables[1]
  BY DEF PoolTypes
<1>2. r \in Runners /\ Offered(r)
  BY <1>1 DEF Offered
<1>3. ASSUME NEW q \in Runners \ {r} PROVE Offered(q)' <=> Offered(q)
  <2>1. ASSUME Offered(q)' PROVE Offered(q)
    BY <1>1, <2>1 DEF Offered
  <2>2. ASSUME Offered(q) PROVE Offered(q)'
    <3>1. PICK i \in 1..Len(availables) : availables[i] = q
      BY <1>1, <2>2 DEF Offered
    <3>2. i - 1 \in DOMAIN availables' /\ availables'[i - 1] = q
      BY <1>1, <1>3, <3>1
    <3>3. QED
      BY <3>2 DEF Offered
  <2>3. QED
    BY <2>1, <2>2
<1>4. ASSUME r \notin spoiled, Unique, Offered(r)' PROVE FALSE
  <2>1. PICK i \in DOMAIN availables' : availables'[i] = r
    BY <1>4 DEF Offered
  <2>2. i + 1 \in DOMAIN availables /\ 1 \in DOMAIN availables /\ i + 1 # 1
        /\ availables[i + 1] = availables[1]
    BY <1>1, <2>1
  <2>3. QED
    BY <1>1, <1>4, <2>2 DEF Unique
<1>5. QED
  BY <1>2, <1>3, <1>4

\* A runner that starts, is reset, or is condemned is nowhere else.
LEMMA BusyIsAway ==
  ASSUME CreateTypes, Seated, CallerTypes, NEW r \in Runners, Place(r),
         rpc[r] \in {"start", "reset", "online", "condemn", "replace", "wait", "destroy",
                     "discount", "dead"} \/ resets[r] # 0
  PROVE ~Offered(r) /\ ~Held(r) /\ r \notin leaked /\ (Returns(r) \/ Retires(r))
<1>1. ~Waits(r)
  BY DEF Waits
<1>2. ASSUME NEW c \in Callers, hold[c] = r PROVE ~Uses(c, r)
  <2>1. pc[c] \in {"open", "exec", "signal", "listen", "wait"}
    BY <1>2, NoRunnerIsNone DEF Seated, CallerTypes
  <2>2. QED
    BY <1>1, <2>1 DEF Uses
<1>3. QED
  BY <1>1, <1>2 DEF Place, Held

\* A runner that nothing has happened to keeps its place.
LEMMA StillInPlace ==
  ASSUME NEW r \in Runners, Place(r), Still(r)
  PROVE Place(r)'
<1>1. /\ Waits(r)' <=> Waits(r) 
      /\ Returns(r)' <=> Returns(r)
      /\ Retires(r)' <=> Retires(r)
      /\ Held(r)' <=> Held(r)
  BY DEF Still, Waits, Returns, Retires, Held
<1>2. \A c \in Callers : hold'[c] = r /\ Uses(c, r) => Uses(c, r)'
  BY <1>1 DEF Still, Uses
<1>3. QED
  BY <1>1, <1>2 DEF Still, Place

\* No runner gets a second place of a kind.
LEMMA UniqueKept == ASSUME PoolTypes, CreateTypes, SignalTypes, RequestTypes, CallerTypes,
         Seated, Unique, Placed, [Next]_vars PROVE Unique'
<1>1. ASSUME UNCHANGED <<availables, hold, spoiled>> PROVE Unique'
  BY <1>1 DEF Unique
<1>2. CASE UNCHANGED vars
  BY <1>1, <1>2 DEF vars, dispVars, createVars, countVars, scaleVars, runVars, callVars
<1>3. CASE Start \/ Spawn \/ Scale \/ ScaleLoop
  BY <1>1, <1>3 DEF Start, Spawn, Scale, ScaleLoop, dispVars, createVars, countVars, scaleVars,
     runVars, callVars
<1>4. ASSUME NEW r \in Runners, Runner(r) PROVE Unique'
  <2>1. CASE Online(r)
    <3>1. CASE r \in spoiled
      BY <2>1, <3>1 DEF Online, Unique, callVars, PoolTypes
    <3>2. CASE r \notin spoiled
      <4>1. ~Offered(r)
        BY <2>1, <3>2, BusyIsAway DEF Online, Placed
      <4>2. QED
        BY <2>1, <4>1 DEF Online, Unique, Offered, callVars, PoolTypes
    <3>3. QED
      BY <3>1, <3>2
  <2>2. CASE Ready(r) \/ Take(r) \/ Finish(r) \/ Reset(r) \/ Condemn(r) \/ Replace(r)
             \/ Replaced(r) \/ DestroyLoad(r) \/ Destroy(r) \/ SendReset(r) \/ CountLoad(r)
             \/ CountStore(r)
    BY <1>1, <2>2 DEF Ready, Take, Finish, Reset, Condemn, Replace, Replaced, DestroyLoad,
       Destroy, SendReset, CountLoad, CountStore, dispVars, createVars, countVars, scaleVars,
       runVars, callVars
  <2>3. ASSUME NEW c \in Callers, Respond(r, c) PROVE Unique'
    <3>1. \A d \in Callers : hold'[d] \in {hold[d], NoRunner}
      BY <2>3 DEF Respond, Leave, Return, CallerTypes
    <3>2. QED
      BY <2>3, <3>1 DEF Respond, Unique, dispVars
  <2>4. QED
    BY <1>4, <2>1, <2>2, <2>3 DEF Runner, Goroutine, Count
<1>5. ASSUME NEW c \in Callers, Proceed(c) \/ Context(c) PROVE Unique'
  <2>1. CASE Select(c)
    <3>0. PICK r : r = Head(availables)
      OBVIOUS
    <3>1. availables # <<>> /\ availables' = Tail(availables) /\ UNCHANGED spoiled
      BY <2>1 DEF Select
    <3>2. r \in Runners /\ Offered(r)
      BY <3>0, <3>1, TakesOne
    <3>3. \A d \in Callers : hold'[d] \in (IF d = c THEN {r, NoRunner} ELSE {hold[d]})
      BY <2>1, <3>0 DEF Select, Return, CallerTypes
    <3>4. r \in spoiled \/ ~Held(r)
      BY <3>2 DEF Placed, Place
    <3>5. \A d, e \in Callers : hold'[d] = hold'[e] /\ hold'[d] \notin spoiled \cup {NoRunner} => d = e
      BY <3>3, <3>4 DEF Unique, Held
    <3>6. \A i, j \in DOMAIN availables' :
            availables'[i] = availables'[j] /\ availables'[i] \notin spoiled => i = j
      <4>1. /\ DOMAIN availables = 1..Len(availables) /\ Len(availables) \in Nat \ {0}
            /\ DOMAIN availables' = 1..(Len(availables) - 1)
            /\ \A i \in 1..(Len(availables) - 1) : availables'[i] = availables[i + 1]
        BY <3>1 DEF PoolTypes
      <4>2. QED
        BY <4>1 DEF Unique
    <3>7. QED
      BY <3>1, <3>5, <3>6 DEF Unique
  <2>2. CASE Tick(c)
    <3>1. \A d \in Callers : hold'[d] \in {hold[d], NoRunner}
      BY <2>2 DEF Tick, Leave, Return, CallerTypes
    <3>2. QED
      BY <2>2, <3>1 DEF Tick, Unique, dispVars
  <2>3. CASE Exec(c)
    <3>1. \A d \in Callers : hold'[d] \in {hold[d], NoRunner}
      BY <2>3 DEF Exec, Leave, Return, CallerTypes
    <3>2. QED
      BY <2>3, <3>1 DEF Exec, Unique, dispVars
  <2>4. CASE ExecSignal(c)
    <3>1. \A d \in Callers : hold'[d] \in {hold[d], NoRunner}
      BY <2>4 DEF ExecSignal, Leave, Return, CallerTypes
    <3>2. QED
      BY <2>4, <3>1 DEF ExecSignal, Unique, dispVars
  <2>5. CASE ContextCall(c)
    BY <2>5 DEF ContextCall, Unique, dispVars
  <2>6. CASE Close(c)
    <3>1. \A d \in Callers : hold'[d] \in {hold[d], NoRunner}
      BY <2>6 DEF Close, Leave, Return, CallerTypes
    <3>2. QED
      BY <2>6, <3>1 DEF Close, Unique, dispVars
  <2>7. CASE ExecListen(c) \/ Cancel(c)
    BY <1>1, <2>7 DEF ExecListen, Cancel, dispVars, createVars, countVars, scaleVars, runVars,
       callVars
  <2>8. QED
    BY <1>5, <2>1, <2>2, <2>3, <2>4, <2>5, <2>6, <2>7 DEF Proceed, Context
<1>6. ASSUME NEW c \in Callers, NEW o \in Operations, Call(c, o) PROVE Unique'
  BY <1>1, <1>6 DEF Call, dispVars, createVars, countVars, scaleVars, runVars, callVars
<1>7. QED
  BY <1>2, <1>3, <1>4, <1>5, <1>6 DEF Next, Pool

\* A runner not made yet has no other place, and is placed when it starts.
LEMMA NewIsPlaced ==
  ASSUME CreateTypes, CallerTypes, Seated, Placed, NEW r \in Runners, r \notin spoiled,
         rpc[r] = "none", rpc'[r] = "start",
         UNCHANGED <<signal, ran, reply, resets, callVars, availables>>
  PROVE Place(r)'
<1>1. Place(r)
  BY DEF Placed
<1>2. ~Waits(r) /\ ~Returns(r) /\ ~Retires(r)
  BY DEF Waits, Returns, Retires
<1>3. ASSUME NEW c \in Callers, hold[c] = r PROVE ~Uses(c, r)
  <2>1. pc[c] \in {"open", "exec", "signal", "listen", "wait"}
    BY <1>3, NoRunnerIsNone DEF Seated, CallerTypes
  <2>2. QED
    BY <1>2, <2>1 DEF Uses
<1>4. ~Offered(r) /\ ~Held(r) /\ r \notin leaked /\ signal[r] = <<>> /\ resets[r] = 0
  BY <1>1, <1>2, <1>3 DEF Place, Held
<1>5. Returns(r)'
  BY <1>4 DEF Returns
<1>6. QED
  BY <1>4, <1>5 DEF Place, Offered, Held, callVars

\* Where a step concerns no other runner than r, only r's place is in question.
LEMMA OthersStay ==
  ASSUME Placed, spoiled \subseteq spoiled', NEW r,
         \A q \in Runners \ {r} : q \notin spoiled => Still(q),
         r \in Runners /\ r \notin spoiled' => Place(r)'
  PROVE Placed'
<1>1. ASSUME NEW q \in Runners, q \notin spoiled', q # r PROVE Place(q)'
  BY <1>1, StillInPlace DEF Placed
<1>2. QED
  BY <1>1 DEF Placed

\* A runner that create makes is on its way to the pool.
LEMMA CreatePlaces ==
  ASSUME CreateTypes, CallerTypes, Seated, Numbered, Placed, NEW who, CreateOrNot(who),
         UNCHANGED <<signal, ran, reply, resets, callVars, availables>>
  PROVE Placed'
<1>1. CASE CanCreate
  <2>1. created + 1 \in Runners /\ rpc[created + 1] = "none"
    BY <1>1, PoolAssumption DEF CreateTypes, CanCreate, Runners, Numbered
  <2>2. PICK r \in Runners : r = created + 1
    BY <2>1
  <2>3. rpc' = [rpc EXCEPT ![r] = "start"] /\ rpc'[r] = "start"
    BY <1>1, <2>2 DEF CreateOrNot, Create, CreateTypes
  <2>4. \A q \in Runners \ {r} : Still(q)
    BY <2>3 DEF Still, Offered, CreateTypes, callVars
  <2>5. r \notin spoiled => Place(r)'
    BY <2>1, <2>2, <2>3, NewIsPlaced
  <2>6. QED
    BY <2>4, <2>5, OthersStay DEF callVars
<1>2. CASE ~CanCreate
  <2>1. \A q \in Runners : Still(q)
    BY <1>2 DEF CreateOrNot, Still, Offered, callVars
  <2>2. QED
    BY <2>1, OthersStay, NoRunnerIsNone DEF callVars
<1>3. QED
  BY <1>1, <1>2

\* Every step leaves each runner in one place, or takes it to the next.
LEMMA PlacedKept == ASSUME PoolTypes, CreateTypes, SignalTypes, RequestTypes, CallerTypes,
         Numbered, Seated, Issued, Unique, Placed, [Next]_vars PROVE Placed'
<1>1. ASSUME UNCHANGED <<availables, rpc, signal, ran, reply, resets, callVars>> PROVE Placed'
  BY <1>1, OthersStay, NoRunnerIsNone DEF Still, Offered, callVars
<1>2. CASE UNCHANGED vars
  BY <1>1, <1>2 DEF vars, dispVars, createVars, countVars, scaleVars, runVars, callVars
<1>3. CASE Start
  BY <1>3, CreatePlaces DEF Start, dispVars
<1>4. CASE Spawn
  BY <1>4, CreatePlaces DEF Spawn, dispVars
<1>5. CASE ScaleLoop
  <2>1. CASE CreateOrNot(ByScaling)
    BY <1>5, <2>1, CreatePlaces DEF ScaleLoop, dispVars
  <2>2. CASE UNCHANGED rpc
    BY <1>5, <2>2, OthersStay, NoRunnerIsNone DEF ScaleLoop, Still, Offered, dispVars, callVars
  <2>3. QED
    BY <1>5, <2>1, <2>2 DEF ScaleLoop
<1>6. CASE Scale
  BY <1>1, <1>6 DEF Scale, dispVars, createVars, countVars, scaleVars, runVars, callVars
<1>7. ASSUME NEW r \in Runners, Runner(r) PROVE Placed'
  <2>1. CASE Online(r)
    <3>1. Offered(r)' /\ \A q \in Runners \ {r} : Offered(q)' <=> Offered(q)
      BY <2>1, OffersOne DEF Online
    <3>2. \A q \in Runners \ {r} : Still(q)
      BY <2>1, <3>1 DEF Online, Still, CreateTypes, callVars
    <3>3. ASSUME r \notin spoiled PROVE Place(r)'
      <4>1. Place(r)
        BY <3>3 DEF Placed
      <4>2. ~Offered(r) /\ ~Held(r) /\ r \notin leaked /\ (Returns(r) \/ Retires(r))
        BY <2>1, <4>1, BusyIsAway DEF Online
      <4>3. Waits(r)'
        BY <2>1, <4>2 DEF Online, Waits, Returns, Retires, CreateTypes
      <4>4. QED
        BY <2>1, <3>1, <4>2, <4>3 DEF Online, Place, Held, callVars
    <3>4. QED
      BY <2>1, <3>2, <3>3, OthersStay DEF Online, callVars
  <2>2. CASE Ready(r)
    <3>1. \A q \in Runners \ {r} : Still(q)
      BY <2>2 DEF Ready, Still, Offered, PoolTypes, CreateTypes, SignalTypes, RequestTypes,
         CallerTypes, dispVars, createVars, countVars, scaleVars, runVars, callVars
    <3>2. ASSUME r \notin spoiled PROVE Place(r)'
      <4>1. Place(r)
        BY <3>2 DEF Placed
      <4>2. rpc[r] = "ready" /\ rpc'[r] = "loop" /\ UNCHANGED <<signal, ran, reply, resets, callVars, availables>>
        BY <2>2 DEF Ready, CreateTypes, dispVars
      <4>3. /\ Waits(r) => Waits(r)'
            /\ Returns(r) => Returns(r)'
            /\ ~Retires(r)
            /\ \A c \in Callers : Uses(c, r) => Uses(c, r)'
        BY <4>2 DEF Waits, Returns, Retires, Uses, callVars
      <4>4. QED
        BY <4>1, <4>2, <4>3 DEF Place, Offered, Held, callVars
    <3>3. QED
      BY <2>2, <3>1, <3>2, OthersStay DEF Ready, callVars
  <2>3. CASE Take(r)
    <3>1. \A q \in Runners \ {r} : Still(q)
      BY <2>3 DEF Take, Still, Offered, PoolTypes, CreateTypes, SignalTypes, RequestTypes,
         CallerTypes, dispVars, createVars, countVars, scaleVars, runVars, callVars
    <3>2. ASSUME r \notin spoiled PROVE Place(r)'
      <4>1. Place(r)
        BY <3>2 DEF Placed
      <4>2. /\ rpc[r] = "loop" /\ signal[r] # <<>> /\ rpc'[r] = Head(signal[r])
            /\ signal'[r] = Tail(signal[r])
            /\ ran'[r] = (IF Head(signal[r]) = "exec" THEN request[r] ELSE ran[r])
            /\ UNCHANGED <<reply, resets, callVars, availables>>
        BY <2>3 DEF Take, CreateTypes, SignalTypes, RequestTypes, dispVars
      <4>3. \A x \in Commands : Head(<<x>>) = x /\ Tail(<<x>>) = <<>>
        OBVIOUS
      <4>4. ~Waits(r)
        BY <4>2 DEF Waits
      <4>5. ASSUME NEW c \in Callers, hold[c] = r, Uses(c, r) PROVE Uses(c, r)'
        <5>1. pc[c] \in {"listen", "wait"} /\ signal[r] = <<"exec">>
          BY <3>2, <4>2, <4>4, <4>5, NoRunnerIsNone DEF Uses, Seated, CallerTypes
        <5>2. rpc'[r] = "exec" /\ signal'[r] = <<>> /\ ran'[r] = <<c, calls[c]>>
          BY <4>2, <4>3, <4>5, <5>1 DEF Uses, Commands
        <5>3. QED
          BY <4>2, <4>5, <5>1, <5>2 DEF Uses, callVars
      <4>6. ASSUME Returns(r) PROVE Returns(r)'
        BY <4>2, <4>3, <4>6 DEF Returns, Commands
      <4>7. ASSUME Retires(r) PROVE Retires(r)'
        BY <4>2, <4>3, <4>7 DEF Retires, Commands
      <4>8. QED
        BY <4>1, <4>2, <4>4, <4>5, <4>6, <4>7 DEF Place, Offered, Held, callVars
    <3>3. QED
      BY <2>3, <3>1, <3>2, OthersStay DEF Take, callVars
  <2>4. CASE Finish(r)
    <3>1. \A q \in Runners \ {r} : Still(q)
      BY <2>4 DEF Finish, Still, Offered, PoolTypes, CreateTypes, SignalTypes, RequestTypes,
         CallerTypes, dispVars, createVars, countVars, scaleVars, runVars, callVars
    <3>2. ASSUME r \notin spoiled PROVE Place(r)'
      <4>1. Place(r)
        BY <3>2 DEF Placed
      <4>2. /\ rpc[r] = "exec" /\ rpc'[r] = "respond" /\ reply'[r] = request[r]
            /\ UNCHANGED <<signal, ran, resets, callVars, availables>>
        BY <2>4 DEF Finish, CreateTypes, RequestTypes, dispVars
      <4>3. ~Waits(r) /\ ~Returns(r) /\ ~Retires(r)
        BY <4>2 DEF Waits, Returns, Retires
      <4>4. ASSUME NEW c \in Callers, hold[c] = r, Uses(c, r) PROVE Uses(c, r)'
        <5>1. pc[c] \in {"listen", "wait"} /\ signal[r] = <<>> /\ ran[r] = <<c, calls[c]>>
          BY <4>2, <4>3, <4>4, NoRunnerIsNone DEF Uses, Seated, CallerTypes
        <5>2. QED
          BY <4>2, <4>4, <5>1 DEF Uses, callVars
      <4>5. QED
        BY <4>1, <4>2, <4>3, <4>4 DEF Place, Offered, Held, callVars
    <3>3. QED
      BY <2>4, <3>1, <3>2, OthersStay DEF Finish, callVars
  <2>5. CASE Reset(r)
    <3>1. \A q \in Runners \ {r} : Still(q)
      BY <2>5 DEF Reset, Still, Offered, PoolTypes, CreateTypes, SignalTypes, RequestTypes,
         CallerTypes, dispVars, createVars, countVars, scaleVars, runVars, callVars
    <3>2. ASSUME r \notin spoiled PROVE Place(r)'
      <4>1. Place(r)
        BY <3>2 DEF Placed
      <4>2. ~Offered(r) /\ ~Held(r) /\ r \notin leaked /\ (Returns(r) \/ Retires(r))
        BY <2>5, <4>1, BusyIsAway DEF Reset
      <4>3. Returns(r)' \/ Retires(r)'
        BY <2>5, <4>2 DEF Reset, Returns, Retires, CreateTypes
      <4>4. QED
        BY <2>5, <4>2, <4>3 DEF Reset, Place, Offered, Held, dispVars, createVars, countVars,
           scaleVars, runVars, callVars
    <3>3. QED
      BY <2>5, <3>1, <3>2, OthersStay DEF Reset, callVars
  <2>6. CASE Condemn(r)
    <3>1. \A q \in Runners \ {r} : Still(q)
      BY <2>6 DEF Condemn, Still, Offered, Send, Closed, PoolTypes, CreateTypes, SignalTypes,
         RequestTypes, CallerTypes, dispVars, createVars, countVars, scaleVars, runVars,
         callVars
    <3>2. ASSUME r \notin spoiled PROVE Place(r)'
      <4>1. Place(r)
        BY <3>2 DEF Placed
      <4>2. ~Offered(r) /\ ~Held(r) /\ r \notin leaked /\ (Returns(r) \/ Retires(r))
        BY <2>6, <4>1, BusyIsAway DEF Condemn
      <4>3. Retires(r)'
        BY <2>6, <4>2 DEF Condemn, Send, Closed, Returns, Retires, CreateTypes, SignalTypes
      <4>4. QED
        BY <2>6, <4>2, <4>3 DEF Condemn, Place, Offered, Held, dispVars, createVars, countVars,
           scaleVars, runVars, callVars
    <3>3. QED
      BY <2>6, <3>1, <3>2, OthersStay DEF Condemn, callVars
  <2>7. CASE Replace(r)
    <3>1. CASE CanCreate
      <4>1. created + 1 \in Runners /\ rpc[created + 1] = "none"
        BY <3>1, PoolAssumption DEF CreateTypes, CanCreate, Runners, Numbered
      <4>2. PICK n \in Runners : n = created + 1
        BY <4>1
      <4>3. rpc' = [rpc EXCEPT ![r] = "wait", ![n] = "start"] /\ rpc[r] = "replace" /\ r # n
        BY <2>7, <3>1, <4>1, <4>2 DEF Replace
      <4>4. rpc'[r] = "wait" /\ rpc'[n] = "start" /\ \A q \in Runners \ {r, n} : rpc'[q] = rpc[q]
        BY <4>3 DEF CreateTypes
      <4>5. UNCHANGED <<signal, ran, reply, resets, callVars, availables>>
        BY <2>7 DEF Replace, dispVars
      <4>6. \A q \in Runners \ {r, n} : Still(q)
        BY <4>4, <4>5 DEF Still, Offered, callVars
      <4>7. n \notin spoiled => Place(n)'
        BY <4>1, <4>2, <4>4, <4>5, NewIsPlaced
      <4>8. ASSUME r \notin spoiled PROVE Place(r)'
        <5>1. ~Offered(r) /\ ~Held(r) /\ r \notin leaked /\ (Returns(r) \/ Retires(r))
          BY <4>3, <4>8, BusyIsAway DEF Placed
        <5>2. Retires(r)'
          BY <4>3, <4>4, <4>5, <5>1 DEF Returns, Retires
        <5>3. QED
          BY <4>5, <5>1, <5>2 DEF Place, Offered, Held, callVars
      <4>9. ASSUME NEW q \in Runners, q \notin spoiled' PROVE Place(q)'
        BY <4>5, <4>6, <4>7, <4>8, <4>9, StillInPlace DEF Placed, callVars
      <4>10. QED
        BY <4>9 DEF Placed
    <3>2. CASE ~CanCreate
      <4>1. \A q \in Runners \ {r} : Still(q)
        BY <2>7, <3>2 DEF Replace, Still, Offered, PoolTypes, CreateTypes, SignalTypes,
           RequestTypes, CallerTypes, dispVars, createVars, countVars, scaleVars, runVars,
           callVars
      <4>2. ASSUME r \notin spoiled PROVE Place(r)'
        <5>1. Place(r)
          BY <4>2 DEF Placed
        <5>2. ~Offered(r) /\ ~Held(r) /\ r \notin leaked /\ (Returns(r) \/ Retires(r))
          BY <2>7, <3>2, <5>1, BusyIsAway DEF Replace
        <5>3. Retires(r)'
          BY <2>7, <3>2, <5>2 DEF Replace, Returns, Retires, CreateTypes, SignalTypes
        <5>4. QED
          BY <2>7, <3>2, <5>2, <5>3 DEF Replace, Place, Offered, Held, dispVars, createVars,
             countVars, scaleVars, runVars, callVars
      <4>3. QED
        BY <2>7, <3>2, <4>1, <4>2, OthersStay DEF Replace, callVars
    <3>3. QED
      BY <3>1, <3>2
  <2>8. CASE Replaced(r)
    <3>1. \A q \in Runners \ {r} : Still(q)
      BY <2>8 DEF Replaced, Still, Offered, PoolTypes, CreateTypes, SignalTypes, RequestTypes,
         CallerTypes, dispVars, createVars, countVars, scaleVars, runVars, callVars
    <3>2. ASSUME r \notin spoiled PROVE Place(r)'
      <4>1. Place(r)
        BY <3>2 DEF Placed
      <4>2. ~Offered(r) /\ ~Held(r) /\ r \notin leaked /\ (Returns(r) \/ Retires(r))
        BY <2>8, <4>1, BusyIsAway DEF Replaced
      <4>3. Retires(r)'
        BY <2>8, <4>2 DEF Replaced, Returns, Retires, CreateTypes, SignalTypes
      <4>4. QED
        BY <2>8, <4>2, <4>3 DEF Replaced, Place, Offered, Held, dispVars, createVars,
           countVars, scaleVars, runVars, callVars
    <3>3. QED
      BY <2>8, <3>1, <3>2, OthersStay DEF Replaced, callVars
  <2>9. CASE DestroyLoad(r)
    <3>1. \A q \in Runners \ {r} : Still(q)
      BY <2>9 DEF DestroyLoad, Still, Offered, PoolTypes, CreateTypes, SignalTypes,
         RequestTypes, CallerTypes, dispVars, createVars, countVars, scaleVars, runVars,
         callVars
    <3>2. ASSUME r \notin spoiled PROVE Place(r)'
      <4>1. Place(r)
        BY <3>2 DEF Placed
      <4>2. ~Offered(r) /\ ~Held(r) /\ r \notin leaked /\ (Returns(r) \/ Retires(r))
        BY <2>9, <4>1, BusyIsAway DEF DestroyLoad
      <4>3. Retires(r)'
        BY <2>9, <4>2 DEF DestroyLoad, Returns, Retires, CreateTypes, SignalTypes
      <4>4. QED
        BY <2>9, <4>2, <4>3 DEF DestroyLoad, Place, Offered, Held, dispVars, createVars,
           countVars, scaleVars, runVars, callVars
    <3>3. QED
      BY <2>9, <3>1, <3>2, OthersStay DEF DestroyLoad, callVars
  <2>10. CASE Destroy(r)
    <3>1. \A q \in Runners \ {r} : Still(q)
      BY <2>10 DEF Destroy, Still, Offered, PoolTypes, CreateTypes, SignalTypes, RequestTypes,
         CallerTypes, dispVars, createVars, countVars, scaleVars, runVars, callVars
    <3>2. ASSUME r \notin spoiled PROVE Place(r)'
      <4>1. Place(r)
        BY <3>2 DEF Placed
      <4>2. ~Offered(r) /\ ~Held(r) /\ r \notin leaked /\ (Returns(r) \/ Retires(r))
        BY <2>10, <4>1, BusyIsAway DEF Destroy
      <4>3. Retires(r)'
        BY <2>10, <4>2 DEF Destroy, Returns, Retires, CreateTypes, SignalTypes
      <4>4. QED
        BY <2>10, <4>2, <4>3 DEF Destroy, Place, Offered, Held, dispVars, createVars,
           countVars, scaleVars, runVars, callVars
    <3>3. QED
      BY <2>10, <3>1, <3>2, OthersStay DEF Destroy, callVars
  <2>11. CASE SendReset(r)
    <3>1. \A q \in Runners \ {r} : Still(q)
      BY <2>11 DEF SendReset, Still, Offered, Send, Closed, PoolTypes, CreateTypes,
         SignalTypes, RequestTypes, CallerTypes, dispVars, createVars, countVars, scaleVars,
         runVars, callVars
    <3>2. ASSUME r \notin spoiled PROVE Place(r)'
      <4>1. Place(r)
        BY <3>2 DEF Placed
      <4>2. ~Offered(r) /\ ~Held(r) /\ r \notin leaked /\ (Returns(r) \/ Retires(r))
        BY <2>11, <4>1, BusyIsAway DEF SendReset
      <4>3. Returns(r)'
        BY <2>11, <4>2 DEF SendReset, Send, Closed, Returns, Retires, CreateTypes, SignalTypes
      <4>4. QED
        BY <2>11, <4>2, <4>3 DEF SendReset, Place, Offered, Held, dispVars, createVars,
           countVars, scaleVars, runVars, callVars
    <3>3. QED
      BY <2>11, <3>1, <3>2, OthersStay DEF SendReset, callVars
  <2>12. CASE CountLoad(r) \/ CountStore(r)
    BY <1>1, <2>12 DEF CountLoad, CountStore, dispVars, createVars, countVars, scaleVars,
       runVars, callVars
  <2>13. ASSUME NEW c \in Callers, Respond(r, c) PROVE Placed'
    <3>1. /\ rpc[r] = "respond" /\ pc[c] = "wait" /\ listen[c] = reply[r]
          /\ rpc' = [rpc EXCEPT ![r] = "loop"] /\ resets' = [resets EXCEPT ![r] = @ + 1]
          /\ ran' = [ran EXCEPT ![r] = NoRequest] /\ reply' = [reply EXCEPT ![r] = NoRequest]
          /\ listen' = [listen EXCEPT ![c] = NoRequest] /\ Leave(c)
          /\ UNCHANGED <<availables, signal, calls, spoiled, leaked, request>>
      BY <2>13 DEF Respond, dispVars
    <3>2. /\ \A d \in Callers \ {c} : pc'[d] = pc[d] /\ hold'[d] = hold[d] /\ listen'[d] = listen[d]
          /\ hold'[c] \in {hold[c], NoRunner}
      BY <3>1 DEF Leave, Return, CallerTypes, RequestTypes
    <3>3. hold[c] \in Runners
      BY <3>1 DEF Seated, CallerTypes
    <3>4. ASSUME hold[c] \notin spoiled PROVE hold[c] = r
      <4>1. Uses(c, hold[c])
        BY <3>3, <3>4 DEF Placed, Place, Held
      <4>2. <<c, calls[c]>> \in Asked(r)
        BY <3>1, <4>1 DEF Uses, Asked
      <4>3. QED
        BY <3>1, <3>4, <4>2 DEF Issued
    <3>5. ASSUME NEW q \in Runners \ {r}, q \notin spoiled PROVE Still(q)
      <4>1. \A d \in Callers : (hold[d] = q \/ hold'[d] = q) => d # c
        BY <3>2, <3>4, <3>5, NoRunnerIsNone
      <4>2. QED
        BY <3>1, <3>2, <3>5, <4>1 DEF Still, Offered, CreateTypes, SignalTypes, RequestTypes
    <3>6. ASSUME r \notin spoiled PROVE Place(r)'
      <4>1. Place(r) /\ ~Waits(r) /\ ~Returns(r) /\ ~Retires(r)
        BY <3>1, <3>6 DEF Placed, Waits, Returns, Retires
      <4>2. PICK d \in Callers : hold[d] = r
        BY <3>1, <4>1 DEF Place, Held
      <4>3. Uses(d, r) /\ ~Offered(r) /\ r \notin leaked
        BY <3>1, <4>1, <4>2 DEF Place, Held
      <4>4. pc[d] \in {"listen", "wait"} /\ reply[r] = <<d, calls[d]>> /\ signal[r] = <<>> /\ resets[r] = 0
        BY <3>1, <4>1, <4>2, <4>3, NoRunnerIsNone DEF Uses, Seated, CallerTypes
      <4>5. d = c
        BY <3>1, <3>6, <4>2, <4>4 DEF Issued
      <4>6. op[c] = "process"
        BY <3>1, <3>6, <4>2, <4>5 DEF Seated
      <4>7. hold'[c] = NoRunner
        BY <3>1, <4>6 DEF Leave, Return, CallerTypes
      <4>8. \A e \in Callers : hold'[e] # r
        BY <3>2, <3>6, <4>2, <4>5, <4>7, NoRunnerIsNone DEF Unique
      <4>9. Returns(r)'
        BY <3>1, <4>4 DEF Returns, CreateTypes, SignalTypes
      <4>10. QED
        BY <3>1, <4>3, <4>8, <4>9 DEF Place, Offered, Held
    <3>7. QED
      BY <3>1, <3>5, <3>6, OthersStay
  <2>14. QED
    BY <1>7, <2>1, <2>2, <2>3, <2>4, <2>5, <2>6, <2>7, <2>8, <2>9, <2>10, <2>11, <2>12, <2>13
       DEF Runner, Goroutine, Count
<1>8. ASSUME NEW c \in Callers, Proceed(c) \/ Context(c) PROVE Placed'
  <2>1. CASE Select(c)
    <3>0. PICK r : r = Head(availables)
      OBVIOUS
    <3>1. /\ availables # <<>> /\ availables' = Tail(availables) /\ pc[c] = "select"
          /\ UNCHANGED <<rpc, signal, ran, reply, resets, request, calls, listen, spoiled>>
      BY <2>1 DEF Select, runVars
    <3>2. /\ r \in Runners /\ Offered(r)
          /\ \A q \in Runners \ {r} : Offered(q)' <=> Offered(q)
          /\ r \notin spoiled => ~Offered(r)'
      BY <3>0, <3>1, TakesOne
    <3>3. /\ \A d \in Callers \ {c} : pc'[d] = pc[d] /\ hold'[d] = hold[d]
          /\ hold[c] = NoRunner
          /\ \/ leaked' = leaked \union {r} /\ hold'[c] = NoRunner
             \/ leaked' = leaked /\ hold'[c] = r /\ pc'[c] \in {"exec", "open"}
      BY <2>1, <3>0 DEF Select, Return, Seated, CallerTypes
    <3>4. \A q \in Runners \ {r} : Still(q)
      BY <3>1, <3>2, <3>3, NoRunnerIsNone DEF Still
    <3>5. ASSUME r \notin spoiled PROVE Place(r)'
      <4>1. Waits(r) /\ ~Held(r) /\ r \notin leaked
        BY <3>2, <3>5 DEF Placed, Place
      <4>2. Waits(r)'
        BY <3>1, <4>1 DEF Waits
      <4>3. CASE leaked' = leaked \union {r} /\ hold'[c] = NoRunner
        BY <3>2, <3>3, <3>5, <4>1, <4>2, <4>3, NoRunnerIsNone DEF Place, Held
      <4>4. CASE leaked' = leaked /\ hold'[c] = r /\ pc'[c] \in {"exec", "open"}
        <5>1. ASSUME NEW d \in Callers, hold'[d] = r PROVE d = c
          BY <3>3, <4>1, <5>1 DEF Held
        <5>2. Uses(c, r)'
          BY <4>2, <4>4 DEF Uses, Waits
        <5>3. QED
          BY <3>2, <3>5, <4>1, <4>4, <5>1, <5>2 DEF Place, Held
      <4>5. QED
        BY <3>3, <4>3, <4>4
    <3>6. QED
      BY <3>1, <3>4, <3>5, OthersStay
  <2>2. CASE Tick(c)
    <3>1. /\ pc[c] = "select" /\ \A d \in Callers \ {c} : hold'[d] = hold[d] /\ pc'[d] = pc[d]
          /\ hold[c] = NoRunner /\ hold'[c] = NoRunner
      BY <2>2 DEF Tick, Return, CallerTypes, Seated
    <3>2. \A q \in Runners : Still(q)
      BY <2>2, <3>1, NoRunnerIsNone DEF Tick, Still, Offered, runVars
    <3>3. QED
      BY <2>2, <3>2, OthersStay, NoRunnerIsNone DEF Tick
  <2>3. CASE Exec(c)
    <3>0. PICK r \in Runners : r = hold[c]
      BY <2>3 DEF Exec, Seated, CallerTypes
    <3>1. /\ \A d \in Callers \ {c} : pc'[d] = pc[d] /\ hold'[d] = hold[d] /\ listen'[d] = listen[d]
                                      /\ calls'[d] = calls[d]
          /\ hold'[c] \in {r, NoRunner}
          /\ \A q \in Runners \ {r} : signal'[q] = signal[q] /\ request'[q] = request[q]
          /\ UNCHANGED <<availables, rpc, ran, reply, resets, leaked>> /\ spoiled \subseteq spoiled'
      BY <2>3, <3>0 DEF Exec, Leave, Return, Closed, PoolTypes, CreateTypes, SignalTypes,
         RequestTypes, CallerTypes, runVars, dispVars
    <3>2. \A q \in Runners \ {r} : Still(q)
      BY <3>0, <3>1, NoRunnerIsNone DEF Still, Offered
    <3>3. ASSUME r \notin spoiled' PROVE Place(r)'
      <4>1. r \notin spoiled /\ Held(r) /\ Place(r)
        BY <3>0, <3>1, <3>3 DEF Held, Placed
      <4>2. Uses(c, r) /\ ~Offered(r) /\ r \notin leaked
        BY <3>0, <4>1 DEF Place
      <4>3. \A d \in Callers : hold[d] = r => d = c
        BY <3>0, <4>1, NoRunnerIsNone DEF Unique
      <4>4. Waits(r) /\ resets[r] = 0 /\ pc[c] = "exec"
        BY <2>3, <4>2 DEF Exec, Uses
      <4>5. /\ request'[r] = <<c, calls[c]>> /\ hold'[c] = r /\ pc'[c] = "signal"
            /\ UNCHANGED <<signal, calls>>
        BY <2>3, <3>0, <4>4 DEF Exec, Closed, Waits, RequestTypes, CallerTypes, runVars
      <4>6. Uses(c, r)'
        BY <3>1, <4>4, <4>5 DEF Uses, Waits
      <4>7. QED
        BY <3>1, <4>2, <4>3, <4>5, <4>6 DEF Place, Offered, Held
    <3>4. QED
      BY <3>1, <3>2, <3>3, OthersStay
  <2>4. CASE ExecSignal(c)
    <3>0. PICK r \in Runners : r = hold[c]
      BY <2>4 DEF ExecSignal, Seated, CallerTypes
    <3>1. /\ \A d \in Callers \ {c} : pc'[d] = pc[d] /\ hold'[d] = hold[d] /\ listen'[d] = listen[d]
                                      /\ calls'[d] = calls[d]
          /\ hold'[c] \in {r, NoRunner}
          /\ \A q \in Runners \ {r} : signal'[q] = signal[q] /\ request'[q] = request[q]
          /\ UNCHANGED <<availables, rpc, ran, reply, resets, leaked>> /\ spoiled \subseteq spoiled'
      BY <2>4, <3>0 DEF ExecSignal, Leave, Return, Send, Closed, PoolTypes, CreateTypes,
         SignalTypes, RequestTypes, CallerTypes, runVars, dispVars
    <3>2. \A q \in Runners \ {r} : Still(q)
      BY <3>0, <3>1, NoRunnerIsNone DEF Still, Offered
    <3>3. ASSUME r \notin spoiled' PROVE Place(r)'
      <4>1. r \notin spoiled /\ Held(r) /\ Place(r)
        BY <3>0, <3>1, <3>3 DEF Held, Placed
      <4>2. Uses(c, r) /\ ~Offered(r) /\ r \notin leaked
        BY <3>0, <4>1 DEF Place
      <4>3. \A d \in Callers : hold[d] = r => d = c
        BY <3>0, <4>1, NoRunnerIsNone DEF Unique
      <4>4. Waits(r) /\ resets[r] = 0 /\ pc[c] = "signal"
        BY <2>4, <4>2 DEF ExecSignal, Uses
      <4>5. /\ signal'[r] = <<"exec">> /\ hold'[c] = r /\ pc'[c] = "listen"
            /\ UNCHANGED <<request, calls>>
        BY <2>4, <3>0, <4>4 DEF ExecSignal, Send, Closed, Waits, SignalTypes, CallerTypes
      <4>6. Uses(c, r)'
        BY <3>1, <4>2, <4>4, <4>5 DEF Uses, Waits
      <4>7. QED
        BY <3>1, <4>2, <4>3, <4>5, <4>6 DEF Place, Offered, Held
    <3>4. QED
      BY <3>1, <3>2, <3>3, OthersStay
  <2>5. CASE ExecListen(c)
    <3>0. PICK r \in Runners : r = hold[c]
      BY <2>5 DEF ExecListen, Seated, CallerTypes
    <3>1. /\ \A d \in Callers \ {c} : pc'[d] = pc[d] /\ hold'[d] = hold[d] /\ listen'[d] = listen[d]
                                      /\ calls'[d] = calls[d]
          /\ hold'[c] \in {r, NoRunner}
          /\ \A q \in Runners \ {r} : signal'[q] = signal[q] /\ request'[q] = request[q]
          /\ UNCHANGED <<availables, rpc, ran, reply, resets, leaked>> /\ spoiled \subseteq spoiled'
      BY <2>5, <3>0 DEF ExecListen, PoolTypes, CreateTypes, SignalTypes, RequestTypes,
         CallerTypes, runVars, dispVars
    <3>2. \A q \in Runners \ {r} : Still(q)
      BY <3>0, <3>1, NoRunnerIsNone DEF Still, Offered
    <3>3. ASSUME r \notin spoiled' PROVE Place(r)'
      <4>1. r \notin spoiled /\ Held(r) /\ Place(r)
        BY <3>0, <3>1, <3>3 DEF Held, Placed
      <4>2. Uses(c, r) /\ ~Offered(r) /\ r \notin leaked
        BY <3>0, <4>1 DEF Place
      <4>3. \A d \in Callers : hold[d] = r => d = c
        BY <3>0, <4>1, NoRunnerIsNone DEF Unique
      <4>4. /\ pc[c] = "listen" /\ pc'[c] = "wait" /\ hold'[c] = r /\ listen'[c] = request[r]
            /\ UNCHANGED <<signal, request, calls>>
        BY <2>5, <3>0 DEF ExecListen, RequestTypes, CallerTypes, runVars
      <4>5. Uses(c, r)'
        BY <3>1, <4>2, <4>4 DEF Uses
      <4>6. QED
        BY <3>1, <4>2, <4>3, <4>4, <4>5 DEF Place, Offered, Held
    <3>4. QED
      BY <3>1, <3>2, <3>3, OthersStay
  <2>6. CASE ContextCall(c)
    <3>0. PICK r \in Runners : r = hold[c]
      BY <2>6 DEF ContextCall, Seated, CallerTypes
    <3>1. /\ \A d \in Callers \ {c} : pc'[d] = pc[d] /\ hold'[d] = hold[d] /\ listen'[d] = listen[d]
                                      /\ calls'[d] = calls[d]
          /\ hold'[c] \in {r, NoRunner}
          /\ \A q \in Runners \ {r} : signal'[q] = signal[q] /\ request'[q] = request[q]
          /\ UNCHANGED <<availables, rpc, ran, reply, resets, leaked>> /\ spoiled \subseteq spoiled'
      BY <2>6, <3>0 DEF ContextCall, PoolTypes, CreateTypes, SignalTypes, RequestTypes,
         CallerTypes, runVars, dispVars
    <3>2. \A q \in Runners \ {r} : Still(q)
      BY <3>0, <3>1, NoRunnerIsNone DEF Still, Offered
    <3>3. ASSUME r \notin spoiled' PROVE Place(r)'
      <4>1. r \notin spoiled /\ Held(r) /\ Place(r)
        BY <3>0, <3>1, <3>3 DEF Held, Placed
      <4>2. Uses(c, r) /\ ~Offered(r) /\ r \notin leaked
        BY <3>0, <4>1 DEF Place
      <4>3. \A d \in Callers : hold[d] = r => d = c
        BY <3>0, <4>1, NoRunnerIsNone DEF Unique
      <4>4. QED
        BY <2>6, <3>0, <3>3 DEF ContextCall
    <3>4. QED
      BY <3>1, <3>2, <3>3, OthersStay
  <2>7. CASE Cancel(c)
    <3>0. PICK r \in Runners : r = hold[c]
      BY <2>7 DEF Cancel, Seated, CallerTypes
    <3>1. /\ \A d \in Callers \ {c} : pc'[d] = pc[d] /\ hold'[d] = hold[d] /\ listen'[d] = listen[d]
                                      /\ calls'[d] = calls[d]
          /\ hold'[c] \in {r, NoRunner}
          /\ \A q \in Runners \ {r} : signal'[q] = signal[q] /\ request'[q] = request[q]
          /\ UNCHANGED <<availables, rpc, ran, reply, resets, leaked>> /\ spoiled \subseteq spoiled'
      BY <2>7, <3>0 DEF Cancel, PoolTypes, CreateTypes, SignalTypes, RequestTypes, CallerTypes,
         runVars, dispVars
    <3>2. \A q \in Runners \ {r} : Still(q)
      BY <3>0, <3>1, NoRunnerIsNone DEF Still, Offered
    <3>3. ASSUME r \notin spoiled' PROVE Place(r)'
      <4>1. r \notin spoiled /\ Held(r) /\ Place(r)
        BY <3>0, <3>1, <3>3 DEF Held, Placed
      <4>2. Uses(c, r) /\ ~Offered(r) /\ r \notin leaked
        BY <3>0, <4>1 DEF Place
      <4>3. \A d \in Callers : hold[d] = r => d = c
        BY <3>0, <4>1, NoRunnerIsNone DEF Unique
      <4>4. QED
        BY <2>7, <3>0, <4>1 DEF Cancel, Seated
    <3>4. QED
      BY <3>1, <3>2, <3>3, OthersStay
  <2>8. CASE Close(c)
    <3>0. PICK r \in Runners : r = hold[c]
      BY <2>8 DEF Close, Seated, CallerTypes
    <3>1. /\ \A d \in Callers \ {c} : pc'[d] = pc[d] /\ hold'[d] = hold[d] /\ listen'[d] = listen[d]
                                      /\ calls'[d] = calls[d]
          /\ hold'[c] \in {r, NoRunner}
          /\ \A q \in Runners \ {r} : signal'[q] = signal[q] /\ request'[q] = request[q]
          /\ UNCHANGED <<availables, rpc, ran, reply, resets, leaked>> /\ spoiled \subseteq spoiled'
      BY <2>8, <3>0 DEF Close, Return, Send, Closed, PoolTypes, CreateTypes, SignalTypes,
         RequestTypes, CallerTypes, runVars, dispVars
    <3>2. \A q \in Runners \ {r} : Still(q)
      BY <3>0, <3>1, NoRunnerIsNone DEF Still, Offered
    <3>3. ASSUME r \notin spoiled' PROVE Place(r)'
      <4>1. r \notin spoiled /\ Held(r) /\ Place(r)
        BY <3>0, <3>1, <3>3 DEF Held, Placed
      <4>2. Uses(c, r) /\ ~Offered(r) /\ r \notin leaked
        BY <3>0, <4>1 DEF Place
      <4>3. \A d \in Callers : hold[d] = r => d = c
        BY <3>0, <4>1, NoRunnerIsNone DEF Unique
      <4>4. Waits(r) /\ resets[r] = 0
        BY <2>8, <4>2 DEF Close, Uses
      <4>5. signal'[r] = <<"reset">> /\ hold'[c] = NoRunner
        BY <2>8, <3>0, <4>4 DEF Close, Return, Send, Closed, Waits, SignalTypes, CallerTypes
      <4>6. Returns(r)'
        BY <3>1, <4>4, <4>5 DEF Returns, Waits
      <4>7. \A d \in Callers : hold'[d] # r
        BY <3>1, <4>3, <4>5, NoRunnerIsNone
      <4>8. QED
        BY <3>1, <4>2, <4>6, <4>7 DEF Place, Offered, Held
    <3>4. QED
      BY <3>1, <3>2, <3>3, OthersStay
  <2>9. QED
    BY <1>8, <2>1, <2>2, <2>3, <2>4, <2>5, <2>6, <2>7, <2>8 DEF Proceed, Context
<1>9. ASSUME NEW c \in Callers, NEW o \in Operations, Call(c, o) PROVE Placed'
  <2>1. /\ pc[c] = "idle" /\ hold[c] = NoRunner
        /\ \A d \in Callers \ {c} : pc'[d] = pc[d] /\ calls'[d] = calls[d]
    BY <1>9 DEF Call, Seated, CallerTypes
  <2>2. \A q \in Runners : Still(q)
    BY <1>9, <2>1, NoRunnerIsNone DEF Call, Still, Offered, dispVars, runVars
  <2>3. QED
    BY <1>9, <2>2, OthersStay, NoRunnerIsNone DEF Call
<1>10. QED
  BY <1>2, <1>3, <1>4, <1>5, <1>6, <1>7, <1>8, <1>9 DEF Next, Pool

-----------------------------------------------------------------------------
\* The inductive invariant holds from the start and forever.
THEOREM Invariance == Spec => []IInv
<1>1. Init => IInv
  <2> SUFFICES ASSUME Init PROVE IInv
    OBVIOUS
  <2>1. PoolTypes
    <3>1. availables \in Seq(Runners) /\ Len(availables) <= Max
      BY PoolAssumption DEF Init
    <3>2. missed \in BOOLEAN
      BY DEF Init
    <3>3. spawned \in Nat /\ started \in 0..Min /\ spc \in {"tick", "loop"} /\ si \in 0..UintMod
      BY PoolAssumption DEF Init
    <3>4. QED
      BY <3>1, <3>2, <3>3 DEF PoolTypes
  <2>2. CountTypes
    BY PoolAssumption DEF Init, CountTypes, Runners, Commands
  <2>3. CreateTypes
    BY PoolAssumption DEF Init, CreateTypes, Runners, Commands
  <2>4. SignalTypes
    BY PoolAssumption DEF Init, SignalTypes, Runners, Commands
  <2>5. RequestTypes
    BY PoolAssumption DEF Init, RequestTypes, Runners, Commands
  <2>6. CallerTypes
    BY PoolAssumption DEF Init, CallerTypes, Runners, Commands
  <2>7. Numbered /\ Seated
    BY DEF Init, Numbered, Seated, Runners
  <2>8. Issued
    BY PoolAssumption DEF Init, Issued, Asked
  <2>9. Unique
    BY DEF Init, Unique
  <2>10. Placed
    BY NoRunnerIsNone DEF Init, Placed, Place, Offered, Held
  <2>11. QED
    BY <2>1, <2>2, <2>3, <2>4, <2>5, <2>6, <2>7, <2>8, <2>9, <2>10, TypeParts DEF IInv
<1>2. IInv /\ [Next]_vars => IInv'
  <2> SUFFICES ASSUME IInv, [Next]_vars PROVE IInv'
    OBVIOUS
  <2>1. PoolTypes /\ CountTypes /\ CreateTypes
        /\ SignalTypes /\ RequestTypes /\ CallerTypes
        /\ Numbered /\ Seated /\ Issued /\ Unique /\ Placed
    BY TypeParts DEF IInv
  <2>2. PoolTypes'
    BY <2>1, PoolTypesKept
  <2>3. CountTypes'
    BY <2>1, CountTypesKept
  <2>4. CreateTypes'
    BY <2>1, CreateTypesKept
  <2>5. SignalTypes'
    BY <2>1, SignalTypesKept
  <2>6. RequestTypes'
    BY <2>1, RequestTypesKept
  <2>7. CallerTypes'
    BY <2>1, CallerTypesKept
  <2>8. Numbered'
    BY <2>1, NumberedKept
  <2>9. Seated'
    BY <2>1, SeatedKept
  <2>10. Issued'
    BY <2>1, IssuedKept
  <2>11. Unique'
    BY <2>1, UniqueKept
  <2>12. Placed'
    BY <2>1, PlacedKept
  <2>13. TypeOK'
    BY <2>2, <2>3, <2>4, <2>5, <2>6, <2>7, TypeParts, PTL
  <2>14. QED
    BY <2>8, <2>9, <2>10, <2>11, <2>12, <2>13 DEF IInv
<1>3. QED
  BY <1>1, <1>2, PTL DEF Spec

\* Every variable keeps its type.
THEOREM TypeCorrect == Spec => []TypeOK
<1>1. IInv => TypeOK
  BY DEF IInv
<1>2. QED
  BY <1>1, Invariance, PTL

\* A caller that waits has its own request executed and answered
\* (runner.go:162-183, 264-325).
THEOREM ResponsesAreOwn == Spec => []OwnResponse
<1>1. IInv => OwnResponse
  <2> SUFFICES ASSUME IInv, NEW c \in Callers, NEW r \in Runners \ spoiled,
                      pc[c] = "wait", hold[c] = r
               PROVE /\ listen[c] = <<c, calls[c]>> /\ request[r] = listen[c]
                     /\ rpc[r] \in {"exec", "respond"} => ran[r] = listen[c]
                     /\ rpc[r] = "respond" => reply[r] = listen[c]
    BY DEF OwnResponse
  <2>1. Uses(c, r)
    BY DEF IInv, Placed, Place, Held
  <2>2. QED
    BY <2>1 DEF Uses
<1>2. QED
  BY <1>1, Invariance, PTL

\* A runner that condemns itself does not block on its own channel
\* (runner.go:358).
THEOREM NeverBlocksItself == Spec => []NoSelfBlock
<1>1. IInv => NoSelfBlock
  <2> SUFFICES ASSUME IInv, NEW r \in Runners \ spoiled, rpc[r] = "condemn"
               PROVE Len(signal[r]) < 2
    BY DEF NoSelfBlock
  <2>1. CreateTypes /\ CallerTypes /\ Seated /\ Place(r)
    BY TypeParts DEF IInv, Placed
  <2>2. Returns(r) \/ Retires(r)
    BY <2>1, BusyIsAway
  <2>3. signal[r] = <<>>
    BY <2>2 DEF Returns, Retires
  <2>4. QED
    BY <2>3
<1>2. QED
  BY <1>1, Invariance, PTL

\* How many offers and holders there are of a runner.
LEMMA Counts ==
  ASSUME Unique, NEW r \in Runners, r \notin spoiled
  PROVE /\ Cardinality(Offers(r)) = IF Offered(r) THEN 1 ELSE 0
        /\ Cardinality(Holders(r)) = IF Held(r) THEN 1 ELSE 0
<1>1. ASSUME Offered(r) PROVE Cardinality(Offers(r)) = 1
  <2>1. PICK i \in DOMAIN availables : availables[i] = r
    BY <1>1 DEF Offered
  <2>2. Offers(r) = {i}
    BY <2>1 DEF Offers, Unique
  <2>3. QED
    BY <1>1, <2>2, FS_Singleton
<1>2. ASSUME ~Offered(r) PROVE Cardinality(Offers(r)) = 0
  <2>1. Offers(r) = {}
    BY <1>2 DEF Offers, Offered
  <2>2. QED
    BY <1>2, <2>1, FS_EmptySet
<1>3. ASSUME Held(r) PROVE Cardinality(Holders(r)) = 1
  <2>1. PICK c \in Callers : hold[c] = r
    BY <1>3 DEF Held
  <2>2. Holders(r) = {c}
    BY <2>1, NoRunnerIsNone DEF Holders, Unique
  <2>3. QED
    BY <1>3, <2>2, FS_Singleton
<1>4. ASSUME ~Held(r) PROVE Cardinality(Holders(r)) = 0
  <2>1. Holders(r) = {}
    BY <1>4 DEF Holders, Held
  <2>2. QED
    BY <1>4, <2>1, FS_EmptySet
<1>5. QED
  BY <1>1, <1>2, <1>3, <1>4

\* What is in the channel of a runner.
LEMMA Commanded ==
  ASSUME NEW r \in Runners, NEW x \in Commands
  PROVE /\ signal[r] = <<>> => Pending(r, x) = {} /\ Cardinality(Pending(r, x)) = 0
        /\ \A y \in Commands : signal[r] = <<y>> =>
             /\ y = x => Pending(r, x) # {} /\ Cardinality(Pending(r, x)) = 1
             /\ y # x => Pending(r, x) = {} /\ Cardinality(Pending(r, x)) = 0
<1>1. ASSUME signal[r] = <<>> PROVE Pending(r, x) = {}
  BY <1>1 DEF Pending
<1>2. ASSUME NEW y \in Commands, signal[r] = <<y>>
      PROVE Pending(r, x) = IF y = x THEN {1} ELSE {}
  BY <1>2 DEF Pending
<1>3. QED
  BY <1>1, <1>2, FS_EmptySet, FS_Singleton

\* A runner is offered, or held, or on its way to the pool or its end, or lost,
\* and never two of these (dispatcher.go:83-112, runner.go:230-262, 328-368).
THEOREM InOnePlace == Spec => []OnePlace
<1>1. IInv => OnePlace
  <2> SUFFICES ASSUME IInv, NEW r \in Runners, r \notin spoiled, rpc[r] # "none"
               PROVE Cardinality(Offers(r)) + Cardinality(Holders(r)) + Returning(r)
                       + (IF Retiring(r) THEN 1 ELSE 0) + (IF r \in leaked THEN 1 ELSE 0) = 1
    BY DEF OnePlace
  <2>1. /\ Cardinality(Offers(r)) = IF Offered(r) THEN 1 ELSE 0
        /\ Cardinality(Holders(r)) = IF Held(r) THEN 1 ELSE 0
    BY Counts DEF IInv
  <2>2. Place(r) /\ Seated /\ CallerTypes
    BY TypeParts DEF IInv, Placed
  <2>3. ASSUME Waits(r) PROVE Returning(r) = 0 /\ ~Retiring(r)
    BY <2>3, Commanded DEF Waits, Returning, Retiring, Commands
  <2>4. ASSUME NEW c \in Callers, hold[c] = r, Uses(c, r) PROVE Returning(r) = 0 /\ ~Retiring(r)
    <3>1. CASE Waits(r)
      BY <2>3, <3>1
    <3>2. CASE ~Waits(r)
      <4>1. pc[c] \in {"listen", "wait"}
        BY <2>2, <2>4, <3>2, NoRunnerIsNone DEF Uses, Seated, CallerTypes
      <4>2. /\ resets[r] = 0 /\ rpc[r] \in {"ready", "loop", "exec", "respond"}
            /\ signal[r] \in {<<>>, <<"exec">>}
        BY <2>4, <4>1 DEF Uses
      <4>3. QED
        BY <4>2, Commanded DEF Returning, Retiring, Commands
    <3>3. QED
      BY <3>1, <3>2
  <2>5. ASSUME Returns(r) PROVE Returning(r) = 1 /\ ~Retiring(r)
    BY <2>5, Commanded DEF Returns, Returning, Retiring, Commands
  <2>6. ASSUME Retires(r) PROVE Returning(r) = 0 /\ Retiring(r)
    BY <2>6, Commanded DEF Retires, Returning, Retiring, Commands
  <2>7. QED
    BY <2>1, <2>2, <2>3, <2>4, <2>5, <2>6 DEF Place, Held
<1>2. QED
  BY <1>1, Invariance, PTL
=============================================================================
