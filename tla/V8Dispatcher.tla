---------------------------- MODULE V8Dispatcher ----------------------------
(***************************************************************************)
(* The performance mode of runtime/v8: a pool of V8 runners                *)
(* (dispatcher.go), the goroutine of each runner (runner.go), and the      *)
(* callers that select a runner to execute a process (script.go), through  *)
(* a Context (context.go) or by Call (script.go).                          *)
(*                                                                         *)
(* Channels are sequences; runners are numbered in the order of NewRunner. *)
(* The dispatcher has no lock: its total is read and written by every      *)
(* goroutine that creates or destroys a runner, so an increment is a load  *)
(* and a store.  Scripts and their results are abstracted to the request   *)
(* that asked for them; a script comes to an end.                          *)
(***************************************************************************)
EXTENDS Naturals, Sequences, FiniteSets

CONSTANTS Callers,
          Min, Max,     \* Option.MinSize and MaxSize
          Ticks,        \* ticks of 100 ms in the timeout of Select
          UintMod,      \* 2^64, the range of uint
          MaxRunners,   \* bound: runners ever created
          MaxCalls,     \* bound: operations of one caller
          MaxExecs,     \* bound: those, and executions in a Context
          NoRunner, NoRequest,
          ByStart, ByScaling, BySelect  \* who else than a runner creates one

ASSUME PoolAssumption ==
  /\ Min \in Nat /\ Max \in Nat \ {0} /\ Ticks \in Nat \ {0}
  /\ MaxRunners \in Nat /\ MaxCalls \in Nat /\ MaxExecs \in Nat
  /\ UintMod \in Nat /\ UintMod > Max
  /\ {NoRunner, ByStart, ByScaling, BySelect} \cap Nat = {}
  /\ NoRunner \notin {ByStart, ByScaling, BySelect}
  /\ NoRequest \notin Callers \X Nat

Runners == 1..MaxRunners
Requests == Callers \X Nat
Commands == {"exec", "reset", "destroy"}
Operations == {"process", "context", "contextWith", "direct"}


VARIABLES
  availables,  \* Dispatcher.availables, a channel of capacity Max
  total,       \* Dispatcher.total
  missed,      \* Health.missing # 0
  spawned,     \* goroutines of Select about to run create
  created,     \* runners created so far
  started,     \* iterations Start has done
  spc, si,     \* Scaling: where it stands, and its loop variable
  rpc,         \* where each runner's goroutine stands
  signal,      \* Runner.signal, a channel of capacity 2
  request,     \* Runner.chResp, script and args: the last request made of it
  ran,         \* the request whose script it executes
  reply,       \* the response channel its result is being sent to
  resets,      \* goroutines left behind by exec that are to send Reset
  by, cnt,     \* who is creating it, and how far its increment of total is
  seen, left,  \* total as loaded by its creator, and by its destroy
  pc, op,      \* where each caller stands, in which operation
  hold,        \* the runner it has selected
  listen,      \* the channel it waits on for a response
  calls, ticks,
  \* History, read by no action:
  spoiled,     \* runners a Context has executed a script on
  leaked       \* runners selected by Call

dispVars == <<availables, missed, spawned>>
createVars == <<created, started, by>>
countVars == <<total, cnt, seen, left>>
scaleVars == <<spc, si>>
runVars == <<rpc, signal, ran, reply, resets>>
callVars == <<pc, op, hold, listen, calls, ticks, spoiled, leaked, request>>
vars == <<dispVars, createVars, countVars, scaleVars, runVars, callVars>>

Init ==
  /\ availables = <<>> /\ total = 0 /\ missed = FALSE /\ spawned = 0
  /\ created = 0 /\ started = 0
  /\ spc = "tick" /\ si = 0
  /\ rpc = [r \in Runners |-> "none"]
  /\ signal = [r \in Runners |-> <<>>]
  /\ request = [r \in Runners |-> NoRequest]
  /\ ran = [r \in Runners |-> NoRequest]
  /\ reply = [r \in Runners |-> NoRequest]
  /\ resets = [r \in Runners |-> 0]
  /\ by = [r \in Runners |-> NoRunner]
  /\ cnt = [r \in Runners |-> "none"]
  /\ seen = [r \in Runners |-> 0] /\ left = [r \in Runners |-> 0]
  /\ pc = [c \in Callers |-> "idle"]
  /\ op = [c \in Callers |-> "none"]
  /\ hold = [c \in Callers |-> NoRunner]
  /\ listen = [c \in Callers |-> NoRequest]
  /\ calls = [c \in Callers |-> 0] /\ ticks = [c \in Callers |-> 0]
  /\ spoiled = {} /\ leaked = {}

-----------------------------------------------------------------------------
(* Dispatcher.create, run by Start, Scaling, a goroutine of Select, or an  *)
(* unhealthy runner.                                                       *)

\* create tests total long before it counts the new runner.
CanCreate == total < Max /\ created < MaxRunners

Create(who) ==
  /\ created' = created + 1
  /\ rpc' = [rpc EXCEPT ![created + 1] = "start"]
  /\ by' = [by EXCEPT ![created + 1] = who]

\* who is in create, waiting for a runner to be ready and counting it.
Waiting(who) == \E r \in Runners : by[r] = who

CreateOrNot(who) ==
  IF CanCreate THEN Create(who) ELSE UNCHANGED <<created, rpc, by>>

Start ==
  /\ started < Min /\ ~Waiting(ByStart)
  /\ started' = started + 1
  /\ CreateOrNot(ByStart)
  /\ UNCHANGED <<dispVars, countVars, scaleVars, signal, ran, reply, resets, callVars>>

Started == started = Min /\ ~Waiting(ByStart)

\* go dispatcher.create()
Spawn ==
  /\ spawned > 0 /\ spawned' = spawned - 1
  /\ CreateOrNot(BySelect)
  /\ UNCHANGED <<availables, missed, started, countVars, scaleVars, signal, ran, reply,
                 resets, callVars>>

\* dispatcher.total++, once the runner is ready.
CountLoad(r) ==
  /\ cnt[r] = "load" /\ cnt' = [cnt EXCEPT ![r] = "store"]
  /\ seen' = [seen EXCEPT ![r] = total]
  /\ UNCHANGED <<dispVars, createVars, total, left, scaleVars, runVars, callVars>>

CountStore(r) ==
  /\ cnt[r] = "store" /\ cnt' = [cnt EXCEPT ![r] = "counted"]
  /\ by' = [by EXCEPT ![r] = NoRunner]
  /\ total' = (seen[r] + 1) % UintMod
  /\ seen' = [seen EXCEPT ![r] = 0]
  /\ UNCHANGED <<dispVars, created, started, left, scaleVars, runVars, callVars>>

\* Scaling: every 30 seconds, if too many calls of Select found no runner.
Scale ==
  /\ Started /\ spc = "tick" /\ missed
  /\ missed' = FALSE
  /\ spc' \in {"tick", "loop"} /\ si' = 0
  /\ UNCHANGED <<availables, spawned, createVars, countVars, runVars, callVars>>

\* Its loop bound, max - total, is evaluated again before every iteration.
ScaleLoop ==
  /\ spc = "loop" /\ ~Waiting(ByScaling)
  /\ IF si < (Max + UintMod - total) % UintMod
     THEN si' = si + 1 /\ spc' = spc /\ CreateOrNot(ByScaling)
     ELSE si' = 0 /\ spc' = "tick" /\ UNCHANGED <<created, rpc, by>>
  /\ UNCHANGED <<dispVars, started, countVars, signal, ran, reply, resets, callVars>>

-----------------------------------------------------------------------------
(* The goroutine of a runner.                                              *)

\* dispatcher.online, at its start and after a reset; it blocks while the
\* channel is full.
Online(r) ==
  /\ rpc[r] \in {"start", "online"} /\ Len(availables) < Max
  /\ availables' = Append(availables, r)
  /\ rpc' = [rpc EXCEPT ![r] = IF @ = "start" THEN "ready" ELSE "loop"]
  /\ UNCHANGED <<missed, spawned, createVars, countVars, scaleVars, signal, ran, reply,
                 resets, callVars>>

\* ready <- true, received by create.
Ready(r) ==
  /\ rpc[r] = "ready" /\ rpc' = [rpc EXCEPT ![r] = "loop"]
  /\ cnt' = [cnt EXCEPT ![r] = "load"]
  /\ UNCHANGED <<dispVars, createVars, total, seen, left, scaleVars, signal, ran, reply,
                 resets, callVars>>

\* The next command.
Take(r) ==
  /\ rpc[r] = "loop" /\ signal[r] # <<>>
  /\ signal' = [signal EXCEPT ![r] = Tail(@)]
  /\ rpc' = [rpc EXCEPT ![r] = Head(signal[r])]
  /\ ran' = [ran EXCEPT ![r] = IF Head(signal[r]) = "exec" THEN request[r] ELSE @]
  /\ UNCHANGED <<dispVars, createVars, countVars, scaleVars, reply, resets, callVars>>

\* exec: the script has ended; runner.chResp is read for the send.
Finish(r) ==
  /\ rpc[r] = "exec" /\ rpc' = [rpc EXCEPT ![r] = "respond"]
  /\ reply' = [reply EXCEPT ![r] = request[r]]
  /\ UNCHANGED <<dispVars, createVars, countVars, scaleVars, signal, ran, resets, callVars>>

\* An operation returns to its caller.
Return(c) ==
  /\ pc' = [pc EXCEPT ![c] = "idle"] /\ op' = [op EXCEPT ![c] = "none"]
  /\ hold' = [hold EXCEPT ![c] = NoRunner]

\* The end of an execution: execPerformance returns, a Context stays open.
Leave(c) ==
  IF op[c] = "process"
  THEN Return(c)
  ELSE pc' = [pc EXCEPT ![c] = "open"] /\ UNCHANGED <<op, hold>>

\* Mutation: no Reset is sent after an execution.
Respond_noreset(r, c) ==
  /\ rpc[r] = "respond"
  /\ pc[c] = "wait" /\ listen[c] = reply[r]
  /\ rpc' = [rpc EXCEPT ![r] = "loop"]
  /\ ran' = [ran EXCEPT ![r] = NoRequest] /\ reply' = [reply EXCEPT ![r] = NoRequest]
  /\ listen' = [listen EXCEPT ![c] = NoRequest]
  /\ Leave(c)
  /\ UNCHANGED <<dispVars, createVars, countVars, scaleVars, signal, resets, calls,
                 ticks, spoiled, leaked, request>>

\* The result is taken by the caller that waits on that channel, and a
\* goroutine is left to send Reset.
Respond(r, c) ==
  /\ rpc[r] = "respond"
  /\ pc[c] = "wait" /\ listen[c] = reply[r]
  /\ rpc' = [rpc EXCEPT ![r] = "loop"]
  /\ ran' = [ran EXCEPT ![r] = NoRequest] /\ reply' = [reply EXCEPT ![r] = NoRequest]
  /\ resets' = [resets EXCEPT ![r] = @ + 1]
  /\ listen' = [listen EXCEPT ![c] = NoRequest]
  /\ Leave(c)
  /\ UNCHANGED <<dispVars, createVars, countVars, scaleVars, signal, calls, ticks,
                 spoiled, leaked, request>>

\* Sending a command blocks while the channel is full, and panics (and is
\* recovered from) once destroy has closed it.
Closed(r) == rpc[r] = "dead"

Send(r, command) ==
  IF Closed(r) THEN UNCHANGED signal
  ELSE /\ Len(signal[r]) < 2
       /\ signal' = [signal EXCEPT ![r] = Append(@, command)]

\* Mutation: Reset is sent again and again.
SendReset_again(r) ==
  /\ resets[r] > 0 /\ UNCHANGED resets
  /\ Send(r, "reset")
  /\ UNCHANGED <<dispVars, createVars, countVars, scaleVars, rpc, ran, reply, callVars>>

SendReset(r) ==
  /\ resets[r] > 0 /\ resets' = [resets EXCEPT ![r] = @ - 1]
  /\ Send(r, "reset")
  /\ UNCHANGED <<dispVars, createVars, countVars, scaleVars, rpc, ran, reply, callVars>>

\* Mutation: a runner that was reset does not go online.
Reset_offline(r) ==
  /\ rpc[r] = "reset"
  /\ \E result \in {"loop", "condemn"} : rpc' = [rpc EXCEPT ![r] = result]
  /\ UNCHANGED <<dispVars, createVars, countVars, scaleVars, signal, ran, reply, resets, callVars>>

\* reset: a new context, and the health check; an unhealthy runner is to be
\* destroyed and replaced.
Reset(r) ==
  /\ rpc[r] = "reset"
  /\ \E result \in {"online", "condemn"} : rpc' = [rpc EXCEPT ![r] = result]
  /\ UNCHANGED <<dispVars, createVars, countVars, scaleVars, signal, ran, reply, resets, callVars>>

Condemn(r) ==
  /\ rpc[r] = "condemn"
  /\ Send(r, "destroy")
  /\ rpc' = [rpc EXCEPT ![r] = "replace"]
  /\ UNCHANGED <<dispVars, createVars, countVars, scaleVars, ran, reply, resets, callVars>>

Replace(r) ==
  /\ rpc[r] = "replace"
  /\ IF CanCreate
     THEN /\ created' = created + 1
          /\ rpc' = [rpc EXCEPT ![r] = "wait", ![created + 1] = "start"]
          /\ by' = [by EXCEPT ![created + 1] = r]
     ELSE /\ rpc' = [rpc EXCEPT ![r] = "loop"]
          /\ UNCHANGED <<created, by>>
  /\ UNCHANGED <<dispVars, started, countVars, scaleVars, signal, ran, reply, resets, callVars>>

Replaced(r) ==
  /\ rpc[r] = "wait" /\ ~Waiting(r)
  /\ rpc' = [rpc EXCEPT ![r] = "loop"]
  /\ UNCHANGED <<dispVars, createVars, countVars, scaleVars, signal, ran, reply, resets, callVars>>

\* destroy: dispatcher.total--, then the status is set and the channel closed.
DestroyLoad(r) ==
  /\ rpc[r] = "destroy" /\ rpc' = [rpc EXCEPT ![r] = "discount"]
  /\ left' = [left EXCEPT ![r] = total]
  /\ UNCHANGED <<dispVars, createVars, total, cnt, seen, scaleVars, signal, ran, reply,
                 resets, callVars>>

Destroy(r) ==
  /\ rpc[r] = "discount" /\ rpc' = [rpc EXCEPT ![r] = "dead"]
  /\ total' = (left[r] + UintMod - 1) % UintMod
  /\ left' = [left EXCEPT ![r] = 0]
  /\ signal' = [signal EXCEPT ![r] = <<>>]
  /\ UNCHANGED <<dispVars, createVars, cnt, seen, scaleVars, ran, reply, resets, callVars>>

-----------------------------------------------------------------------------
(* The callers.                                                            *)

Call(c, o) ==
  /\ Started /\ pc[c] = "idle" /\ calls[c] < MaxCalls
  /\ pc' = [pc EXCEPT ![c] = "select"] /\ op' = [op EXCEPT ![c] = o]
  /\ ticks' = [ticks EXCEPT ![c] = 0] /\ calls' = [calls EXCEPT ![c] = @ + 1]
  /\ UNCHANGED <<dispVars, createVars, countVars, scaleVars, runVars, hold, listen, spoiled,
                 leaked, request>>

\* Select: a runner is available, ...
Select(c) ==
  /\ pc[c] = "select" /\ availables # <<>>
  /\ availables' = Tail(availables)
  /\ LET r == Head(availables) IN
     IF op[c] = "direct"
     THEN leaked' = leaked \union {r} /\ Return(c)
     ELSE /\ hold' = [hold EXCEPT ![c] = r] /\ UNCHANGED <<leaked, op>>
          /\ pc' = [pc EXCEPT ![c] = IF op[c] = "process" THEN "exec" ELSE "open"]
  /\ ticks' = [ticks EXCEPT ![c] = 0]
  /\ UNCHANGED <<missed, spawned, createVars, countVars, scaleVars, runVars, listen, calls,
                 spoiled, request>>

\* Mutation: the timeout comes a tick late.
Tick_late(c) ==
  /\ pc[c] = "select"
  /\ IF ticks[c] = Ticks
     THEN Return(c) /\ ticks' = [ticks EXCEPT ![c] = 0] /\ UNCHANGED <<missed, spawned>>
     ELSE /\ ticks' = [ticks EXCEPT ![c] = @ + 1] /\ UNCHANGED <<pc, op, hold>>
          /\ IF Len(availables) < Max
             THEN missed' = TRUE /\ spawned' = spawned + 1
             ELSE UNCHANGED <<missed, spawned>>
  /\ UNCHANGED <<availables, createVars, countVars, scaleVars, runVars, listen, calls,
                 spoiled, leaked, request>>

\* Mutation: there is no timeout.
Tick_forever(c) ==
  /\ pc[c] = "select"
  /\ ticks[c] + 1 < Ticks
  /\ ticks' = [ticks EXCEPT ![c] = @ + 1] /\ UNCHANGED <<pc, op, hold>>
  /\ IF Len(availables) < Max
     THEN missed' = TRUE /\ spawned' = spawned + 1
     ELSE UNCHANGED <<missed, spawned>>
  /\ UNCHANGED <<availables, createVars, countVars, scaleVars, runVars, listen, calls,
                 spoiled, leaked, request>>

\* ... or its ticker ticks: it times out, or asks for one more runner.
Tick(c) ==
  /\ pc[c] = "select"
  /\ IF ticks[c] + 1 = Ticks
     THEN Return(c) /\ ticks' = [ticks EXCEPT ![c] = 0] /\ UNCHANGED <<missed, spawned>>
     ELSE /\ ticks' = [ticks EXCEPT ![c] = @ + 1] /\ UNCHANGED <<pc, op, hold>>
          /\ IF Len(availables) < Max
             THEN missed' = TRUE /\ spawned' = spawned + 1
             ELSE UNCHANGED <<missed, spawned>>
  /\ UNCHANGED <<availables, createVars, countVars, scaleVars, runVars, listen, calls,
                 spoiled, leaked, request>>

\* Context.Call and CallWith.
ContextCall(c) ==
  /\ pc[c] = "open" /\ calls[c] < MaxExecs
  /\ pc' = [pc EXCEPT ![c] = "exec"] /\ calls' = [calls EXCEPT ![c] = @ + 1]
  /\ spoiled' = spoiled \union {hold[c]}
  /\ UNCHANGED <<dispVars, createVars, countVars, scaleVars, runVars, op, hold, listen,
                 ticks, leaked, request>>

\* Mutation: the request of the previous execution is kept.
Exec_stale(c) ==
  /\ pc[c] = "exec"
  /\ IF Closed(hold[c])
     THEN Leave(c) /\ UNCHANGED request
     ELSE /\ request' = [request EXCEPT ![hold[c]] = IF @ = NoRequest THEN <<c, calls[c]>> ELSE @]
          /\ pc' = [pc EXCEPT ![c] = "signal"] /\ UNCHANGED <<op, hold>>
  /\ UNCHANGED <<dispVars, createVars, countVars, scaleVars, runVars, listen, calls, ticks,
                 spoiled, leaked>>

\* Exec and ExecWithContext: nothing is done with a destroyed runner, ...
Exec(c) ==
  /\ pc[c] = "exec"
  /\ IF Closed(hold[c])
     THEN Leave(c) /\ UNCHANGED request
     ELSE /\ request' = [request EXCEPT ![hold[c]] = <<c, calls[c]>>]
          /\ pc' = [pc EXCEPT ![c] = "signal"] /\ UNCHANGED <<op, hold>>
  /\ UNCHANGED <<dispVars, createVars, countVars, scaleVars, runVars, listen, calls, ticks,
                 spoiled, leaked>>

\* ... one closed since then panics and is recovered from; ...
ExecSignal(c) ==
  /\ pc[c] = "signal"
  /\ Send(hold[c], "exec")
  /\ IF Closed(hold[c]) THEN Leave(c)
     ELSE pc' = [pc EXCEPT ![c] = "listen"] /\ UNCHANGED <<op, hold>>
  /\ UNCHANGED <<dispVars, createVars, countVars, scaleVars, rpc, ran, reply, resets, listen,
                 calls, ticks, spoiled, leaked, request>>

\* ... and the response channel is read from the runner once more.
ExecListen(c) ==
  /\ pc[c] = "listen"
  /\ listen' = [listen EXCEPT ![c] = request[hold[c]]]
  /\ pc' = [pc EXCEPT ![c] = "wait"]
  /\ UNCHANGED <<dispVars, createVars, countVars, scaleVars, runVars, op, hold, calls,
                 ticks, spoiled, leaked, request>>

\* ExecWithContext gives up when its context is cancelled.
Cancel(c) ==
  /\ pc[c] = "wait" /\ op[c] = "contextWith"
  /\ listen' = [listen EXCEPT ![c] = NoRequest]
  /\ pc' = [pc EXCEPT ![c] = "open"]
  /\ UNCHANGED <<dispVars, createVars, countVars, scaleVars, runVars, op, hold, calls,
                 ticks, spoiled, leaked, request>>

\* Context.Close: Reset, if the runner is not destroyed.
Close(c) ==
  /\ pc[c] = "open"
  /\ Send(hold[c], "reset")
  /\ Return(c)
  /\ UNCHANGED <<dispVars, createVars, countVars, scaleVars, rpc, ran, reply, resets, listen,
                 calls, ticks, spoiled, leaked, request>>

-----------------------------------------------------------------------------
Pool == Start \/ Spawn \/ Scale \/ ScaleLoop

\* The goroutine of the runner, and the others that work for it.
Goroutine(r) ==
  \/ Online(r) \/ Ready(r) \/ Take(r) \/ Finish(r) \/ \E c \in Callers : Respond(r, c)
  \/ Reset(r) \/ Condemn(r) \/ Replace(r) \/ Replaced(r) \/ DestroyLoad(r) \/ Destroy(r)

Count(r) == CountLoad(r) \/ CountStore(r)

Runner(r) == Goroutine(r) \/ SendReset(r) \/ Count(r)

Proceed(c) ==
  Select(c) \/ Tick(c) \/ Exec(c) \/ ExecSignal(c) \/ ExecListen(c)

Context(c) == ContextCall(c) \/ Cancel(c) \/ Close(c)

Next ==
  \/ Pool
  \/ \E r \in Runners : Runner(r)
  \/ \E c \in Callers : Proceed(c) \/ Context(c) \/ \E o \in Operations : Call(c, o)

Spec == Init /\ [][Next]_vars

\* Goroutines run and scripts end; nobody is made to call or to cancel.
Fairness ==
  /\ WF_vars(Start) /\ WF_vars(Spawn)
  /\ \A r \in Runners :
       WF_vars(Goroutine(r)) /\ WF_vars(SendReset(r)) /\ WF_vars(Count(r))
  /\ \A c \in Callers : WF_vars(Proceed(c))

FairSpec == Spec /\ Fairness

-----------------------------------------------------------------------------
(* Properties.                                                             *)

TypeOK ==
  /\ availables \in Seq(Runners) /\ Len(availables) <= Max
  /\ total \in 0..(UintMod - 1) /\ missed \in BOOLEAN /\ spawned \in Nat
  /\ created \in 0..MaxRunners /\ started \in 0..Min
  /\ spc \in {"tick", "loop"} /\ si \in 0..UintMod
  /\ rpc \in [Runners -> Commands \union {"none", "start", "ready", "loop", "online",
                 "condemn", "replace", "wait", "respond", "discount", "dead"}]
  /\ signal \in [Runners -> Seq(Commands)] /\ \A r \in Runners : Len(signal[r]) <= 2
  /\ request \in [Runners -> Requests \union {NoRequest}]
  /\ ran \in [Runners -> Requests \union {NoRequest}]
  /\ reply \in [Runners -> Requests \union {NoRequest}]
  /\ resets \in [Runners -> Nat]
  /\ by \in [Runners -> Runners \union {NoRunner, ByStart, ByScaling, BySelect}]
  /\ cnt \in [Runners -> {"none", "load", "store", "counted"}]
  /\ seen \in [Runners -> 0..(UintMod - 1)] /\ left \in [Runners -> 0..(UintMod - 1)]
  /\ pc \in [Callers -> {"idle", "select", "open", "exec", "signal", "listen", "wait"}]
  /\ op \in [Callers -> Operations \union {"none"}]
  /\ hold \in [Callers -> Runners \union {NoRunner}]
  /\ listen \in [Callers -> Requests \union {NoRequest}]
  /\ calls \in [Callers -> Nat] /\ ticks \in [Callers -> 0..(Ticks - 1)]
  /\ spoiled \subseteq Runners /\ leaked \subseteq Runners

Offers(r) == {i \in DOMAIN availables : availables[i] = r}
Holders(r) == {c \in Callers : hold[c] = r}
Pending(r, command) == {i \in DOMAIN signal[r] : signal[r][i] = command}
Returning(r) ==
  resets[r] + Cardinality(Pending(r, "reset"))
    + (IF rpc[r] \in {"start", "reset", "online"} THEN 1 ELSE 0)
Retiring(r) ==
  \/ rpc[r] \in {"condemn", "replace", "wait", "destroy", "discount", "dead"}
  \/ Pending(r, "destroy") # {}

\* A runner is offered, or held by one caller, or on its way back to the
\* pool, or to its end, or lost to Call, and never two of these: no caller is
\* given a runner that another one is using or that is being destroyed, and
\* none is forgotten (dispatcher.go:83-112, runner.go:230-262, 328-368).
\* Runners that a Context has executed on are another matter.
OnePlace ==
  \A r \in Runners \ spoiled : rpc[r] # "none" =>
    Cardinality(Offers(r)) + Cardinality(Holders(r)) + Returning(r)
      + (IF Retiring(r) THEN 1 ELSE 0) + (IF r \in leaked THEN 1 ELSE 0) = 1

\* What a runner executes for a caller that waits for its response is that
\* caller's own request (runner.go:162-183, 264-325).
OwnResponse ==
  \A c \in Callers, r \in Runners \ spoiled :
    pc[c] = "wait" /\ hold[c] = r =>
      /\ listen[c] = <<c, calls[c]>> /\ request[r] = listen[c]
      /\ rpc[r] \in {"exec", "respond"} => ran[r] = listen[c]
      /\ rpc[r] = "respond" => reply[r] = listen[c]

\* A runner's goroutine, sole reader of its signal channel, does not block
\* sending to it (runner.go:358).
NoSelfBlock == \A r \in Runners \ spoiled : rpc[r] = "condemn" => Len(signal[r]) < 2

\* execPerformance returns: with a response, an error or a timeout
\* (script.go:767-783).
ProcessReturns ==
  \A c \in Callers :
    pc[c] # "idle" /\ op[c] = "process" ~> pc[c] = "idle" \/ hold[c] \in spoiled

\* A runner that has executed a process is offered again or replaced, as long
\* as the pool has room (runner.go:230-262, 349-368).
RunnerReturns ==
  \A r \in Runners :
    resets[r] > 0 ~> \/ Offers(r) # {} \/ Retiring(r) \/ r \in spoiled
                     \/ Len(availables) = Max
=============================================================================
