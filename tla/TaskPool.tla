------------------------------ MODULE TaskPool ------------------------------
(***************************************************************************)
(* The background task pool of task/task.go and task/types.go.             *)
(*                                                                         *)
(* Three kinds of goroutines share the pool: callers inside Add, which     *)
(* hold Task.mutex from the choice of an id to the send on the job queue;  *)
(* the dispatcher inside Start, which pairs a queued job with an idle      *)
(* worker; and the workers, each of which runs the Exec handler in a       *)
(* goroutine of its own and waits for its result, the job's deadline or    *)
(* the end of the task, whichever the select statement picks.              *)
(*                                                                         *)
(* A member of Jobs is one call of Add and the *Job it makes.  Channels    *)
(* with a buffer are sequences, the unbuffered Worker.job is a joint step  *)
(* of its two ends.  A goroutine's steps between two blocking operations   *)
(* on shared state are one action.                                         *)
(***************************************************************************)
EXTENDS Naturals, Sequences, FiniteSets

CONSTANTS Jobs,       \* the calls of Add, one *Job each
          Workers,    \* the workers made by Start (Option.WorkerNums of them)
          Ids,        \* the job ids that may occur
          QueueCap,   \* Option.JobQueueLength: the buffer of Pool.jobque
          HasNextID,  \* whether Handlers.NextID is set (and does not fail)
          HandlerID,  \* the id that handler returns to each call
          NoJob, NoWorker, Free

\* New (task.go:19-36) replaces zero options, so there is a worker and a queue.
ASSUME PoolAssumption ==
  /\ IsFiniteSet(Jobs) /\ IsFiniteSet(Workers) /\ Workers # {}
  /\ QueueCap \in Nat \ {0}
  /\ HasNextID \in BOOLEAN /\ HandlerID \in [Jobs -> Ids]
  /\ \A j, k \in Jobs : HandlerID[j] = HandlerID[k] => j = k
  /\ Ids \subseteq Nat /\ 0 \notin Ids /\ 1..(QueueCap + 1) \subseteq Ids
  /\ NoJob \notin Jobs /\ NoWorker \notin Workers /\ Free \notin Jobs

VARIABLES
  mutex,      \* Task.mutex: the job whose Add holds it, or Free
  id,         \* Job.id, 0 before Add has chosen one
  jobs,       \* Task.jobs: the registry, id -> job (NoJob where absent)
  status,     \* Job.status
  jobque,     \* Pool.jobque
  workerque,  \* Pool.workerque
  dpc,        \* where the dispatcher (Start) stands
  djob,       \* the job the dispatcher has taken off the queue
  dworker,    \* the worker it is handing that job to
  wpc,        \* where each worker stands
  wjob,       \* the job each worker is in start() with
  xpc,        \* the goroutine running Exec for a job, and what it sent
  expired,    \* the job's context is done: deadline passed or cancelled
  cancelled,  \* the task's context is done
  reports,    \* the Success / Error callbacks made for each job, in order
  stray       \* <<j, k>> if Exec of j wrote the progress fields of k # j

callVars == <<mutex, id, jobs, status, jobque>>
dispVars == <<dpc, djob, dworker>>
workVars == <<workerque, wpc, wjob>>
execVars == <<xpc, expired, reports, stray>>
vars == <<callVars, dispVars, workVars, execVars, cancelled>>

Init ==
  /\ mutex = Free
  /\ id = [j \in Jobs |-> 0]
  /\ jobs = [i \in Ids |-> NoJob]
  /\ status = [j \in Jobs |-> "NONE"]
  /\ jobque = <<>> /\ workerque = <<>>
  /\ dpc = "init" /\ djob = NoJob /\ dworker = NoWorker
  /\ wpc = [w \in Workers |-> "off"]
  /\ wjob = [w \in Workers |-> NoJob]
  /\ xpc = [j \in Jobs |-> "none"]
  /\ expired = [j \in Jobs |-> FALSE]
  /\ cancelled = FALSE
  /\ reports = [j \in Jobs |-> <<>>]
  /\ stray = {}

-----------------------------------------------------------------------------
(* Add: one critical section in two steps, the second of which may block.  *)

\* Mutation: the length of the queue is added to the handler's id.
NextID_mixed(j) == IF HasNextID THEN HandlerID[j] + Len(jobque) ELSE Len(jobque) + 1
\* Mutation: the handler is ignored.
NextID_default(j) == Len(jobque) + 1

\* The id of a new job: the handler's, never given twice, or the length of
\* the queue plus one, which is not unique.
NextID(j) == IF HasNextID THEN HandlerID[j] ELSE Len(jobque) + 1

\* The refusal of task.go:92 compares with ">": a buffered channel never
\* holds more than its capacity, so this is never true.
AtLimit == Len(jobque) > QueueCap

AddRegister(j) ==
  /\ status[j] = "NONE"
  /\ mutex = Free
  /\ ~AtLimit
  /\ id' = [id EXCEPT ![j] = NextID(j)]
  /\ jobs' = [jobs EXCEPT ![NextID(j)] = j]
  /\ status' = [status EXCEPT ![j] = "WAITING"]
  /\ mutex' = j
  /\ UNCHANGED <<jobque, dispVars, workVars, execVars, cancelled>>

\* The send that ends Add: it waits, with the mutex held, for room.
AddSend(j) ==
  /\ mutex = j
  /\ Len(jobque) < QueueCap
  /\ jobque' = Append(jobque, j)
  /\ mutex' = Free
  /\ UNCHANGED <<id, jobs, status, dispVars, workVars, execVars, cancelled>>

-----------------------------------------------------------------------------
(* The dispatcher: Start, and Stop.                                        *)

StartTask ==
  /\ dpc = "init"
  /\ dpc' = "select"
  /\ wpc' = [w \in Workers |-> "enlist"]
  /\ UNCHANGED <<callVars, djob, dworker, workerque, wjob, execVars, cancelled>>

\* Mutation: the job stays in the queue.
TakeJob_peek ==
  /\ dpc = "select" /\ jobque # <<>>
  /\ djob' = Head(jobque)
  /\ dpc' = "worker"
  /\ UNCHANGED <<callVars, dworker, workVars, execVars, cancelled>>

TakeJob ==
  /\ dpc = "select" /\ jobque # <<>>
  /\ djob' = Head(jobque)
  /\ jobque' = Tail(jobque)
  /\ dpc' = "worker"
  /\ UNCHANGED <<mutex, id, jobs, status, dworker, workVars, execVars, cancelled>>

TakeWorker ==
  /\ dpc = "worker" /\ workerque # <<>>
  /\ dworker' = Head(workerque)
  /\ workerque' = Tail(workerque)
  /\ dpc' = "hand"
  /\ UNCHANGED <<callVars, djob, wpc, wjob, execVars, cancelled>>

\* The rendezvous on Worker.job: the worker enters start(), which spawns the
\* goroutine for Exec.  A worker that quit never receives.
HandOver ==
  /\ dpc = "hand"
  /\ wpc[dworker] = "select"
  /\ wpc' = [wpc EXCEPT ![dworker] = "wait"]
  /\ wjob' = [wjob EXCEPT ![dworker] = djob]
  /\ xpc' = [xpc EXCEPT ![djob] = "spawned"]
  /\ dpc' = "select" /\ djob' = NoJob /\ dworker' = NoWorker
  /\ UNCHANGED <<callVars, workerque, expired, reports, stray, cancelled>>

\* Start returns on the end of the task's context or on an interrupt signal;
\* the deferred cancel ends the context either way.
StartReturns ==
  /\ dpc = "select"
  /\ dpc' = "returned"
  /\ cancelled' = TRUE
  /\ UNCHANGED <<callVars, djob, dworker, workVars, execVars>>

Stop ==
  /\ ~cancelled
  /\ cancelled' = TRUE
  /\ UNCHANGED <<callVars, dispVars, workVars, execVars>>

-----------------------------------------------------------------------------
(* A worker: startWorker's loop and start().                               *)

Enlist(w) ==
  /\ wpc[w] = "enlist"
  /\ Len(workerque) < Cardinality(Workers)
  /\ workerque' = Append(workerque, w)
  /\ wpc' = [wpc EXCEPT ![w] = "select"]
  /\ UNCHANGED <<callVars, dispVars, wjob, execVars, cancelled>>

Quit(w) ==
  /\ wpc[w] = "select" /\ cancelled
  /\ wpc' = [wpc EXCEPT ![w] = "gone"]
  /\ UNCHANGED <<callVars, dispVars, workerque, wjob, execVars, cancelled>>

\* Mutation: the select is entered again after a report.
Report_stay(w, result, newstatus) ==
  /\ status' = [status EXCEPT ![wjob[w]] = newstatus]
  /\ reports' = [reports EXCEPT ![wjob[w]] = Append(@, result)]
  /\ UNCHANGED <<mutex, id, jobs, jobque, dispVars, workVars,
                 xpc, expired, stray, cancelled>>

\* The select of start(): any ready case may be chosen.
Report(w, result, newstatus) ==
  /\ status' = [status EXCEPT ![wjob[w]] = newstatus]
  /\ reports' = [reports EXCEPT ![wjob[w]] = Append(@, result)]
  /\ wpc' = [wpc EXCEPT ![w] = "report"]
  /\ UNCHANGED <<mutex, id, jobs, jobque, dispVars, workerque, wjob,
                 xpc, expired, stray, cancelled>>

Succeed(w) ==
  /\ wpc[w] = "wait" /\ xpc[wjob[w]] = "ok"
  /\ Report(w, "success", "SUCCESS")

\* Mutation: the case of the task's context is missing.
Fail_notask(w) ==
  /\ wpc[w] = "wait" /\ (expired[wjob[w]] \/ xpc[wjob[w]] = "error")
  /\ Report(w, "failure", "FAILURE")

Fail(w) ==
  /\ wpc[w] = "wait"
  /\ cancelled \/ expired[wjob[w]] \/ xpc[wjob[w]] = "error"
  /\ Report(w, "failure", "FAILURE")

\* Mutation: the registry entry stays.
Remove_keep(w) ==
  /\ wpc[w] = "report" /\ mutex = Free
  /\ expired' = [expired EXCEPT ![wjob[w]] = TRUE]
  /\ wjob' = [wjob EXCEPT ![w] = NoJob]
  /\ wpc' = [wpc EXCEPT ![w] = "enlist"]
  /\ UNCHANGED <<callVars, dispVars, workerque, xpc, reports, stray, cancelled>>

\* Mutation: the worker ends with its job.
Remove_once(w) ==
  /\ wpc[w] = "report" /\ mutex = Free
  /\ jobs' = [jobs EXCEPT ![id[wjob[w]]] = NoJob]
  /\ expired' = [expired EXCEPT ![wjob[w]] = TRUE]
  /\ wjob' = [wjob EXCEPT ![w] = NoJob]
  /\ wpc' = [wpc EXCEPT ![w] = "gone"]
  /\ UNCHANGED <<mutex, id, status, jobque, dispVars, workerque, xpc,
                 reports, stray, cancelled>>

\* The deferred functions of start(): the registry entry goes under the
\* mutex, the job's context is cancelled, and the worker loops.
Remove(w) ==
  /\ wpc[w] = "report" /\ mutex = Free
  /\ jobs' = [jobs EXCEPT ![id[wjob[w]]] = NoJob]
  /\ expired' = [expired EXCEPT ![wjob[w]] = TRUE]
  /\ wjob' = [wjob EXCEPT ![w] = NoJob]
  /\ wpc' = [wpc EXCEPT ![w] = "enlist"]
  /\ UNCHANGED <<mutex, id, status, jobque, dispVars, workerque, xpc,
                 reports, stray, cancelled>>

-----------------------------------------------------------------------------
(* The goroutine of start() that runs Exec; nothing stops it once spawned. *)

ExecBegin(j) ==
  /\ xpc[j] = "spawned"
  /\ xpc' = [xpc EXCEPT ![j] = "running"]
  /\ status' = [status EXCEPT ![j] = "RUNNING"]
  /\ UNCHANGED <<mutex, id, jobs, jobque, dispVars, workVars, expired,
                 reports, stray, cancelled>>

\* Mutation: a job whose handler failed is queued again.
ExecEnd_retry(j) ==
  /\ xpc[j] = "running"
  /\ \/ /\ xpc' = [xpc EXCEPT ![j] = "ok"]
        /\ UNCHANGED jobque
     \/ /\ xpc' = [xpc EXCEPT ![j] = "error"]
        /\ Len(jobque) < QueueCap
        /\ jobque' = Append(jobque, j)
  /\ UNCHANGED <<mutex, id, jobs, status, dispVars, workVars, expired, reports,
                 stray, cancelled>>

\* The handler returned, failed or panicked; the result is in a channel of
\* capacity one that nobody else writes.
ExecEnd(j) ==
  /\ xpc[j] = "running"
  /\ \E r \in {"ok", "error"} : xpc' = [xpc EXCEPT ![j] = r]
  /\ UNCHANGED <<callVars, dispVars, workVars, expired, reports, stray, cancelled>>

\* Progress(name, id, ...) called by the handler with the id it was given:
\* it writes to whatever job the registry holds under that id.
Progress(j) ==
  /\ xpc[j] = "running" /\ mutex = Free
  /\ jobs[id[j]] # NoJob
  /\ stray' = IF jobs[id[j]] = j THEN stray ELSE stray \union {<<j, jobs[id[j]]>>}
  /\ UNCHANGED <<callVars, dispVars, workVars, xpc, expired, reports, cancelled>>

\* The deadline set by Add passes; start() cancels it when the job is over.
Expire(j) ==
  /\ id[j] # 0 /\ ~expired[j]
  /\ expired' = [expired EXCEPT ![j] = TRUE]
  /\ UNCHANGED <<callVars, dispVars, workVars, xpc, reports, stray, cancelled>>

-----------------------------------------------------------------------------
Dispatch == StartTask \/ TakeJob \/ TakeWorker \/ HandOver \/ StartReturns
Caller(j) == AddRegister(j) \/ AddSend(j)
Worker(w) == Enlist(w) \/ Quit(w) \/ Succeed(w) \/ Fail(w) \/ Remove(w)
Exec(j) == ExecBegin(j) \/ ExecEnd(j) \/ Progress(j) \/ Expire(j)

Next == \/ Dispatch
        \/ Stop
        \/ \E j \in Jobs : Caller(j) \/ Exec(j)
        \/ \E w \in Workers : Worker(w)

\* The Go scheduler runs every goroutine that can run, and a timer fires.
\* Nothing obliges a caller to call, the application to start or stop the
\* task, an interrupt to arrive or a handler to return; and once the task is
\* stopped nobody relies on a deadline, which may be minutes away.
Fairness ==
  /\ WF_vars(TakeJob) /\ WF_vars(TakeWorker) /\ WF_vars(HandOver)
  /\ \A j \in Jobs : WF_vars(AddSend(j)) /\ WF_vars(~cancelled /\ Expire(j))
  /\ \A w \in Workers : WF_vars(Worker(w))

Spec == Init /\ [][Next]_vars
FairSpec == Spec /\ Fairness

-----------------------------------------------------------------------------
(* Properties.                                                             *)

\* Every variable stays in its type: one per module.
TypeOK ==
  /\ mutex \in Jobs \union {Free}
  /\ id \in [Jobs -> Ids \union {0}]
  /\ jobs \in [Ids -> Jobs \union {NoJob}]
  /\ status \in [Jobs -> {"NONE", "WAITING", "RUNNING", "SUCCESS", "FAILURE"}]
  /\ jobque \in Seq(Jobs)
  /\ workerque \in Seq(Workers)
  /\ dpc \in {"init", "select", "worker", "hand", "returned"}
  /\ djob \in Jobs \union {NoJob}
  /\ dworker \in Workers \union {NoWorker}
  /\ wpc \in [Workers -> {"off", "enlist", "select", "wait", "report", "gone"}]
  /\ wjob \in [Workers -> Jobs \union {NoJob}]
  /\ xpc \in [Jobs -> {"none", "spawned", "running", "ok", "error"}]
  /\ expired \in [Jobs -> BOOLEAN]
  /\ cancelled \in BOOLEAN
  /\ reports \in [Jobs -> Seq({"success", "failure"})]
  /\ stray \subseteq Jobs \X Jobs

Queued(j) == \E n \in DOMAIN jobque : jobque[n] = j
Busy(j) == \E w \in Workers : wjob[w] = j
InFlight(j) == mutex = j \/ Queued(j) \/ djob = j \/ Busy(j)
Finished(j) == id[j] # 0 /\ ~InFlight(j)

\* When ids are unique, the registry that Get and Progress consult holds
\* exactly the jobs whose Add has begun and whose worker has not dropped
\* them: no job in flight is unknown and no finished one lingers
\* (task.go:106, 184-188), whatever the interleaving with Stop and timeouts.
RegistryExact ==
  HasNextID => \A j \in Jobs : id[j] # 0 => (jobs[id[j]] = j <=> InFlight(j))

\* A job is never in two places: in Add, once in the queue, with the
\* dispatcher, or with one worker (task.go:70-73, 168-170).
JobHeldOnce ==
  /\ \A m, n \in DOMAIN jobque : jobque[m] = jobque[n] => m = n
  /\ \A w1, w2 \in Workers : wjob[w1] = wjob[w2] /\ wjob[w1] # NoJob => w1 = w2
  /\ djob # NoJob => ~Queued(djob) /\ ~Busy(djob) /\ mutex # djob
  /\ mutex # Free => ~Queued(mutex) /\ ~Busy(mutex)
  /\ \A j \in Jobs : ~(Queued(j) /\ Busy(j))

\* A worker is offered at most once and never while it has a job: its entry
\* in the worker queue, or the dispatcher's hold on it, means it is in its
\* select or has quit (task.go:166-173).
BusyNotOffered ==
  /\ \A m, n \in DOMAIN workerque : workerque[m] = workerque[n] => m = n
  /\ \A n \in DOMAIN workerque :
        wpc[workerque[n]] \in {"select", "gone"} /\ workerque[n] # dworker
  /\ dworker # NoWorker => wpc[dworker] \in {"select", "gone"}

\* The two together: a job is with one holder, and none is handed to a worker
\* that is busy.
JobInOnePlace == JobHeldOnce /\ BusyNotOffered

\* Exactly one of the Success and Error handlers is called for a job, once,
\* before its registry entry goes: a result racing the deadline or Stop is
\* never reported twice, nor is a job dropped in silence (task.go:207-228).
OneReport ==
  \A j \in Jobs :
     Len(reports[j]) = IF Finished(j) \/ \E w \in Workers : wjob[w] = j /\ wpc[w] = "report"
                       THEN 1 ELSE 0

\* Success is only reported of a job whose own handler returned no error, and
\* a job reported as success keeps that status: unlike FAILURE it cannot be
\* overwritten by the late "RUNNING" of its goroutine (task.go:249, 271).
SuccessIsReal ==
  \A j \in Jobs : reports[j] = <<"success">> => xpc[j] = "ok" /\ status[j] = "SUCCESS"

\* The two together: one report per job, and a true one.
ReportedOnce == OneReport /\ SuccessIsReal

\* When ids are unique, progress written through the registry by a handler,
\* even one that outlived its job, never lands on another job (task.go:122-134).
ProgressIsOwn == HasNextID => stray = {}

\* A job that left the registry never comes back to any queue or worker.
NoneReturns == \A j \in Jobs : Finished(j) => Finished(j)'
FinishedForGood == [][NoneReturns]_vars

\* In a task that is started and not stopped, every added job is eventually
\* over (Jobs is finite, so this is one <>[] for all of them).  It holds while
\* there are too few jobs to fill the queue, the dispatcher, all the workers
\* and one Add at once; AddReturns is what happens when there are more.
EveryJobFinishes ==
  <>[](dpc # "init" /\ ~cancelled => \A j \in Jobs : id[j] # 0 => Finished(j))

\* Once the task is stopped no worker stays waiting for a handler: it reports
\* its job and moves on (task.go:208-211; TestStart expects the jobs cut off
\* by Stop among its "error" results).
StopEndsWaiting == <>[](cancelled => \A w \in Workers : wpc[w] # "wait")

\* What the refusal at task.go:92 says of Add: it does not wait for ever at
\* the limit of the jobs queue while the task is alive.
AddReturns == \A j \in Jobs : (mutex = j /\ dpc # "init") ~> (mutex # j \/ cancelled)
=============================================================================
