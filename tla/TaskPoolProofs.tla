--------------------------- MODULE TaskPoolProofs ---------------------------
(***************************************************************************)
(* Proofs about TaskPool for any number of jobs and workers and any queue. *)
(*                                                                         *)
(* The safety properties are not inductive by themselves.  Control ties    *)
(* the program counters to the jobs and workers the goroutines hold, and   *)
(* Numbered says that a job has its id from Add on and that the registry   *)
(* and the ids agree; with them each action preserves every property.      *)
(***************************************************************************)
EXTENDS TaskPool, TLAPS

Control ==
  /\ dpc \in {"worker", "hand"} <=> djob # NoJob
  /\ dpc = "hand" <=> dworker # NoWorker
  /\ dpc = "init" => workerque = <<>> /\ \A w \in Workers : wpc[w] = "off"
  /\ \A w \in Workers : wpc[w] \in {"wait", "report"} <=> wjob[w] # NoJob

Numbered ==
  /\ \A j \in Jobs : status[j] = "NONE" <=> id[j] = 0
  /\ \A j \in Jobs : InFlight(j) \/ xpc[j] # "none" => id[j] # 0
  /\ HasNextID => /\ \A j \in Jobs : id[j] # 0 => id[j] = HandlerID[j]
                  /\ \A i \in Ids : jobs[i] # NoJob => id[jobs[i]] = i

IInv ==
  /\ TypeOK /\ Control /\ Numbered
  /\ JobHeldOnce /\ BusyNotOffered
  /\ RegistryExact /\ OneReport /\ SuccessIsReal /\ ProgressIsOwn

-----------------------------------------------------------------------------
(* What sending to and receiving from a buffered channel do to it.         *)

LEMMA Empty ==
  ASSUME NEW S
  PROVE  <<>> \in Seq(S) /\ DOMAIN <<>> = {} /\ Len(<<>>) = 0
  OBVIOUS

LEMMA Send ==
  ASSUME NEW S, NEW q \in Seq(S), NEW x \in S
  PROVE  /\ Append(q, x) \in Seq(S)
         /\ DOMAIN q = 1..Len(q) /\ Len(q) \in Nat
         /\ DOMAIN Append(q, x) = 1..(Len(q) + 1)
         /\ \A n \in DOMAIN q : Append(q, x)[n] = q[n]
         /\ Append(q, x)[Len(q) + 1] = x
  OBVIOUS

LEMMA Receive ==
  ASSUME NEW S, NEW q \in Seq(S), q # <<>>
  PROVE  /\ Head(q) \in S /\ Tail(q) \in Seq(S)
         /\ DOMAIN q = 1..Len(q) /\ Len(q) \in Nat \ {0}
         /\ q[1] = Head(q)
         /\ DOMAIN Tail(q) = 1..(Len(q) - 1)
         /\ \A n \in DOMAIN Tail(q) : Tail(q)[n] = q[n + 1]
  OBVIOUS

LEMMA NoReport ==
  ASSUME NEW s, Len(s) = 0
  PROVE  s # <<"success">>
  <1>1. Len(<<"success">>) = 1
    OBVIOUS
  <1> QED
    BY <1>1

-----------------------------------------------------------------------------
LEMMA InitIInv == Init => IInv
  <1> SUFFICES ASSUME Init PROVE IInv
    OBVIOUS
  <1> USE PoolAssumption DEF Init
  <1>1. TypeOK
    <2>1. jobque \in Seq(Jobs) /\ workerque \in Seq(Workers)
      BY Empty
    <2>2. reports \in [Jobs -> Seq({"success", "failure"})]
      BY Empty
    <2>3. jobs \in [Ids -> Jobs \union {NoJob}] /\ id \in [Jobs -> Ids \union {0}]
      OBVIOUS
    <2> QED
      BY <2>1, <2>2, <2>3 DEF TypeOK
  <1>2. \A j \in Jobs : ~InFlight(j)
    BY DEF InFlight, Queued, Busy
  <1>3. Control /\ Numbered /\ RegistryExact /\ ProgressIsOwn
    BY <1>2 DEF Control, Numbered, RegistryExact, ProgressIsOwn
  <1>4. JobHeldOnce /\ BusyNotOffered
    BY <1>2, Empty DEF JobHeldOnce, BusyNotOffered, InFlight, Queued, Busy
  <1>5. OneReport /\ SuccessIsReal
    BY DEF OneReport, SuccessIsReal, Finished
  <1> QED
    BY <1>1, <1>3, <1>4, <1>5 DEF IInv

LEMMA StepIInv == IInv /\ [Next]_vars => IInv'
  <1> SUFFICES ASSUME IInv, [Next]_vars PROVE IInv'
    OBVIOUS
  <1> USE PoolAssumption DEF IInv, callVars, dispVars, workVars, execVars
  <1>1. ASSUME NEW j \in Jobs, AddRegister(j) PROVE IInv'
    <2> USE <1>1 DEF AddRegister
    <2>0. NextID(j) \in Ids /\ NextID(j) # 0
      BY DEF TypeOK, NextID, AtLimit
    <2>a. ~InFlight(j) /\ id[j] = 0
      BY DEF Numbered
    <2>1. TypeOK'
      BY <2>0 DEF TypeOK
    <2>2. \A k \in Jobs : Queued(k)' <=> Queued(k)
      BY DEF Queued
    <2>3. \A k \in Jobs : Busy(k)' <=> Busy(k)
      BY DEF Busy
    <2>4. Control'
      BY DEF TypeOK, Control
    <2>5. JobHeldOnce'
      BY <2>a, <2>2, <2>3 DEF JobHeldOnce, InFlight, Queued, Busy
    <2>6. BusyNotOffered'
      BY DEF TypeOK, Control, BusyNotOffered
    <2>7. Numbered'
      <3>1. \A k \in Jobs : status'[k] = "NONE" <=> id'[k] = 0
        BY <2>0 DEF TypeOK, Numbered
      <3>2. \A k \in Jobs : InFlight(k)' \/ xpc'[k] # "none" => id'[k] # 0
        BY <2>0, <2>2, <2>3 DEF TypeOK, Numbered, InFlight
      <3>3. ASSUME HasNextID
            PROVE  /\ \A k \in Jobs : id'[k] # 0 => id'[k] = HandlerID[k]
                   /\ \A i \in Ids : jobs'[i] # NoJob => id'[jobs'[i]] = i
        BY <3>3, <2>0, <2>a DEF TypeOK, Numbered, NextID
      <3> QED
        BY <3>1, <3>2, <3>3 DEF Numbered
    <2>8. RegistryExact'
      <3> SUFFICES ASSUME HasNextID, NEW k \in Jobs, id'[k] # 0
                   PROVE  jobs'[id'[k]] = k <=> InFlight(k)'
        BY DEF RegistryExact
      <3>1. CASE k = j
        BY <3>1, <2>0 DEF TypeOK, InFlight
      <3>2. CASE k # j
        <4>1. id'[k] = HandlerID[k] /\ id[k] = HandlerID[k] /\ NextID(j) # HandlerID[k]
          BY <3>2, <2>0 DEF TypeOK, Numbered, NextID
        <4>2. InFlight(k)' <=> InFlight(k)
          BY <3>2, <2>2, <2>3 DEF InFlight
        <4> QED
          BY <4>1, <4>2, <2>0 DEF TypeOK, RegistryExact
      <3> QED
        BY <3>1, <3>2
    <2>9. OneReport'
      BY <2>2, <2>3 DEF TypeOK, Control, Numbered, InFlight, OneReport, Finished
    <2>10. SuccessIsReal'
      BY DEF TypeOK, Control, Numbered, OneReport, SuccessIsReal
    <2>11. ProgressIsOwn'
      BY DEF TypeOK, Numbered, ProgressIsOwn
    <2> QED
      BY <2>1, <2>4, <2>5, <2>6, <2>7, <2>8, <2>9, <2>10, <2>11
  <1>2. ASSUME NEW j \in Jobs, AddSend(j) PROVE IInv'
    <2> USE <1>2 DEF AddSend
    <2>1. TypeOK'
      BY Send DEF TypeOK
    <2>2. \A k \in Jobs : Queued(k)' <=> Queued(k) \/ k = j
      <3>1. /\ DOMAIN jobque = 1..Len(jobque) /\ Len(jobque) \in Nat
            /\ DOMAIN jobque' = 1..(Len(jobque) + 1)
            /\ \A n \in DOMAIN jobque : jobque'[n] = jobque[n]
            /\ jobque'[Len(jobque) + 1] = j
        BY Send DEF TypeOK
      <3> QED
        BY <3>1 DEF Queued
    <2>3. \A k \in Jobs : Busy(k)' <=> Busy(k)
      BY DEF Busy
    <2>4. Control'
      BY DEF TypeOK, Control
    <2>5. JobHeldOnce'
      <3>1. /\ DOMAIN jobque = 1..Len(jobque) /\ Len(jobque) \in Nat
            /\ DOMAIN jobque' = 1..(Len(jobque) + 1)
            /\ \A n \in DOMAIN jobque : jobque'[n] = jobque[n]
            /\ jobque'[Len(jobque) + 1] = j
        BY Send DEF TypeOK
      <3>2. ~Queued(j) /\ ~Busy(j) /\ djob # j
        BY DEF JobHeldOnce
      <3>3. \A m, n \in DOMAIN jobque' : jobque'[m] = jobque'[n] => m = n
        BY <3>1, <3>2 DEF JobHeldOnce, Queued
      <3>4. \A w1, w2 \in Workers : wjob'[w1] = wjob'[w2] /\ wjob'[w1] # NoJob => w1 = w2
        BY DEF JobHeldOnce
      <3>5. djob' # NoJob => ~Queued(djob)' /\ ~Busy(djob)' /\ mutex' # djob'
        BY <3>2, <2>2, <2>3 DEF JobHeldOnce, TypeOK
      <3>6. \A k \in Jobs : ~(Queued(k)' /\ Busy(k)')
        BY <3>2, <2>2, <2>3 DEF JobHeldOnce
      <3> QED
        BY <3>3, <3>4, <3>5, <3>6 DEF JobHeldOnce
    <2>6. BusyNotOffered'
      BY DEF TypeOK, Control, BusyNotOffered
    <2>7. Numbered'
      BY <2>2, <2>3 DEF TypeOK, Control, Numbered, InFlight
    <2>8. RegistryExact'
      BY <2>2, <2>3 DEF TypeOK, Control, Numbered, InFlight, RegistryExact
    <2>9. OneReport'
      BY <2>2, <2>3 DEF TypeOK, Control, Numbered, InFlight, OneReport, Finished
    <2>10. SuccessIsReal'
      BY DEF TypeOK, Control, Numbered, OneReport, SuccessIsReal
    <2>11. ProgressIsOwn'
      BY DEF TypeOK, Numbered, ProgressIsOwn
    <2> QED
      BY <2>1, <2>4, <2>5, <2>6, <2>7, <2>8, <2>9, <2>10, <2>11
  <1>3. ASSUME StartTask PROVE IInv'
    <2> USE <1>3 DEF StartTask
    <2>1. TypeOK'
      BY DEF TypeOK
    <2>2. \A k \in Jobs : Queued(k)' <=> Queued(k)
      BY DEF Queued
    <2>3. \A k \in Jobs : Busy(k)' <=> Busy(k)
      BY DEF Busy
    <2>4. Control'
      BY DEF TypeOK, Control
    <2>5. JobHeldOnce'
      BY DEF JobHeldOnce, Queued, Busy
    <2>6. BusyNotOffered'
      BY DEF TypeOK, Control, BusyNotOffered
    <2>7. Numbered'
      BY <2>2, <2>3 DEF TypeOK, Control, Numbered, InFlight
    <2>8. RegistryExact'
      BY <2>2, <2>3 DEF TypeOK, Control, Numbered, InFlight, RegistryExact
    <2>9. OneReport'
      BY <2>2, <2>3 DEF TypeOK, Control, Numbered, InFlight, OneReport, Finished
    <2>10. SuccessIsReal'
      BY DEF TypeOK, Control, Numbered, OneReport, SuccessIsReal
    <2>11. ProgressIsOwn'
      BY DEF TypeOK, Numbered, ProgressIsOwn
    <2> QED
      BY <2>1, <2>4, <2>5, <2>6, <2>7, <2>8, <2>9, <2>10, <2>11
  <1>4. ASSUME TakeJob PROVE IInv'
    <2> USE <1>4 DEF TakeJob
    <2>0. /\ djob' \in Jobs /\ jobque' \in Seq(Jobs) /\ jobque[1] = djob'
          /\ DOMAIN jobque = 1..Len(jobque) /\ Len(jobque) \in Nat \ {0}
          /\ DOMAIN jobque' = 1..(Len(jobque) - 1)
          /\ \A n \in DOMAIN jobque' : jobque'[n] = jobque[n + 1]
      BY Receive DEF TypeOK
    <2>a. djob = NoJob /\ Queued(djob')
      BY <2>0 DEF Control, Queued
    <2>1. TypeOK'
      BY <2>0 DEF TypeOK
    <2>2. \A k \in Jobs : Queued(k)' <=> Queued(k) /\ k # djob'
      <3>1. \A k : Queued(k)' => Queued(k) /\ k # djob'
        BY <2>0 DEF Queued, JobHeldOnce
      <3>2. ASSUME NEW k, Queued(k), k # djob' PROVE Queued(k)'
        <4>1. PICK n \in DOMAIN jobque : jobque[n] = k
          BY <3>2 DEF Queued
        <4>2. n - 1 \in DOMAIN jobque' /\ jobque'[n - 1] = k
          BY <4>1, <3>2, <2>0
        <4> QED
          BY <4>2 DEF Queued
      <3> QED
        BY <3>1, <3>2
    <2>3. \A k \in Jobs : Busy(k)' <=> Busy(k)
      BY DEF Busy
    <2>4. Control'
      BY <2>0, <2>a DEF TypeOK, Control
    <2>5. JobHeldOnce'
      <3>1. \A m, n \in DOMAIN jobque' : jobque'[m] = jobque'[n] => m = n
        BY <2>0 DEF JobHeldOnce
      <3>2. mutex # djob' /\ ~Busy(djob')
        BY <2>0, <2>a DEF JobHeldOnce, TypeOK
      <3>3. \A w1, w2 \in Workers : wjob'[w1] = wjob'[w2] /\ wjob'[w1] # NoJob => w1 = w2
        BY DEF JobHeldOnce
      <3>4. ~Queued(djob)' /\ ~Busy(djob)'
        BY <3>2, <2>0, <2>2, <2>3
      <3>5. mutex' # Free => ~Queued(mutex)' /\ ~Busy(mutex)'
        BY <2>2, <2>3 DEF JobHeldOnce, TypeOK
      <3>6. \A k \in Jobs : ~(Queued(k)' /\ Busy(k)')
        BY <2>2, <2>3 DEF JobHeldOnce
      <3> QED
        BY <3>1, <3>2, <3>3, <3>4, <3>5, <3>6 DEF JobHeldOnce
    <2>6. BusyNotOffered'
      BY DEF TypeOK, Control, BusyNotOffered
    <2>7. Numbered'
      BY <2>0, <2>a, <2>2, <2>3 DEF TypeOK, Numbered, InFlight
    <2>8. RegistryExact'
      BY <2>0, <2>a, <2>2, <2>3 DEF TypeOK, Numbered, InFlight, RegistryExact
    <2>9. OneReport'
      BY <2>0, <2>a, <2>2, <2>3 DEF TypeOK, InFlight, OneReport, Finished
    <2>10. SuccessIsReal'
      BY DEF TypeOK, Control, Numbered, OneReport, SuccessIsReal
    <2>11. ProgressIsOwn'
      BY DEF TypeOK, Numbered, ProgressIsOwn
    <2> QED
      BY <2>1, <2>4, <2>5, <2>6, <2>7, <2>8, <2>9, <2>10, <2>11
  <1>5. ASSUME TakeWorker PROVE IInv'
    <2> USE <1>5 DEF TakeWorker
    <2>1. TypeOK'
      BY Receive DEF TypeOK
    <2>2. \A k \in Jobs : Queued(k)' <=> Queued(k)
      BY DEF Queued
    <2>3. \A k \in Jobs : Busy(k)' <=> Busy(k)
      BY DEF Busy
    <2>4. Control'
      BY Receive DEF TypeOK, Control
    <2>5. JobHeldOnce'
      BY DEF JobHeldOnce, Queued, Busy
    <2>6. BusyNotOffered'
      BY Receive DEF TypeOK, Control, BusyNotOffered
    <2>7. Numbered'
      BY <2>2, <2>3 DEF TypeOK, Control, Numbered, InFlight
    <2>8. RegistryExact'
      BY <2>2, <2>3 DEF TypeOK, Control, Numbered, InFlight, RegistryExact
    <2>9. OneReport'
      BY <2>2, <2>3 DEF TypeOK, Control, Numbered, InFlight, OneReport, Finished
    <2>10. SuccessIsReal'
      BY DEF TypeOK, Control, Numbered, OneReport, SuccessIsReal
    <2>11. ProgressIsOwn'
      BY DEF TypeOK, Numbered, ProgressIsOwn
    <2> QED
      BY <2>1, <2>4, <2>5, <2>6, <2>7, <2>8, <2>9, <2>10, <2>11
  <1>6. ASSUME HandOver PROVE IInv'
    <2> USE <1>6 DEF HandOver
    <2>0. djob \in Jobs /\ dworker \in Workers /\ wjob[dworker] = NoJob
      BY DEF TypeOK, Control
    <2>a. ~Queued(djob) /\ ~Busy(djob) /\ mutex # djob /\ InFlight(djob)
      BY <2>0 DEF JobHeldOnce, InFlight
    <2>1. TypeOK'
      BY <2>0 DEF TypeOK
    <2>2. \A k \in Jobs : Queued(k)' <=> Queued(k)
      BY DEF Queued
    <2>3. \A k \in Jobs : Busy(k)' <=> Busy(k) \/ k = djob
      BY <2>0 DEF TypeOK, Busy
    <2>4. Control'
      BY DEF TypeOK, Control
    <2>5. JobHeldOnce'
      <3>1. \A w1, w2 \in Workers : wjob'[w1] = wjob'[w2] /\ wjob'[w1] # NoJob => w1 = w2
        BY <2>0, <2>a DEF TypeOK, JobHeldOnce, Busy
      <3>2. mutex' # Free => ~Queued(mutex)' /\ ~Busy(mutex)'
        BY <2>a, <2>2, <2>3 DEF JobHeldOnce, TypeOK
      <3>3. \A k \in Jobs : ~(Queued(k)' /\ Busy(k)')
        BY <2>a, <2>2, <2>3 DEF JobHeldOnce
      <3> QED
        BY <3>1, <3>2, <3>3, <2>2 DEF JobHeldOnce
    <2>6. BusyNotOffered'
      BY DEF TypeOK, Control, BusyNotOffered
    <2>7. Numbered'
      BY <2>0, <2>a, <2>2, <2>3 DEF TypeOK, Numbered, InFlight
    <2>8. RegistryExact'
      BY <2>0, <2>a, <2>2, <2>3 DEF TypeOK, Numbered, InFlight, RegistryExact
    <2>9. OneReport'
      <3>1. \A k \in Jobs : Finished(k)' <=> Finished(k)
        BY <2>0, <2>2, <2>3 DEF Finished, InFlight, TypeOK
      <3>2. \A k \in Jobs : (\E w \in Workers : wjob'[w] = k /\ wpc'[w] = "report")
                           <=> (\E w \in Workers : wjob[w] = k /\ wpc[w] = "report")
        BY <2>0, <2>a DEF TypeOK
      <3> QED
        BY <3>1, <3>2 DEF OneReport
    <2>10. SuccessIsReal'
      <3>1. Len(reports[djob]) = 0
        BY <2>0, <2>a DEF OneReport, Finished, Busy
      <3>2. reports[djob] # <<"success">>
        BY <3>1, NoReport
      <3> QED
        BY <2>0, <3>2 DEF TypeOK, SuccessIsReal
    <2>11. ProgressIsOwn'
      BY DEF TypeOK, Numbered, ProgressIsOwn
    <2> QED
      BY <2>1, <2>4, <2>5, <2>6, <2>7, <2>8, <2>9, <2>10, <2>11
  <1>7. ASSUME StartReturns PROVE IInv'
    <2> USE <1>7 DEF StartReturns
    <2>1. TypeOK'
      BY DEF TypeOK
    <2>2. \A k \in Jobs : Queued(k)' <=> Queued(k)
      BY DEF Queued
    <2>3. \A k \in Jobs : Busy(k)' <=> Busy(k)
      BY DEF Busy
    <2>4. Control'
      BY DEF TypeOK, Control
    <2>5. JobHeldOnce'
      BY DEF JobHeldOnce, Queued, Busy
    <2>6. BusyNotOffered'
      BY DEF TypeOK, Control, BusyNotOffered
    <2>7. Numbered'
      BY <2>2, <2>3 DEF TypeOK, Control, Numbered, InFlight
    <2>8. RegistryExact'
      BY <2>2, <2>3 DEF TypeOK, Control, Numbered, InFlight, RegistryExact
    <2>9. OneReport'
      BY <2>2, <2>3 DEF TypeOK, Control, Numbered, InFlight, OneReport, Finished
    <2>10. SuccessIsReal'
      BY DEF TypeOK, Control, Numbered, OneReport, SuccessIsReal
    <2>11. ProgressIsOwn'
      BY DEF TypeOK, Numbered, ProgressIsOwn
    <2> QED
      BY <2>1, <2>4, <2>5, <2>6, <2>7, <2>8, <2>9, <2>10, <2>11
  <1>8. ASSUME Stop PROVE IInv'
    <2> USE <1>8 DEF Stop
    <2>1. TypeOK'
      BY DEF TypeOK
    <2>2. \A k \in Jobs : Queued(k)' <=> Queued(k)
      BY DEF Queued
    <2>3. \A k \in Jobs : Busy(k)' <=> Busy(k)
      BY DEF Busy
    <2>4. Control'
      BY DEF TypeOK, Control
    <2>5. JobHeldOnce'
      BY DEF JobHeldOnce, Queued, Busy
    <2>6. BusyNotOffered'
      BY DEF TypeOK, Control, BusyNotOffered
    <2>7. Numbered'
      BY <2>2, <2>3 DEF TypeOK, Control, Numbered, InFlight
    <2>8. RegistryExact'
      BY <2>2, <2>3 DEF TypeOK, Control, Numbered, InFlight, RegistryExact
    <2>9. OneReport'
      BY <2>2, <2>3 DEF TypeOK, Control, Numbered, InFlight, OneReport, Finished
    <2>10. SuccessIsReal'
      BY DEF TypeOK, Control, Numbered, OneReport, SuccessIsReal
    <2>11. ProgressIsOwn'
      BY DEF TypeOK, Numbered, ProgressIsOwn
    <2> QED
      BY <2>1, <2>4, <2>5, <2>6, <2>7, <2>8, <2>9, <2>10, <2>11
  <1>9. ASSUME NEW w \in Workers, Enlist(w) PROVE IInv'
    <2> USE <1>9 DEF Enlist
    <2>1. TypeOK'
      BY Send DEF TypeOK
    <2>2. \A k \in Jobs : Queued(k)' <=> Queued(k)
      BY DEF Queued
    <2>3. \A k \in Jobs : Busy(k)' <=> Busy(k)
      BY DEF Busy
    <2>4. Control'
      BY DEF TypeOK, Control
    <2>5. JobHeldOnce'
      BY DEF JobHeldOnce, Queued, Busy
    <2>6. BusyNotOffered'
      <3>1. /\ DOMAIN workerque = 1..Len(workerque) /\ Len(workerque) \in Nat
            /\ DOMAIN workerque' = 1..(Len(workerque) + 1)
            /\ \A n \in DOMAIN workerque : workerque'[n] = workerque[n]
            /\ workerque'[Len(workerque) + 1] = w
        BY Send DEF TypeOK
      <3>2. w # dworker /\ \A n \in DOMAIN workerque : workerque[n] # w
        <4>1. wpc[w] = "enlist" /\ w # NoWorker
          OBVIOUS
        <4> QED
          BY ONLY <4>1, BusyNotOffered DEF BusyNotOffered
      <3>3. \A m, n \in DOMAIN workerque' : workerque'[m] = workerque'[n] => m = n
        BY <3>1, <3>2 DEF BusyNotOffered
      <3>4. \A n \in DOMAIN workerque' :
               wpc'[workerque'[n]] \in {"select", "gone"} /\ workerque'[n] # dworker'
        BY <3>1, <3>2 DEF TypeOK, BusyNotOffered
      <3>5. dworker' # NoWorker => wpc'[dworker'] \in {"select", "gone"}
        BY <3>2 DEF TypeOK, BusyNotOffered
      <3> QED
        BY <3>3, <3>4, <3>5 DEF BusyNotOffered
    <2>7. Numbered'
      BY <2>2, <2>3 DEF TypeOK, Control, Numbered, InFlight
    <2>8. RegistryExact'
      BY <2>2, <2>3 DEF TypeOK, Control, Numbered, InFlight, RegistryExact
    <2>9. OneReport'
      <3>1. \A k \in Jobs : Finished(k)' <=> Finished(k)
        BY <2>2, <2>3 DEF Finished, InFlight
      <3>2. \A k \in Jobs : (\E v \in Workers : wjob'[v] = k /\ wpc'[v] = "report")
                           <=> (\E v \in Workers : wjob[v] = k /\ wpc[v] = "report")
        BY DEF TypeOK
      <3> QED
        BY <3>1, <3>2 DEF OneReport
    <2>10. SuccessIsReal'
      BY DEF TypeOK, Control, Numbered, OneReport, SuccessIsReal
    <2>11. ProgressIsOwn'
      BY DEF TypeOK, Numbered, ProgressIsOwn
    <2> QED
      BY <2>1, <2>4, <2>5, <2>6, <2>7, <2>8, <2>9, <2>10, <2>11
  <1>10. ASSUME NEW w \in Workers, Quit(w) PROVE IInv'
    <2> USE <1>10 DEF Quit
    <2>1. TypeOK'
      BY DEF TypeOK
    <2>2. \A k \in Jobs : Queued(k)' <=> Queued(k)
      BY DEF Queued
    <2>3. \A k \in Jobs : Busy(k)' <=> Busy(k)
      BY DEF Busy
    <2>4. Control'
      BY DEF TypeOK, Control
    <2>5. JobHeldOnce'
      BY DEF JobHeldOnce, Queued, Busy
    <2>6. BusyNotOffered'
      BY DEF TypeOK, Control, BusyNotOffered
    <2>7. Numbered'
      BY <2>2, <2>3 DEF TypeOK, Control, Numbered, InFlight
    <2>8. RegistryExact'
      BY <2>2, <2>3 DEF TypeOK, Control, Numbered, InFlight, RegistryExact
    <2>9. OneReport'
      BY <2>2, <2>3 DEF TypeOK, Control, Numbered, InFlight, OneReport, Finished
    <2>10. SuccessIsReal'
      BY DEF TypeOK, Control, Numbered, OneReport, SuccessIsReal
    <2>11. ProgressIsOwn'
      BY DEF TypeOK, Numbered, ProgressIsOwn
    <2> QED
      BY <2>1, <2>4, <2>5, <2>6, <2>7, <2>8, <2>9, <2>10, <2>11
  <1>11. ASSUME NEW w \in Workers, Succeed(w) PROVE IInv'
    <2> USE <1>11 DEF Succeed, Report
    <2>0. wjob[w] \in Jobs
      BY DEF TypeOK, Control
    <2>1. TypeOK'
      <3>1. reports' \in [Jobs -> Seq({"success", "failure"})]
        BY <2>0 DEF TypeOK
      <3> QED
        BY <3>1, <2>0 DEF TypeOK
    <2>2. \A k \in Jobs : Queued(k)' <=> Queued(k)
      BY DEF Queued
    <2>3. \A k \in Jobs : Busy(k)' <=> Busy(k)
      BY DEF Busy
    <2>4. Control'
      BY DEF TypeOK, Control
    <2>5. JobHeldOnce'
      BY DEF JobHeldOnce, Queued, Busy
    <2>6. BusyNotOffered'
      BY DEF TypeOK, Control, BusyNotOffered
    <2>7. Numbered'
      BY <2>0, <2>2, <2>3 DEF TypeOK, Control, Numbered, InFlight, Busy
    <2>8. RegistryExact'
      BY <2>2, <2>3 DEF TypeOK, Control, Numbered, InFlight, RegistryExact
    <2>9. OneReport'
      <3>1. \A k \in Jobs : Finished(k)' <=> Finished(k)
        BY <2>2, <2>3 DEF Finished, InFlight
      <3>2. Len(reports[wjob[w]]) = 0 /\ ~Finished(wjob[w])
        BY <2>0 DEF OneReport, JobHeldOnce, Finished, InFlight, Busy
      <3>3. Len(reports'[wjob[w]]) = 1
        BY <2>0, <3>2 DEF TypeOK
      <3> QED
        BY <2>0, <3>1, <3>3 DEF TypeOK, OneReport
    <2>10. SuccessIsReal'
      BY <2>0 DEF TypeOK, SuccessIsReal
    <2>11. ProgressIsOwn'
      BY DEF TypeOK, Numbered, ProgressIsOwn
    <2> QED
      BY <2>1, <2>4, <2>5, <2>6, <2>7, <2>8, <2>9, <2>10, <2>11
  <1>12. ASSUME NEW w \in Workers, Fail(w) PROVE IInv'
    <2> USE <1>12 DEF Fail, Report
    <2>0. wjob[w] \in Jobs
      BY DEF TypeOK, Control
    <2>1. TypeOK'
      <3>1. reports' \in [Jobs -> Seq({"success", "failure"})]
        BY <2>0 DEF TypeOK
      <3> QED
        BY <3>1, <2>0 DEF TypeOK
    <2>2. \A k \in Jobs : Queued(k)' <=> Queued(k)
      BY DEF Queued
    <2>3. \A k \in Jobs : Busy(k)' <=> Busy(k)
      BY DEF Busy
    <2>4. Control'
      BY DEF TypeOK, Control
    <2>5. JobHeldOnce'
      BY DEF JobHeldOnce, Queued, Busy
    <2>6. BusyNotOffered'
      BY DEF TypeOK, Control, BusyNotOffered
    <2>7. Numbered'
      BY <2>0, <2>2, <2>3 DEF TypeOK, Control, Numbered, InFlight, Busy
    <2>8. RegistryExact'
      BY <2>2, <2>3 DEF TypeOK, Control, Numbered, InFlight, RegistryExact
    <2>9. OneReport'
      <3>1. \A k \in Jobs : Finished(k)' <=> Finished(k)
        BY <2>2, <2>3 DEF Finished, InFlight
      <3>2. Len(reports[wjob[w]]) = 0 /\ ~Finished(wjob[w])
        BY <2>0 DEF OneReport, JobHeldOnce, Finished, InFlight, Busy
      <3>3. Len(reports'[wjob[w]]) = 1
        BY <2>0, <3>2 DEF TypeOK
      <3> QED
        BY <2>0, <3>1, <3>3 DEF TypeOK, OneReport
    <2>10. SuccessIsReal'
      <3>1. Len(reports[wjob[w]]) = 0
        BY <2>0 DEF OneReport, JobHeldOnce, Finished, InFlight, Busy
      <3>2. reports'[wjob[w]] = <<"failure">>
        BY <2>0, <3>1 DEF TypeOK
      <3>3. reports'[wjob[w]] # <<"success">>
        BY <3>2
      <3> QED
        BY <2>0, <3>3 DEF TypeOK, SuccessIsReal
    <2>11. ProgressIsOwn'
      BY DEF TypeOK, Numbered, ProgressIsOwn
    <2> QED
      BY <2>1, <2>4, <2>5, <2>6, <2>7, <2>8, <2>9, <2>10, <2>11
  <1>13. ASSUME NEW w \in Workers, Remove(w) PROVE IInv'
    <2> USE <1>13 DEF Remove
    <2>0. wjob[w] \in Jobs
      BY DEF TypeOK, Control
    <2>a. ~Queued(wjob[w]) /\ mutex # wjob[w] /\ djob # wjob[w] /\ InFlight(wjob[w])
      BY <2>0 DEF JobHeldOnce, Busy, InFlight
    <2>1. TypeOK'
      BY DEF TypeOK
    <2>2. \A k \in Jobs : Queued(k)' <=> Queued(k)
      BY DEF Queued
    <2>3. \A k \in Jobs : Busy(k)' <=> Busy(k) /\ k # wjob[w]
      BY <2>0 DEF TypeOK, JobHeldOnce, Busy
    <2>4. Control'
      BY DEF TypeOK, Control
    <2>5. JobHeldOnce'
      <3>1. \A w1, w2 \in Workers : wjob'[w1] = wjob'[w2] /\ wjob'[w1] # NoJob => w1 = w2
        BY DEF TypeOK, JobHeldOnce
      <3>2. djob' # NoJob => ~Queued(djob)' /\ ~Busy(djob)' /\ mutex' # djob'
        BY <2>2, <2>3 DEF TypeOK, JobHeldOnce
      <3>3. \A k \in Jobs : ~(Queued(k)' /\ Busy(k)')
        BY <2>2, <2>3 DEF JobHeldOnce
      <3>4. \A m, n \in DOMAIN jobque' : jobque'[m] = jobque'[n] => m = n
        BY DEF JobHeldOnce
      <3> QED
        BY <3>1, <3>2, <3>3, <3>4 DEF JobHeldOnce
    <2>6. BusyNotOffered'
      BY DEF TypeOK, Control, BusyNotOffered
    <2>7. Numbered'
      BY <2>0, <2>a, <2>2, <2>3 DEF TypeOK, Control, Numbered, InFlight
    <2>8. RegistryExact'
      <3> SUFFICES ASSUME HasNextID, NEW k \in Jobs, id[k] # 0
                   PROVE  jobs'[id[k]] = k <=> InFlight(k)'
        BY DEF RegistryExact
      <3>1. id[k] = HandlerID[k] /\ id[wjob[w]] = HandlerID[wjob[w]] /\ id[k] \in Ids
        BY <2>0, <2>a DEF TypeOK, Numbered
      <3>2. InFlight(k)' <=> InFlight(k) /\ k # wjob[w]
        BY <2>2, <2>3, <2>a DEF InFlight
      <3>3. CASE k = wjob[w]
        BY <3>1, <3>2, <3>3 DEF TypeOK
      <3>4. CASE k # wjob[w]
        <4>1. id[k] # id[wjob[w]]
          BY <3>1, <3>4, <2>0
        <4>2. jobs'[id[k]] = jobs[id[k]]
          BY <4>1, <3>1 DEF TypeOK
        <4> QED
          BY <4>2, <3>2, <3>4 DEF RegistryExact
      <3> QED
        BY <3>3, <3>4
    <2>9. OneReport'
      <3>1. \A k \in Jobs : Finished(k)' <=> Finished(k) \/ k = wjob[w]
        BY <2>0, <2>2, <2>3, <2>a DEF Finished, InFlight, Numbered
      <3>2. Len(reports[wjob[w]]) = 1
        BY <2>0 DEF OneReport
      <3>3. \A k \in Jobs : k # wjob[w] =>
                ((\E v \in Workers : wjob'[v] = k /\ wpc'[v] = "report")
                   <=> (\E v \in Workers : wjob[v] = k /\ wpc[v] = "report"))
        BY DEF TypeOK
      <3> QED
        BY <3>1, <3>2, <3>3 DEF OneReport
    <2>10. SuccessIsReal'
      BY DEF TypeOK, Control, Numbered, OneReport, SuccessIsReal
    <2>11. ProgressIsOwn'
      BY DEF TypeOK, Numbered, ProgressIsOwn
    <2> QED
      BY <2>1, <2>4, <2>5, <2>6, <2>7, <2>8, <2>9, <2>10, <2>11
  <1>14. ASSUME NEW j \in Jobs, ExecBegin(j) PROVE IInv'
    <2> USE <1>14 DEF ExecBegin
    <2>1. TypeOK'
      BY DEF TypeOK
    <2>2. \A k \in Jobs : Queued(k)' <=> Queued(k)
      BY DEF Queued
    <2>3. \A k \in Jobs : Busy(k)' <=> Busy(k)
      BY DEF Busy
    <2>4. Control'
      BY DEF TypeOK, Control
    <2>5. JobHeldOnce'
      BY DEF JobHeldOnce, Queued, Busy
    <2>6. BusyNotOffered'
      BY DEF TypeOK, Control, BusyNotOffered
    <2>7. Numbered'
      BY <2>2, <2>3 DEF TypeOK, Control, Numbered, InFlight
    <2>8. RegistryExact'
      BY <2>2, <2>3 DEF TypeOK, Control, Numbered, InFlight, RegistryExact
    <2>9. OneReport'
      BY <2>2, <2>3 DEF TypeOK, Control, Numbered, InFlight, OneReport, Finished
    <2>10. SuccessIsReal'
      BY DEF TypeOK, Control, Numbered, OneReport, SuccessIsReal
    <2>11. ProgressIsOwn'
      BY DEF TypeOK, Numbered, ProgressIsOwn
    <2> QED
      BY <2>1, <2>4, <2>5, <2>6, <2>7, <2>8, <2>9, <2>10, <2>11
  <1>15. ASSUME NEW j \in Jobs, ExecEnd(j) PROVE IInv'
    <2> USE <1>15 DEF ExecEnd
    <2>1. TypeOK'
      BY DEF TypeOK
    <2>2. \A k \in Jobs : Queued(k)' <=> Queued(k)
      BY DEF Queued
    <2>3. \A k \in Jobs : Busy(k)' <=> Busy(k)
      BY DEF Busy
    <2>4. Control'
      BY DEF TypeOK, Control
    <2>5. JobHeldOnce'
      BY DEF JobHeldOnce, Queued, Busy
    <2>6. BusyNotOffered'
      BY DEF TypeOK, Control, BusyNotOffered
    <2>7. Numbered'
      BY <2>2, <2>3 DEF TypeOK, Control, Numbered, InFlight
    <2>8. RegistryExact'
      BY <2>2, <2>3 DEF TypeOK, Control, Numbered, InFlight, RegistryExact
    <2>9. OneReport'
      BY <2>2, <2>3 DEF TypeOK, Control, Numbered, InFlight, OneReport, Finished
    <2>10. SuccessIsReal'
      BY DEF TypeOK, Control, Numbered, OneReport, SuccessIsReal
    <2>11. ProgressIsOwn'
      BY DEF TypeOK, Numbered, ProgressIsOwn
    <2> QED
      BY <2>1, <2>4, <2>5, <2>6, <2>7, <2>8, <2>9, <2>10, <2>11
  <1>16. ASSUME NEW j \in Jobs, Progress(j) PROVE IInv'
    <2> USE <1>16 DEF Progress
    <2>0. id[j] \in Ids /\ jobs[id[j]] \in Jobs
      BY DEF TypeOK, Numbered
    <2>a. ASSUME HasNextID PROVE jobs[id[j]] = j
      <3>1. id[jobs[id[j]]] = id[j]
        BY <2>a, <2>0 DEF Numbered
      <3>2. id[j] # 0
        BY <2>0
      <3>3. HandlerID[jobs[id[j]]] = HandlerID[j]
        BY <2>a, <2>0, <3>1, <3>2 DEF Numbered
      <3> QED
        BY <2>0, <3>3
    <2>1. TypeOK'
      BY <2>0 DEF TypeOK
    <2>2. \A k \in Jobs : Queued(k)' <=> Queued(k)
      BY DEF Queued
    <2>3. \A k \in Jobs : Busy(k)' <=> Busy(k)
      BY DEF Busy
    <2>4. Control'
      BY DEF TypeOK, Control
    <2>5. JobHeldOnce'
      BY DEF JobHeldOnce, Queued, Busy
    <2>6. BusyNotOffered'
      BY DEF TypeOK, Control, BusyNotOffered
    <2>7. Numbered'
      BY <2>2, <2>3 DEF TypeOK, Control, Numbered, InFlight
    <2>8. RegistryExact'
      BY <2>2, <2>3 DEF TypeOK, Control, Numbered, InFlight, RegistryExact
    <2>9. OneReport'
      BY <2>2, <2>3 DEF TypeOK, Control, Numbered, InFlight, OneReport, Finished
    <2>10. SuccessIsReal'
      BY DEF TypeOK, Control, Numbered, OneReport, SuccessIsReal
    <2>11. ProgressIsOwn'
      BY <2>a DEF ProgressIsOwn
    <2> QED
      BY <2>1, <2>4, <2>5, <2>6, <2>7, <2>8, <2>9, <2>10, <2>11
  <1>17. ASSUME NEW j \in Jobs, Expire(j) PROVE IInv'
    <2> USE <1>17 DEF Expire
    <2>1. TypeOK'
      BY DEF TypeOK
    <2>2. \A k \in Jobs : Queued(k)' <=> Queued(k)
      BY DEF Queued
    <2>3. \A k \in Jobs : Busy(k)' <=> Busy(k)
      BY DEF Busy
    <2>4. Control'
      BY DEF TypeOK, Control
    <2>5. JobHeldOnce'
      BY DEF JobHeldOnce, Queued, Busy
    <2>6. BusyNotOffered'
      BY DEF TypeOK, Control, BusyNotOffered
    <2>7. Numbered'
      BY <2>2, <2>3 DEF TypeOK, Control, Numbered, InFlight
    <2>8. RegistryExact'
      BY <2>2, <2>3 DEF TypeOK, Control, Numbered, InFlight, RegistryExact
    <2>9. OneReport'
      BY <2>2, <2>3 DEF TypeOK, Control, Numbered, InFlight, OneReport, Finished
    <2>10. SuccessIsReal'
      BY DEF TypeOK, Control, Numbered, OneReport, SuccessIsReal
    <2>11. ProgressIsOwn'
      BY DEF TypeOK, Numbered, ProgressIsOwn
    <2> QED
      BY <2>1, <2>4, <2>5, <2>6, <2>7, <2>8, <2>9, <2>10, <2>11
  <1>18. CASE UNCHANGED vars
    BY <1>18 DEF callVars, dispVars, workVars, execVars, vars, TypeOK, Control, Numbered, JobHeldOnce,
       BusyNotOffered, RegistryExact, OneReport, SuccessIsReal, ProgressIsOwn,
       InFlight, Finished, Queued, Busy
  <1> QED
    BY <1>1, <1>2, <1>3, <1>4, <1>5, <1>6, <1>7, <1>8, <1>9, <1>10, <1>11, <1>12, <1>13, <1>14, <1>15, <1>16, <1>17, <1>18
       DEF Next, Dispatch, Caller, Exec, Worker

-----------------------------------------------------------------------------
\* IInv is an inductive invariant of the pool.
THEOREM Invariance == Spec => []IInv
  <1>1. Init => IInv
    BY InitIInv
  <1>2. IInv /\ [Next]_vars => IInv'
    BY StepIInv
  <1> QED
    BY <1>1, <1>2, PTL DEF Spec

\* The variables keep their types (task/types.go:30-88).
THEOREM TypeCorrect == Spec => []TypeOK
  <1>1. IInv => TypeOK
    BY DEF IInv
  <1> QED
    BY <1>1, Invariance, PTL

\* With unique ids the registry is exactly the set of jobs in flight, for any
\* numbers of jobs, workers and queue places (task.go:106, 184-188).
THEOREM RegistryIsExact == Spec => []RegistryExact
  <1>1. IInv => RegistryExact
    BY DEF IInv
  <1> QED
    BY <1>1, Invariance, PTL

\* No job is ever queued twice, held by two workers, or queued while running,
\* and no busy worker is offered to the dispatcher (task.go:70-73, 166-173).
THEOREM Ownership == Spec => []JobInOnePlace
  <1>1. IInv => JobInOnePlace
    BY DEF IInv, JobInOnePlace
  <1> QED
    BY <1>1, Invariance, PTL

\* Each job is reported exactly once, at the end, and as a success only if
\* its handler succeeded (task.go:207-228, 259-279).
THEOREM Reporting == Spec => []ReportedOnce
  <1>1. IInv => ReportedOnce
    BY DEF IInv, ReportedOnce
  <1> QED
    BY <1>1, Invariance, PTL

\* With unique ids, progress never lands on another job (task.go:122-134).
THEOREM ProgressOwnership == Spec => []ProgressIsOwn
  <1>1. IInv => ProgressIsOwn
    BY DEF IInv
  <1> QED
    BY <1>1, Invariance, PTL

LEMMA StepFinished ==
  IInv /\ [Next]_vars => \A k \in Jobs : Finished(k) => Finished(k)'
  <1> SUFFICES ASSUME IInv, [Next]_vars, NEW k \in Jobs, Finished(k)
               PROVE  Finished(k)'
    OBVIOUS
  <1> USE PoolAssumption DEF callVars, dispVars, workVars, execVars
  <1>0. id[k] # 0 /\ ~InFlight(k) /\ TypeOK
    BY DEF Finished, IInv
  <1>1. ASSUME NEW j \in Jobs, AddRegister(j) PROVE Finished(k)'
    <2>1. k # j
      BY <1>0, <1>1 DEF IInv, Numbered, AddRegister
    <2> QED
      BY <2>1, <1>0, <1>1 DEF AddRegister, TypeOK, Finished, InFlight, Queued, Busy
  <1>2. ASSUME NEW j \in Jobs, AddSend(j) PROVE Finished(k)'
    <2>1. k # j /\ ~Queued(k)
      BY <1>0, <1>2 DEF AddSend, InFlight
    <2>2. /\ DOMAIN jobque = 1..Len(jobque) /\ Len(jobque) \in Nat
          /\ DOMAIN jobque' = 1..(Len(jobque) + 1)
          /\ \A n \in DOMAIN jobque : jobque'[n] = jobque[n]
          /\ jobque'[Len(jobque) + 1] = j
      BY <1>0, <1>2, Send DEF AddSend, TypeOK
    <2>3. ~Queued(k)'
      BY <2>1, <2>2 DEF Queued
    <2> QED
      BY <2>3, <1>0, <1>2 DEF AddSend, Finished, InFlight, Busy
  <1>3. ASSUME TakeJob PROVE Finished(k)'
    <2>1. /\ jobque[1] = djob' /\ 1 \in DOMAIN jobque
          /\ DOMAIN jobque = 1..Len(jobque) /\ Len(jobque) \in Nat \ {0}
          /\ DOMAIN jobque' = 1..(Len(jobque) - 1)
          /\ \A n \in DOMAIN jobque' : jobque'[n] = jobque[n + 1]
      BY <1>0, <1>3, Receive DEF TakeJob, TypeOK
    <2>2. ~Queued(k)' /\ djob' # k
      BY <2>1, <1>0 DEF Queued, InFlight
    <2> QED
      BY <2>2, <1>0, <1>3 DEF TakeJob, Finished, InFlight, Busy
  <1>4. CASE HandOver
    BY <1>0, <1>4 DEF HandOver, TypeOK, Finished, InFlight, Queued, Busy
  <1>5. ASSUME NEW w \in Workers, Remove(w) PROVE Finished(k)'
    BY <1>0, <1>5 DEF Remove, TypeOK, Finished, InFlight, Queued, Busy
  <1>6. CASE UNCHANGED <<mutex, id, jobque, djob, wjob>>
    BY <1>0, <1>6 DEF Finished, InFlight, Queued, Busy
  <1>7. StartTask \/ TakeWorker \/ StartReturns \/ Stop
          => UNCHANGED <<mutex, id, jobque, djob, wjob>>
    BY DEF StartTask, TakeWorker, StartReturns, Stop
  <1>8. ASSUME NEW w \in Workers, Enlist(w) \/ Quit(w) \/ Succeed(w) \/ Fail(w)
        PROVE  UNCHANGED <<mutex, id, jobque, djob, wjob>>
    BY <1>8 DEF Enlist, Quit, Succeed, Fail, Report
  <1>9. ASSUME NEW j \in Jobs, Exec(j)
        PROVE  UNCHANGED <<mutex, id, jobque, djob, wjob>>
    BY <1>9 DEF Exec, ExecBegin, ExecEnd, Progress, Expire
  <1>10. UNCHANGED vars => UNCHANGED <<mutex, id, jobque, djob, wjob>>
    BY DEF vars
  <1> QED
    BY <1>1, <1>2, <1>3, <1>4, <1>5, <1>6, <1>7, <1>8, <1>9, <1>10
       DEF Next, Dispatch, Caller, Worker

\* A job that is over stays over: no queue, worker or dispatcher sees it again.
THEOREM FinishedStays == Spec => FinishedForGood
  <1>1. IInv /\ [Next]_vars => [NoneReturns]_vars
    BY StepFinished DEF NoneReturns
  <1> QED
    BY <1>1, Invariance, PTL DEF Spec, FinishedForGood
=============================================================================
