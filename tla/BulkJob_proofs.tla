--------------------------- MODULE BulkJob_proofs ---------------------------
(* Proofs about BulkJob, for every set of devices and of proxies.           *)
EXTENDS BulkJob, FiniteSetTheorems, TLAPS

(* What a worker has left and is at are devices of its own proxy.           *)
OwnDevices ==
  \A k \in DOMAIN jobs, g \in Proxies :
    /\ \A m \in worker[k][g].todo : ProxyOf[m] = g
    /\ worker[k][g].phase \in {"device", "store"} =>
         /\ worker[k][g].mac \in Macs
         /\ ProxyOf[worker[k][g].mac] = g
         /\ worker[k][g].mac \notin worker[k][g].todo

-----------------------------------------------------------------------------
(* The bound on the jobs is a number.                                       *)
LEMMA BoundType == MaxJobs \in Nat
BY BulkAssumption, Zenon

(* Counting a device and listing its key keep a job a job.                  *)
LEMMA CountedType ==
  ASSUME NEW j \in Jobs, NEW m \in Macs, NEW o
  PROVE  /\ Counted(KeyListed(j, m, o), m, o) \in Jobs
         /\ Counted(KeyListed(j, m, o), m, o).active = j.active
         /\ Counted(KeyListed(j, m, o), m, o).cancel = j.cancel
         /\ Counted(KeyListed(j, m, o), m, o).total = j.total
         /\ Counted(KeyListed(j, m, o), m, o).result = j.result
<1> DEFINE l == KeyListed(j, m, o)
<1>1. /\ l \in Jobs /\ l.active = j.active /\ l.cancel = j.cancel /\ l.total = j.total
      /\ l.result = j.result
  BY DEF KeyListed, Jobs
<1>2. Counted(l, m, o) \in Jobs
  <2>1. l.done + 1 \in Nat /\ l.ok + 1 \in Nat /\ l.fail + 1 \in Nat
    BY <1>1 DEF Jobs
  <2>2. l.running \ {m} \in SUBSET Macs /\ l.failures \union {m} \in SUBSET Macs
    BY <1>1 DEF Jobs
  <2>3. CASE o \in Failing
    BY <1>1, <2>1, <2>2, <2>3 DEF Counted, Jobs
  <2>4. CASE o \notin Failing
    BY <1>1, <2>1, <2>2, <2>4 DEF Counted, Jobs
  <2>5. QED
    BY <2>3, <2>4
<1>3. /\ Counted(l, m, o).active = l.active /\ Counted(l, m, o).cancel = l.cancel
      /\ Counted(l, m, o).total = l.total /\ Counted(l, m, o).result = l.result
  BY <1>1 DEF Counted, Jobs
<1>4. QED
  BY <1>1, <1>2, <1>3

(* A worker that turns to its next device keeps the types.                  *)
LEMMA TakeNextType ==
  ASSUME TypeOK, NEW k \in DOMAIN jobs, NEW g \in Proxies, NEW j \in Jobs, TakeNext(k, g, j)
  PROVE  /\ jobs' \in [DOMAIN jobs -> Jobs]
         /\ worker' \in [DOMAIN jobs -> [Proxies -> Workers]]
<1>1. worker[k][g] \in Workers /\ worker[k] \in [Proxies -> Workers]
  BY DEF TypeOK
<1>2. CASE worker' = [worker EXCEPT ![k][g] = Over] /\ jobs' = [jobs EXCEPT ![k] = j]
  <2>1. Over \in Workers
    BY DEF Over, Workers
  <2>2. QED
    BY <1>2, <2>1 DEF TypeOK
<1>3. ASSUME NEW m \in worker[k][g].todo,
             worker' = [worker EXCEPT ![k][g] = Working(worker[k][g], m)],
             jobs' = [jobs EXCEPT ![k] = [j EXCEPT !.running = @ \union {m}]]
      PROVE  /\ jobs' \in [DOMAIN jobs -> Jobs]
             /\ worker' \in [DOMAIN jobs -> [Proxies -> Workers]]
  <2>1. m \in Macs
    BY <1>1 DEF Workers
  <2>2. Working(worker[k][g], m) \in Workers
    BY <1>1, <2>1 DEF Working, Workers
  <2>3. [j EXCEPT !.running = @ \union {m}] \in Jobs
    BY <2>1 DEF Jobs
  <2>4. QED
    BY <1>3, <2>2, <2>3 DEF TypeOK
<1>4. QED
  BY <1>2, <1>3 DEF TakeNext

(* A worker that turns to its next device takes one of its own.             *)
LEMMA TakeNextOwn ==
  ASSUME TypeOK, OwnDevices, NEW k \in DOMAIN jobs, NEW g \in Proxies, NEW j, TakeNext(k, g, j),
         DOMAIN jobs' = DOMAIN jobs
  PROVE  OwnDevices'
<1>1. worker[k][g] \in Workers /\ worker[k] \in [Proxies -> Workers]
  BY DEF TypeOK
<1>2. SUFFICES ASSUME NEW i \in DOMAIN jobs, NEW h \in Proxies
      PROVE  /\ \A m \in worker'[i][h].todo : ProxyOf[m] = h
             /\ worker'[i][h].phase \in {"device", "store"} =>
                  /\ worker'[i][h].mac \in Macs
                  /\ ProxyOf[worker'[i][h].mac] = h
                  /\ worker'[i][h].mac \notin worker'[i][h].todo
  BY DEF OwnDevices
<1>3. CASE i # k \/ h # g
  <2>1. worker'[i][h] = worker[i][h]
    BY <1>1, <1>3 DEF TakeNext, TypeOK
  <2>2. QED
    BY <2>1 DEF OwnDevices
<1>4. CASE i = k /\ h = g
  <2>1. CASE worker' = [worker EXCEPT ![k][g] = Over]
    <3>1. worker'[i][h] = Over
      BY <1>1, <1>4, <2>1 DEF TypeOK
    <3>2. QED
      BY <3>1 DEF Over
  <2>2. ASSUME NEW m \in worker[k][g].todo, worker' = [worker EXCEPT ![k][g] = Working(worker[k][g], m)]
        PROVE  /\ \A n \in worker'[i][h].todo : ProxyOf[n] = h
               /\ worker'[i][h].phase \in {"device", "store"} =>
                    /\ worker'[i][h].mac \in Macs
                    /\ ProxyOf[worker'[i][h].mac] = h
                    /\ worker'[i][h].mac \notin worker'[i][h].todo
    <3>1. worker'[i][h] = Working(worker[k][g], m)
      BY <1>1, <1>4, <2>2 DEF TypeOK
    <3>2. m \in Macs /\ ProxyOf[m] = g
      BY <1>1 DEF Workers, OwnDevices
    <3>3. \A n \in worker[k][g].todo : ProxyOf[n] = g
      BY DEF OwnDevices
    <3>4. QED
      BY <1>4, <3>1, <3>2, <3>3 DEF Working
  <2>3. QED
    BY <2>1, <2>2 DEF TakeNext
<1>5. QED
  BY <1>3, <1>4

(* A new job and its workers have their types.                              *)
LEMMA NewJobType ==
  ASSUME NEW devs \in SUBSET Macs, NEW action \in Actions
  PROVE  /\ NewJob(devs, action) \in Jobs
         /\ [g \in Proxies |-> GroupWorker(devs, g)] \in [Proxies -> Workers]
<1>1. IsFiniteSet(devs) /\ Cardinality(devs) \in Nat
  BY FS_Subset, FS_CardinalityType, BulkAssumption
<1>2. NewJob(devs, action) \in Jobs
  BY <1>1 DEF NewJob, Jobs
<1>3. \A g \in Proxies : GroupWorker(devs, g) \in Workers
  BY DEF GroupWorker, Workers
<1>4. QED
  BY <1>2, <1>3

(* No job yet: nothing to be ill typed. *)
LEMMA TypeInit == Init => TypeOK /\ OwnDevices
<1> SUFFICES ASSUME Init PROVE TypeOK /\ OwnDevices
  OBVIOUS
<1>1. DOMAIN jobs = {} /\ current = 0
  BY DEF Init
<1>0. current \in 0..MaxJobs
  BY <1>1, BoundType
<1>2. QED
  BY <1>0, <1>1 DEF Init, TypeOK, OwnDevices

(* A step of the job, or a command, keeps all types. *)
LEMMA TypeStep == TypeOK /\ OwnDevices /\ [Next]_serverVars => TypeOK' /\ OwnDevices'
<1> SUFFICES ASSUME TypeOK, OwnDevices, [Next]_serverVars PROVE TypeOK' /\ OwnDevices'
  OBVIOUS
<1>1. ASSUME NEW devs \in SUBSET Macs, NEW action \in Actions, Start(devs, action)
      PROVE  TypeOK' /\ OwnDevices'
  <2> DEFINE w == [g \in Proxies |-> GroupWorker(devs, g)]
  <2>0. current \in Nat /\ current < MaxJobs /\ current' = current + 1
    BY <1>1, BoundType DEF Start, TypeOK
  <2>1. /\ current' = current + 1 /\ current' \in 1..MaxJobs /\ current \in Nat
        /\ jobs' = Replaced(jobs, current', NewJob(devs, action))
        /\ worker' = Replaced(worker, current', w)
        /\ outcome' = Replaced(outcome, current', [m \in Macs |-> Nothing])
    BY <1>1, <2>0, BoundType DEF Start
  <2>2. Left \subseteq DOMAIN jobs /\ Left \subseteq 1..current
    BY DEF Left, TypeOK
  <2>3. /\ DOMAIN jobs' = Left \union {current'} /\ DOMAIN worker' = DOMAIN jobs'
        /\ DOMAIN outcome' = DOMAIN jobs'
    BY <2>1 DEF Replaced
  <2>4. DOMAIN jobs' \subseteq 1..current' /\ current' \in DOMAIN jobs'
    BY <2>1, <2>2, <2>3
  <2>5. /\ jobs'[current'] = NewJob(devs, action) /\ worker'[current'] = w
        /\ outcome'[current'] = [m \in Macs |-> Nothing]
        /\ \A i \in Left : /\ jobs'[i] = jobs[i] /\ worker'[i] = worker[i]
                           /\ outcome'[i] = outcome[i]
    <3>1. \A i \in Left : i # current'
      BY <2>1, <2>2
    <3>2. QED
      BY <2>1, <3>1 DEF Replaced
  <2>6. jobs' \in [DOMAIN jobs' -> Jobs]
    <3>1. \A i \in DOMAIN jobs' : jobs'[i] \in Jobs
      BY <2>2, <2>3, <2>5, NewJobType DEF TypeOK
    <3>2. jobs' = [i \in DOMAIN jobs' |-> jobs'[i]]
      BY <2>1, <2>3 DEF Replaced
    <3>3. QED
      BY <3>1, <3>2
  <2>7. worker' \in [DOMAIN jobs' -> [Proxies -> Workers]]
    <3>1. \A i \in DOMAIN jobs' : worker'[i] \in [Proxies -> Workers]
      BY <2>2, <2>3, <2>5, NewJobType DEF TypeOK
    <3>2. worker' = [i \in DOMAIN jobs' |-> worker'[i]]
      BY <2>1, <2>3 DEF Replaced
    <3>3. QED
      BY <3>1, <3>2
  <2>8. outcome' \in [DOMAIN jobs' -> [Macs -> AnyOutcome \union {Nothing}]]
    <3>1. \A i \in DOMAIN jobs' : outcome'[i] \in [Macs -> AnyOutcome \union {Nothing}]
      BY <2>2, <2>3, <2>5 DEF TypeOK
    <3>2. outcome' = [i \in DOMAIN jobs' |-> outcome'[i]]
      BY <2>1, <2>3 DEF Replaced
    <3>3. QED
      BY <3>1, <3>2
  <2>9. \A i \in DOMAIN jobs', g \in Proxies :
          /\ \A m \in worker'[i][g].todo : ProxyOf[m] = g
          /\ worker'[i][g].phase \in {"device", "store"} =>
               /\ worker'[i][g].mac \in Macs
               /\ ProxyOf[worker'[i][g].mac] = g
               /\ worker'[i][g].mac \notin worker'[i][g].todo
    <3>1. \A g \in Proxies : w[g] = GroupWorker(devs, g)
      OBVIOUS
    <3>2. QED
      BY <2>2, <2>3, <2>5, <3>1 DEF OwnDevices, GroupWorker
  <2>10. QED
    BY <2>1, <2>4, <2>6, <2>7, <2>8, <2>9 DEF TypeOK, OwnDevices
<1>2. ASSUME Cancel \/ Dismiss PROVE TypeOK' /\ OwnDevices'
  <2>1. jobs' \in [DOMAIN jobs -> Jobs]
    <3>1. \A j \in Jobs : /\ [j EXCEPT !.cancel = TRUE] \in Jobs
                          /\ [j EXCEPT !.result = Nothing] \in Jobs
      BY DEF Jobs
    <3>2. current # 0 => jobs[current] \in Jobs
      BY DEF TypeOK
    <3>3. QED
      BY <1>2, <3>1, <3>2 DEF Cancel, Dismiss, Busy, TypeOK
  <2>2. DOMAIN jobs' = DOMAIN jobs
    BY <2>1
  <2>3. UNCHANGED <<current, worker, outcome>>
    BY <1>2 DEF Cancel, Dismiss
  <2>4. QED
    BY <2>1, <2>2, <2>3 DEF TypeOK, OwnDevices
<1>3. ASSUME NEW k \in DOMAIN jobs, NEW g \in Proxies, Begin(k, g) PROVE TypeOK' /\ OwnDevices'
  <2>1. jobs[k] \in Jobs /\ TakeNext(k, g, jobs[k]) /\ UNCHANGED <<current, outcome>>
    BY <1>3 DEF Begin, TypeOK
  <2>2. QED
    BY <2>1, TakeNextType, TakeNextOwn DEF TypeOK
<1>4. ASSUME NEW k \in DOMAIN jobs, NEW g \in Proxies, Answered(k, g) PROVE TypeOK' /\ OwnDevices'
  <2> DEFINE m == worker[k][g].mac
  <2>1. worker[k][g].phase = "device" /\ UNCHANGED current
    BY <1>4 DEF Answered
  <2>2. m \in Macs /\ jobs[k] \in Jobs /\ worker[k][g] \in Workers
    BY <2>1 DEF OwnDevices, TypeOK
  <2>3. PICK o \in Outcomes(jobs[k].action) :
          /\ outcome' = [outcome EXCEPT ![k][m] = o]
          /\ \/ /\ o \in Saved
                /\ worker' = [worker EXCEPT ![k][g].phase = "store"]
                /\ UNCHANGED jobs
             \/ /\ o \notin Saved
                /\ TakeNext(k, g, Counted(KeyListed(jobs[k], m, o), m, o))
    BY <1>4 DEF Answered
  <2>4. o \in AnyOutcome
    <3>1. jobs[k].action \in {"read", "enable", "disable"}
      BY <2>2, BulkAssumption DEF Jobs
    <3>2. QED
      BY <2>3, <3>1 DEF Outcomes, AnyOutcome
  <2>5. outcome' \in [DOMAIN jobs -> [Macs -> AnyOutcome \union {Nothing}]]
    BY <2>3, <2>4 DEF TypeOK
  <2>6. CASE worker' = [worker EXCEPT ![k][g].phase = "store"] /\ UNCHANGED jobs
    <3>1. [worker[k][g] EXCEPT !.phase = "store"] \in Workers
      BY <2>2 DEF Workers
    <3>2. worker' \in [DOMAIN jobs -> [Proxies -> Workers]]
      BY <2>6, <3>1 DEF TypeOK
    <3>3. \A i \in DOMAIN jobs, h \in Proxies :
            /\ worker'[i][h].todo = worker[i][h].todo
            /\ worker'[i][h].mac = worker[i][h].mac
            /\ worker'[i][h].phase \in {"device", "store"} => worker[i][h].phase \in {"device", "store"}
      <4> SUFFICES ASSUME NEW i \in DOMAIN jobs, NEW h \in Proxies
                   PROVE  <3>3!(i, h)
        OBVIOUS
      <4>1. CASE i = k /\ h = g
        <5>1. worker'[i][h] = [worker[k][g] EXCEPT !.phase = "store"]
          BY <2>6, <4>1 DEF TypeOK
        <5>2. QED
          BY <2>1, <2>2, <4>1, <5>1 DEF Workers
      <4>2. CASE i # k \/ h # g
        <5>1. worker'[i][h] = worker[i][h]
          BY <2>6, <4>2 DEF TypeOK
        <5>2. QED
          BY <5>1
      <4>3. QED
        BY <4>1, <4>2
    <3>4. OwnDevices'
      BY <2>6, <3>3 DEF OwnDevices
    <3>5. QED
      BY <2>1, <2>5, <2>6, <3>2, <3>4 DEF TypeOK
  <2>7. CASE TakeNext(k, g, Counted(KeyListed(jobs[k], m, o), m, o))
    <3>1. Counted(KeyListed(jobs[k], m, o), m, o) \in Jobs
      BY <2>2, CountedType
    <3>2. QED
      BY <2>1, <2>5, <2>7, <3>1, TakeNextType, TakeNextOwn DEF TypeOK
  <2>8. QED
    BY <2>3, <2>6, <2>7
<1>5. ASSUME NEW k \in DOMAIN jobs, NEW g \in Proxies, Remembered(k, g) PROVE TypeOK' /\ OwnDevices'
  <2> DEFINE m == worker[k][g].mac
             o == outcome[k][m]
  <2>1. worker[k][g].phase = "store" /\ UNCHANGED <<current, outcome>>
    BY <1>5 DEF Remembered
  <2>2. m \in Macs /\ jobs[k] \in Jobs
    BY <2>1 DEF OwnDevices, TypeOK
  <2>3. PICK saved \in SUBSET {m} :
          LET j == [jobs[k] EXCEPT !.backups = @ \union saved]
          IN TakeNext(k, g, Counted(KeyListed(j, m, o), m, o))
    BY <1>5 DEF Remembered
  <2> DEFINE j == [jobs[k] EXCEPT !.backups = @ \union saved]
  <2>4. j \in Jobs
    BY <2>2 DEF Jobs
  <2>5. Counted(KeyListed(j, m, o), m, o) \in Jobs
    BY <2>2, <2>4, CountedType
  <2>6. QED
    BY <2>1, <2>3, <2>5, TakeNextType, TakeNextOwn DEF TypeOK
<1>6. ASSUME NEW k \in DOMAIN jobs, Conclude(k) PROVE TypeOK' /\ OwnDevices'
  <2> DEFINE j == jobs[k]
             r == [total |-> j.total, ok |-> j.ok, fail |-> j.fail, failures |-> j.failures,
                   cancelled |-> j.cancel, manual |-> j.manual]
  <2>1. j \in Jobs /\ UNCHANGED <<current, worker, outcome>>
    BY <1>6 DEF Conclude, TypeOK
  <2>2. r \in Results
    BY <2>1 DEF Jobs, Results
  <2>3. [j EXCEPT !.active = FALSE, !.result = r] \in Jobs
    BY <2>1, <2>2 DEF Jobs
  <2>4. jobs' = [jobs EXCEPT ![k] = [j EXCEPT !.active = FALSE, !.result = r]]
    BY <1>6 DEF Conclude, TypeOK
  <2>5. jobs' \in [DOMAIN jobs -> Jobs]
    BY <2>3, <2>4 DEF TypeOK
  <2>6. QED
    BY <2>1, <2>5 DEF TypeOK, OwnDevices
<1>7. CASE UNCHANGED serverVars
  BY <1>7 DEF serverVars, TypeOK, OwnDevices
<1>8. QED
  BY <1>1, <1>2, <1>3, <1>4, <1>5, <1>6, <1>7
     DEF Next, Command, JobStep, WorkerStep, StartRefused

(* Every variable keeps its type, and a worker to the devices of its proxy. *)
THEOREM TypeCorrect == Spec => [](TypeOK /\ OwnDevices)
BY TypeInit, TypeStep, PTL DEF Spec

-----------------------------------------------------------------------------
(* Only the newest job is active, and the workers of one that is not active *)
(* are over: more than OneJob, which says nothing of workers yet to begin.  *)
OnlyNewest ==
  \A k \in DOMAIN jobs :
    /\ jobs[k].active => k = current
    /\ ~jobs[k].active => \A g \in Proxies : worker[k][g].phase = "over"

(* What a worker that turns to its next device leaves alone: every field but *)
(* `running`, the other workers and the other jobs.                         *)
Unmoved == {"active", "total", "done", "ok", "fail", "cancel", "failures", "manual", "result"}

LEMMA TakeNextFrame ==
  ASSUME TypeOK, NEW k \in DOMAIN jobs, NEW g \in Proxies, NEW j \in Jobs, TakeNext(k, g, j)
  PROVE  /\ DOMAIN jobs' = DOMAIN jobs
         /\ \A f \in Unmoved : jobs'[k][f] = j[f]
         /\ \A h \in Proxies : h # g => worker'[k][h] = worker[k][h]
         /\ \A i \in DOMAIN jobs : i # k => jobs'[i] = jobs[i] /\ worker'[i] = worker[i]
<1>1. CASE worker' = [worker EXCEPT ![k][g] = Over] /\ jobs' = [jobs EXCEPT ![k] = j]
  BY <1>1 DEF TypeOK, Unmoved
<1>2. ASSUME NEW m \in worker[k][g].todo,
             worker' = [worker EXCEPT ![k][g] = Working(worker[k][g], m)],
             jobs' = [jobs EXCEPT ![k] = [j EXCEPT !.running = @ \union {m}]]
      PROVE  /\ DOMAIN jobs' = DOMAIN jobs
             /\ \A f \in Unmoved : jobs'[k][f] = j[f]
             /\ \A h \in Proxies : h # g => worker'[k][h] = worker[k][h]
             /\ \A i \in DOMAIN jobs : i # k => jobs'[i] = jobs[i] /\ worker'[i] = worker[i]
  <2>1. jobs'[k] = [j EXCEPT !.running = @ \union {m}]
    BY <1>2 DEF TypeOK
  <2>2. \A f \in Unmoved : jobs'[k][f] = j[f]
    BY <2>1 DEF Jobs, Unmoved
  <2>3. QED
    BY <1>2, <2>2 DEF TypeOK
<1>3. QED
  BY <1>1, <1>2 DEF TakeNext

(* A worker that was not over keeps OnlyNewest when it goes on.             *)
LEMMA TakeNextNewest ==
  ASSUME TypeOK, OnlyNewest, NEW k \in DOMAIN jobs, NEW g \in Proxies, NEW j \in Jobs,
         TakeNext(k, g, j), j.active = jobs[k].active, worker[k][g].phase # "over",
         UNCHANGED current
  PROVE  OnlyNewest'
<1>1. jobs[k].active /\ k = current
  BY DEF OnlyNewest
<1>2. jobs'[k].active /\ DOMAIN jobs' = DOMAIN jobs
  BY <1>1, TakeNextFrame DEF Unmoved
<1>3. \A i \in DOMAIN jobs : i # k => jobs'[i] = jobs[i] /\ worker'[i] = worker[i]
  BY TakeNextFrame
<1>4. QED
  BY <1>1, <1>2, <1>3 DEF OnlyNewest

(* The step of a worker: it begins, has its device's answer saved, or counts *)
(* its device as what it came to.                                           *)
LEMMA WorkerStepIs ==
  ASSUME TypeOK, OwnDevices, NEW k \in DOMAIN jobs, NEW g \in Proxies, WorkerStep(k, g)
  PROVE  LET m == worker[k][g].mac
         IN \/ /\ worker[k][g].phase = "new" /\ TakeNext(k, g, jobs[k])
               /\ UNCHANGED outcome
            \/ /\ worker[k][g].phase = "device" /\ UNCHANGED jobs
               /\ m \in Macs
               /\ worker' = [worker EXCEPT ![k][g].phase = "store"]
               /\ \E o \in AnyOutcome : outcome' = [outcome EXCEPT ![k][m] = o]
            \/ /\ worker[k][g].phase \in {"device", "store"}
               /\ m \in Macs
               /\ \E j \in Jobs, o \in AnyOutcome \union {Nothing} :
                    /\ \A f \in {"active", "total", "done", "ok", "fail", "running", "cancel",
                                 "failures", "manual", "result"} : j[f] = jobs[k][f]
                    /\ TakeNext(k, g, Counted(KeyListed(j, m, o), m, o))
                    /\ \/ outcome' = [outcome EXCEPT ![k][m] = o] /\ o \in AnyOutcome
                       \/ /\ UNCHANGED outcome /\ o = outcome[k][m]
                          /\ worker[k][g].phase = "store"
<1> DEFINE m == worker[k][g].mac
<1>0. jobs[k] \in Jobs /\ outcome[k] \in [Macs -> AnyOutcome \union {Nothing}]
  BY DEF TypeOK
<1>1. CASE Begin(k, g)
  BY <1>1 DEF Begin
<1>2. CASE Answered(k, g)
  <2>1. worker[k][g].phase = "device" /\ m \in Macs
    BY <1>2 DEF Answered, OwnDevices
  <2>2. jobs[k].action \in {"read", "enable", "disable"}
    BY <1>0, BulkAssumption DEF Jobs
  <2>3. Outcomes(jobs[k].action) \subseteq AnyOutcome
    BY <2>2 DEF Outcomes, AnyOutcome
  <2>4. PICK o \in Outcomes(jobs[k].action) :
          /\ outcome' = [outcome EXCEPT ![k][m] = o]
          /\ \/ UNCHANGED jobs /\ worker' = [worker EXCEPT ![k][g].phase = "store"]
             \/ TakeNext(k, g, Counted(KeyListed(jobs[k], m, o), m, o))
    BY <1>2 DEF Answered
  <2>5. QED
    BY <1>0, <2>1, <2>3, <2>4
<1>3. CASE Remembered(k, g)
  <2> DEFINE o == outcome[k][m]
  <2>1. worker[k][g].phase = "store" /\ m \in Macs
    BY <1>3 DEF Remembered, OwnDevices
  <2>2. PICK saved \in SUBSET {m} :
          LET j == [jobs[k] EXCEPT !.backups = @ \union saved]
          IN TakeNext(k, g, Counted(KeyListed(j, m, o), m, o))
    BY <1>3 DEF Remembered
  <2> DEFINE j == [jobs[k] EXCEPT !.backups = @ \union saved]
  <2>3. /\ j \in Jobs
        /\ \A f \in {"active", "total", "done", "ok", "fail", "running", "cancel",
                     "failures", "manual", "result"} : j[f] = jobs[k][f]
    BY <1>0, <2>1 DEF Jobs
  <2>4. o \in AnyOutcome \union {Nothing} /\ UNCHANGED outcome
    BY <1>0, <1>3, <2>1 DEF Remembered
  <2>5. QED
    BY <2>1, <2>2, <2>3, <2>4
<1>4. QED
  BY <1>1, <1>2, <1>3 DEF WorkerStep

(* When a job starts, no worker of an older one is under way.                *)
LEMMA NoneLeft ==
  ASSUME TypeOK, OnlyNewest, ~Busy
  PROVE  Left = {}
<1>1. ASSUME NEW k \in DOMAIN jobs PROVE UnderWay(k) = {}
  <2>1. ~jobs[k].active
    BY DEF Busy, OnlyNewest, TypeOK
  <2>2. \A g \in Proxies : worker[k][g].phase = "over"
    BY <2>1 DEF OnlyNewest
  <2> QED
    BY <2>2 DEF UnderWay, AtDevice
<1> QED
  BY <1>1 DEF Left

(* Only the newest job is active, and the workers of the others are over.    *)
LEMMA NewestCorrect == Spec => []OnlyNewest
<1>1. Init => OnlyNewest
  <2> SUFFICES ASSUME Init PROVE OnlyNewest
    OBVIOUS
  <2>1. DOMAIN jobs = {}
    BY DEF Init
  <2>2. QED
    BY <2>1 DEF OnlyNewest
<1>2. TypeOK /\ OwnDevices /\ OnlyNewest /\ [Next]_serverVars => OnlyNewest'
  <2> SUFFICES ASSUME TypeOK, OwnDevices, OnlyNewest, [Next]_serverVars PROVE OnlyNewest'
    OBVIOUS
  <2>1. ASSUME NEW devs \in SUBSET Macs, NEW action \in Actions, Start(devs, action)
        PROVE  OnlyNewest'
    <3>1. Left = {}
      BY <2>1, NoneLeft DEF Start
    <3>2. jobs' = [i \in {current'} |-> NewJob(devs, action)]
      BY <2>1, <3>1 DEF Start, Replaced
    <3>3. DOMAIN jobs' = {current'} /\ jobs'[current'].active
      BY <3>2 DEF NewJob
    <3>4. QED
      BY <3>3 DEF OnlyNewest
  <2>2. ASSUME Cancel \/ Dismiss PROVE OnlyNewest'
    <3>1. /\ DOMAIN jobs' = DOMAIN jobs
          /\ \A k \in DOMAIN jobs : jobs'[k].active = jobs[k].active
      <4>1. \A j \in Jobs : /\ [j EXCEPT !.cancel = TRUE].active = j.active
                            /\ [j EXCEPT !.result = Nothing].active = j.active
        BY DEF Jobs
      <4>2. current # 0 => current \in DOMAIN jobs /\ jobs[current] \in Jobs
        BY DEF TypeOK
      <4>3. \/ UNCHANGED jobs
            \/ current # 0 /\ jobs' = [jobs EXCEPT ![current] = [jobs[current] EXCEPT !.cancel = TRUE]]
            \/ current # 0 /\ jobs' = [jobs EXCEPT ![current] = [jobs[current] EXCEPT !.result = Nothing]]
        BY <2>2 DEF Cancel, Dismiss, Busy
      <4>4. QED
        BY <4>1, <4>2, <4>3
    <3>2. QED
      BY <2>2, <3>1 DEF Cancel, Dismiss, OnlyNewest
  <2>3. ASSUME NEW k \in DOMAIN jobs, NEW g \in Proxies, WorkerStep(k, g) PROVE OnlyNewest'
    <3> DEFINE m == worker[k][g].mac
    <3>0. UNCHANGED current /\ jobs[k] \in Jobs
      BY <2>3 DEF WorkerStep, Begin, Answered, Remembered, TypeOK
    <3>1. CASE worker[k][g].phase = "new" /\ TakeNext(k, g, jobs[k])
      BY <3>0, <3>1, TakeNextNewest
    <3>2. CASE worker[k][g].phase = "device" /\ UNCHANGED jobs
               /\ worker' = [worker EXCEPT ![k][g].phase = "store"]
      <4>1. jobs[k].active
        BY <3>2 DEF OnlyNewest
      <4>2. \A i \in DOMAIN jobs : i # k => worker'[i] = worker[i]
        BY <3>2 DEF TypeOK
      <4>3. QED
        BY <3>0, <3>2, <4>1, <4>2 DEF OnlyNewest
    <3>3. ASSUME worker[k][g].phase \in {"device", "store"}, m \in Macs,
                 NEW j \in Jobs, NEW o,
                 j.active = jobs[k].active, TakeNext(k, g, Counted(KeyListed(j, m, o), m, o))
          PROVE  OnlyNewest'
      <4>1. /\ Counted(KeyListed(j, m, o), m, o) \in Jobs
            /\ Counted(KeyListed(j, m, o), m, o).active = jobs[k].active
        BY <3>3, CountedType
      <4>2. QED
        BY <3>0, <3>3, <4>1, TakeNextNewest
    <3>4. QED
      BY <2>3, <3>1, <3>2, <3>3, WorkerStepIs
  <2>4. ASSUME NEW k \in DOMAIN jobs, Conclude(k) PROVE OnlyNewest'
    <3>1. /\ DOMAIN jobs' = DOMAIN jobs /\ UNCHANGED <<current, worker>>
          /\ \A i \in DOMAIN jobs : i # k => jobs'[i] = jobs[i]
          /\ jobs[k].active /\ \A g \in Proxies : worker[k][g].phase = "over"
      BY <2>4 DEF Conclude, AllOver, TypeOK
    <3>2. QED
      BY <3>1 DEF OnlyNewest
  <2>5. CASE UNCHANGED serverVars
    BY <2>5 DEF serverVars, OnlyNewest
  <2>6. QED
    BY <2>1, <2>2, <2>3, <2>4, <2>5 DEF Next, Command, JobStep, StartRefused
<1>3. QED
  BY <1>1, <1>2, TypeCorrect, PTL DEF Spec

(* Only the newest job is at work; one that is declared over has no worker   *)
(* left at a device (bulk.start, bulk._run).                                 *)
THEOREM OneJobCorrect == Spec => []OneJob
<1>1. OnlyNewest => OneJob
  BY DEF OnlyNewest, OneJob, UnderWay, AtDevice
<1> QED
  BY <1>1, NewestCorrect, PTL

-----------------------------------------------------------------------------
(* The devices a worker is at, those it has still to do, and both.           *)
At(k, m) == /\ worker[k][ProxyOf[m]].phase \in {"device", "store"}
            /\ worker[k][ProxyOf[m]].mac = m
ToDo(k, m) == m \in worker[k][ProxyOf[m]].todo
Open(k) == {m \in Macs : At(k, m) \/ ToDo(k, m)}

(* What is done and what is open are no more than the total: CountsAddUp is  *)
(* not inductive, since taking the next device adds one to `running`.        *)
CountsOpen ==
  \A k \in DOMAIN jobs :
    /\ jobs[k].done = jobs[k].ok + jobs[k].fail
    /\ jobs[k].running = {m \in Macs : At(k, m)}
    /\ jobs[k].done + Cardinality(Open(k)) <= jobs[k].total

(* The devices are finitely many, and so is every set of them.               *)
LEMMA MacsFinite ==
  /\ ProxyOf \in [Macs -> Proxies]
  /\ \A S \in SUBSET Macs : IsFiniteSet(S) /\ Cardinality(S) \in Nat
  /\ \A S \in SUBSET Macs : \A R \in SUBSET S : Cardinality(R) <= Cardinality(S)
<1>1. IsFiniteSet(Macs) /\ ProxyOf \in [Macs -> Proxies]
  BY BulkAssumption, Zenon
<1>2. \A S \in SUBSET Macs : IsFiniteSet(S)
  BY <1>1, FS_Subset
<1>3. QED
  BY <1>1, <1>2, FS_Subset, FS_CardinalityType

(* The devices the workers are at, one by one.                               *)
LEMMA UnderWayIs ==
  ASSUME OwnDevices, NEW k \in DOMAIN jobs
  PROVE  UnderWay(k) = {m \in Macs : At(k, m)}
BY MacsFinite DEF UnderWay, AtDevice, OwnDevices, At

(* A worker that takes its next device, or ends, where the job's `running`   *)
(* is what the others are at.                                                *)
LEMMA TakeNextOpen ==
  ASSUME TypeOK, OwnDevices, NEW k \in DOMAIN jobs, NEW g \in Proxies, NEW j \in Jobs,
         TakeNext(k, g, j), j.running = {m \in Macs : At(k, m) /\ ProxyOf[m] # g}
  PROVE  /\ jobs'[k].running = {m \in Macs : At(k, m)'}
         /\ \A m \in Open(k)' : m \in Open(k) /\ (ProxyOf[m] = g => ToDo(k, m))
<1>0. worker[k] \in [Proxies -> Workers]
  BY DEF TypeOK
<1>1. \A m \in Macs : ProxyOf[m] # g => (At(k, m)' <=> At(k, m)) /\ (ToDo(k, m)' <=> ToDo(k, m))
  BY MacsFinite, TakeNextFrame DEF At, ToDo
<1>2. CASE worker' = [worker EXCEPT ![k][g] = Over] /\ jobs' = [jobs EXCEPT ![k] = j]
  <2>1. worker'[k][g] = Over /\ jobs'[k] = j
    BY <1>0, <1>2 DEF TypeOK
  <2>2. \A m \in Macs : ProxyOf[m] = g => ~At(k, m)' /\ ~ToDo(k, m)'
    BY <2>1 DEF Over, At, ToDo
  <2>3. QED
    BY <1>1, <2>1, <2>2 DEF Open
<1>3. ASSUME NEW n \in worker[k][g].todo,
             worker' = [worker EXCEPT ![k][g] = Working(worker[k][g], n)],
             jobs' = [jobs EXCEPT ![k] = [j EXCEPT !.running = @ \union {n}]]
      PROVE  /\ jobs'[k].running = {m \in Macs : At(k, m)'}
             /\ \A m \in Open(k)' : m \in Open(k) /\ (ProxyOf[m] = g => ToDo(k, m))
  <2>1. worker'[k][g] = Working(worker[k][g], n)
    BY <1>0, <1>3 DEF TypeOK
  <2>2. jobs'[k].running = j.running \union {n}
    <3>1. jobs'[k] = [j EXCEPT !.running = @ \union {n}]
      BY <1>3 DEF TypeOK
    <3>2. QED
      BY <3>1 DEF Jobs
  <2>3. n \in Macs /\ ProxyOf[n] = g /\ ToDo(k, n)
    BY <1>0 DEF OwnDevices, Workers, ToDo
  <2>4. \A m \in Macs : ProxyOf[m] = g => (At(k, m)' <=> m = n)
    BY <2>1 DEF Working, At
  <2>5. \A m \in Macs : ProxyOf[m] = g /\ ToDo(k, m)' => ToDo(k, m)
    BY <2>1 DEF Working, ToDo
  <2>6. jobs'[k].running = {m \in Macs : At(k, m)'}
    BY <1>1, <2>2, <2>3, <2>4
  <2>7. QED
    BY <1>1, <2>3, <2>4, <2>5, <2>6 DEF Open
<1>4. QED
  BY <1>2, <1>3 DEF TakeNext

(* The jobs and workers a step leaves alone keep their counts.               *)
LEMMA CountsFrame ==
  ASSUME CountsOpen, NEW i \in DOMAIN jobs,
         worker'[i] = worker[i],
         \A f \in {"total", "done", "ok", "fail", "running"} : jobs'[i][f] = jobs[i][f]
  PROVE  /\ jobs'[i].done = jobs'[i].ok + jobs'[i].fail
         /\ jobs'[i].running = {m \in Macs : At(i, m)'}
         /\ jobs'[i].done + Cardinality(Open(i)') <= jobs'[i].total
<1>1. \A m \in Macs : (At(i, m)' <=> At(i, m)) /\ (ToDo(i, m)' <=> ToDo(i, m))
  BY DEF At, ToDo
<1>2. Open(i)' = Open(i) /\ {m \in Macs : At(i, m)'} = {m \in Macs : At(i, m)}
  BY <1>1 DEF Open
<1>3. QED
  BY <1>2 DEF CountsOpen

(* What counting a device adds up to.                                        *)
LEMMA CountedSum ==
  ASSUME NEW j \in Jobs, NEW m \in Macs, NEW o
  PROVE  LET c == Counted(KeyListed(j, m, o), m, o)
         IN /\ c.done = j.done + 1 /\ c.ok + c.fail = j.ok + j.fail + 1
            /\ c.running = j.running \ {m} /\ c.total = j.total
<1> DEFINE l == KeyListed(j, m, o)
<1>1. /\ l \in Jobs /\ l.done = j.done /\ l.ok = j.ok /\ l.fail = j.fail
      /\ l.running = j.running /\ l.total = j.total
  BY DEF KeyListed, Jobs
<1>2. /\ j.done \in Nat /\ j.ok \in Nat /\ j.fail \in Nat
  BY DEF Jobs
<1>3. CASE o \in Failing
  BY <1>1, <1>2, <1>3 DEF Counted, Jobs
<1>4. CASE o \notin Failing
  BY <1>1, <1>2, <1>4 DEF Counted, Jobs
<1>5. QED
  BY <1>3, <1>4

(* A step of a worker keeps the counts of its job.                           *)
LEMMA WorkerCounts ==
  ASSUME TypeOK, OwnDevices, CountsOpen, NEW k \in DOMAIN jobs, NEW g \in Proxies, WorkerStep(k, g)
  PROVE  /\ jobs'[k].done = jobs'[k].ok + jobs'[k].fail
         /\ jobs'[k].running = {m \in Macs : At(k, m)'}
         /\ jobs'[k].done + Cardinality(Open(k)') <= jobs'[k].total
<1> DEFINE m == worker[k][g].mac
<1>0. /\ jobs[k] \in Jobs /\ worker[k] \in [Proxies -> Workers]
      /\ Open(k) \in SUBSET Macs /\ Open(k)' \in SUBSET Macs
  BY DEF TypeOK, Open
<1>1. /\ jobs[k].done \in Nat /\ jobs[k].total \in Nat
      /\ Cardinality(Open(k)) \in Nat /\ Cardinality(Open(k)') \in Nat
  BY <1>0, MacsFinite DEF Jobs
<1>2. CASE worker[k][g].phase = "new" /\ TakeNext(k, g, jobs[k])
  <2>1. \A n \in Macs : At(k, n) => ProxyOf[n] # g
    BY <1>2 DEF At
  <2>2. jobs[k].running = {n \in Macs : At(k, n) /\ ProxyOf[n] # g}
    BY <2>1 DEF CountsOpen
  <2>3. /\ jobs'[k].running = {n \in Macs : At(k, n)'}
        /\ Open(k)' \subseteq Open(k)
    BY <1>0, <1>2, <2>2, TakeNextOpen
  <2>4. Cardinality(Open(k)') <= Cardinality(Open(k))
    BY <1>0, <2>3, MacsFinite
  <2>5. /\ jobs'[k].done = jobs[k].done /\ jobs'[k].ok = jobs[k].ok
        /\ jobs'[k].fail = jobs[k].fail /\ jobs'[k].total = jobs[k].total
    BY <1>0, <1>2, TakeNextFrame DEF Unmoved
  <2>6. jobs[k].done = jobs[k].ok + jobs[k].fail /\ jobs[k].done + Cardinality(Open(k)) <= jobs[k].total
    BY DEF CountsOpen
  <2>7. jobs'[k].done + Cardinality(Open(k)') <= jobs'[k].total
    BY <1>1, <2>4, <2>5, <2>6
  <2>8. QED
    BY <2>3, <2>5, <2>6, <2>7
<1>3. CASE worker[k][g].phase = "device" /\ UNCHANGED jobs
           /\ worker' = [worker EXCEPT ![k][g].phase = "store"]
  <2>1. \A n \in Macs : (At(k, n)' <=> At(k, n)) /\ (ToDo(k, n)' <=> ToDo(k, n))
    <3>1. /\ worker'[k][g] = [worker[k][g] EXCEPT !.phase = "store"]
          /\ \A h \in Proxies : h # g => worker'[k][h] = worker[k][h]
      BY <1>0, <1>3 DEF TypeOK
    <3>2. /\ worker'[k][g].phase = "store" /\ worker'[k][g].mac = worker[k][g].mac
          /\ worker'[k][g].todo = worker[k][g].todo
      BY <1>0, <3>1 DEF Workers
    <3>3. QED
      BY <1>3, <3>1, <3>2, MacsFinite DEF At, ToDo
  <2>2. Open(k)' = Open(k) /\ {n \in Macs : At(k, n)'} = {n \in Macs : At(k, n)}
    BY <2>1 DEF Open
  <2>3. QED
    BY <1>3, <2>2 DEF CountsOpen
<1>4. ASSUME worker[k][g].phase \in {"device", "store"}, m \in Macs,
             NEW j \in Jobs, NEW o,
             \A f \in {"active", "total", "done", "ok", "fail", "running"} : j[f] = jobs[k][f],
             TakeNext(k, g, Counted(KeyListed(j, m, o), m, o))
      PROVE  /\ jobs'[k].done = jobs'[k].ok + jobs'[k].fail
             /\ jobs'[k].running = {n \in Macs : At(k, n)'}
             /\ jobs'[k].done + Cardinality(Open(k)') <= jobs'[k].total
  <2> DEFINE c == Counted(KeyListed(j, m, o), m, o)
  <2>1. c \in Jobs
    BY <1>4, CountedType
  <2>2. /\ c.done = jobs[k].done + 1 /\ c.ok + c.fail = jobs[k].ok + jobs[k].fail + 1
        /\ c.running = jobs[k].running \ {m} /\ c.total = jobs[k].total
    BY <1>4, CountedSum
  <2>3. ProxyOf[m] = g /\ At(k, m) /\ ~ToDo(k, m) /\ m \in Open(k)
    BY <1>4 DEF OwnDevices, At, ToDo, Open
  <2>4. \A n \in Macs : At(k, n) /\ ProxyOf[n] = g => n = m
    BY DEF At
  <2>5. c.running = {n \in Macs : At(k, n) /\ ProxyOf[n] # g}
    BY <2>2, <2>3, <2>4 DEF CountsOpen
  <2>6. /\ jobs'[k].running = {n \in Macs : At(k, n)'}
        /\ Open(k)' \subseteq Open(k) \ {m}
    BY <1>4, <2>1, <2>3, <2>5, TakeNextOpen
  <2>7. Cardinality(Open(k)') <= Cardinality(Open(k)) - 1
    <3>1. Cardinality(Open(k) \ {m}) = Cardinality(Open(k)) - 1
      BY <1>0, <2>3, MacsFinite, FS_RemoveElement
    <3>2. Open(k) \ {m} \in SUBSET Macs /\ Open(k)' \in SUBSET (Open(k) \ {m})
      BY <1>0, <2>6
    <3>3. Cardinality(Open(k)') <= Cardinality(Open(k) \ {m})
      BY <3>2, MacsFinite
    <3>4. QED
      BY <3>1, <3>3
  <2>8. /\ jobs'[k].done = c.done /\ jobs'[k].ok = c.ok
        /\ jobs'[k].fail = c.fail /\ jobs'[k].total = c.total
    BY <1>4, <2>1, TakeNextFrame DEF Unmoved
  <2>9. jobs[k].done = jobs[k].ok + jobs[k].fail /\ jobs[k].done + Cardinality(Open(k)) <= jobs[k].total
    BY DEF CountsOpen
  <2>10. jobs'[k].done = jobs'[k].ok + jobs'[k].fail
    BY <2>2, <2>8, <2>9
  <2>11. jobs'[k].done + Cardinality(Open(k)') <= jobs'[k].total
    BY <1>1, <2>2, <2>7, <2>8, <2>9
  <2>12. QED
    BY <2>6, <2>10, <2>11
<1>5. QED
  BY <1>2, <1>3, <1>4, WorkerStepIs

(* The counters of a bulk job add up at every moment (bulk.worker).          *)
THEOREM CountsCorrect == Spec => []CountsAddUp
<1>1. Init => CountsOpen
  <2> SUFFICES ASSUME Init PROVE CountsOpen
    OBVIOUS
  <2>1. DOMAIN jobs = {}
    BY DEF Init
  <2>2. QED
    BY <2>1 DEF CountsOpen
<1>2. TypeOK /\ OwnDevices /\ CountsOpen /\ [Next]_serverVars => CountsOpen'
  <2> SUFFICES ASSUME TypeOK, OwnDevices, CountsOpen, [Next]_serverVars,
                      NEW i \in DOMAIN jobs'
               PROVE  /\ jobs'[i].done = jobs'[i].ok + jobs'[i].fail
                      /\ jobs'[i].running = {m \in Macs : At(i, m)'}
                      /\ jobs'[i].done + Cardinality(Open(i)') <= jobs'[i].total
    BY DEF CountsOpen
  <2>1. ASSUME NEW devs \in SUBSET Macs, NEW action \in Actions, Start(devs, action)
        PROVE  /\ jobs'[i].done = jobs'[i].ok + jobs'[i].fail
               /\ jobs'[i].running = {m \in Macs : At(i, m)'}
               /\ jobs'[i].done + Cardinality(Open(i)') <= jobs'[i].total
    <3>1. DOMAIN jobs' = Left \union {current'}
      BY <2>1 DEF Start, Replaced
    <3>2. CASE i = current'
      <4>1. jobs'[i] = NewJob(devs, action)
        BY <2>1, <3>2 DEF Start, Replaced
      <4>2. \A g \in Proxies : worker'[i][g] = GroupWorker(devs, g)
        BY <2>1, <3>2 DEF Start, Replaced
      <4>3. \A m \in Macs : ~At(i, m)' /\ (ToDo(i, m)' <=> m \in devs)
        <5>1. \A g \in Proxies : /\ worker'[i][g].phase \in {"new", "over"}
                                  /\ worker'[i][g].todo = {m \in devs : ProxyOf[m] = g}
          <6> SUFFICES ASSUME NEW g \in Proxies
                       PROVE  /\ worker'[i][g].phase \in {"new", "over"}
                              /\ worker'[i][g].todo = {m \in devs : ProxyOf[m] = g}
            OBVIOUS
          <6>1. worker'[i][g] = GroupWorker(devs, g)
            BY <4>2
          <6>2. /\ GroupWorker(devs, g).phase \in {"new", "over"}
                /\ GroupWorker(devs, g).todo = {m \in devs : ProxyOf[m] = g}
            BY DEF GroupWorker
          <6>3. QED
            BY <6>1, <6>2
        <5>2. ASSUME NEW m \in Macs PROVE ~At(i, m)' /\ (ToDo(i, m)' <=> m \in devs)
          <6>1. ProxyOf[m] \in Proxies
            BY MacsFinite
          <6>2. QED
            BY <5>1, <6>1 DEF At, ToDo
        <5>3. QED
          BY <5>2
      <4>4. Open(i)' = devs /\ {m \in Macs : At(i, m)'} = {}
        BY <4>3 DEF Open
      <4>5. Cardinality(devs) \in Nat
        BY MacsFinite
      <4>6. /\ jobs'[i].done = 0 /\ jobs'[i].ok = 0 /\ jobs'[i].fail = 0
            /\ jobs'[i].running = {} /\ jobs'[i].total = Cardinality(devs)
        BY <4>1 DEF NewJob
      <4>7. QED
        BY <4>4, <4>5, <4>6
    <3>3. CASE i # current'
      <4>1. i \in Left /\ i \in DOMAIN jobs
        BY <3>1, <3>3 DEF Left
      <4>2. jobs'[i] = jobs[i] /\ worker'[i] = worker[i]
        BY <2>1, <3>3, <4>1 DEF Start, Replaced
      <4>3. QED
        BY <4>1, <4>2, CountsFrame
    <3>4. QED
      BY <3>2, <3>3
  <2>2. ASSUME Cancel \/ Dismiss
        PROVE  /\ jobs'[i].done = jobs'[i].ok + jobs'[i].fail
               /\ jobs'[i].running = {m \in Macs : At(i, m)'}
               /\ jobs'[i].done + Cardinality(Open(i)') <= jobs'[i].total
    <3>1. current # 0 => current \in DOMAIN jobs /\ jobs[current] \in Jobs
      BY DEF TypeOK
    <3>2. \A j \in Jobs : \A f \in {"total", "done", "ok", "fail", "running"} :
            [j EXCEPT !.cancel = TRUE][f] = j[f] /\ [j EXCEPT !.result = Nothing][f] = j[f]
      BY DEF Jobs
    <3>3. \/ UNCHANGED jobs
          \/ current # 0 /\ jobs' = [jobs EXCEPT ![current] = [jobs[current] EXCEPT !.cancel = TRUE]]
          \/ current # 0 /\ jobs' = [jobs EXCEPT ![current] = [jobs[current] EXCEPT !.result = Nothing]]
      BY <2>2 DEF Cancel, Dismiss, Busy
    <3>4. /\ i \in DOMAIN jobs
          /\ \A f \in {"total", "done", "ok", "fail", "running"} : jobs'[i][f] = jobs[i][f]
      <4>1. CASE UNCHANGED jobs
        BY <4>1
      <4>2. CASE current # 0 /\ jobs' = [jobs EXCEPT ![current] = [jobs[current] EXCEPT !.cancel = TRUE]]
        <5>1. i \in DOMAIN jobs
          BY <4>2
        <5>2. CASE i = current
          <6>1. jobs'[i] = [jobs[current] EXCEPT !.cancel = TRUE]
            BY <4>2, <5>1, <5>2
          <6>2. QED
            BY <3>1, <3>2, <4>2, <5>1, <5>2, <6>1
        <5>3. CASE i # current
          BY <4>2, <5>1, <5>3
        <5>4. QED
          BY <5>2, <5>3
      <4>3. CASE current # 0 /\ jobs' = [jobs EXCEPT ![current] = [jobs[current] EXCEPT !.result = Nothing]]
        <5>1. i \in DOMAIN jobs
          BY <4>3
        <5>2. CASE i = current
          <6>1. jobs'[i] = [jobs[current] EXCEPT !.result = Nothing]
            BY <4>3, <5>1, <5>2
          <6>2. QED
            BY <3>1, <3>2, <4>3, <5>1, <5>2, <6>1
        <5>3. CASE i # current
          BY <4>3, <5>1, <5>3
        <5>4. QED
          BY <5>2, <5>3
      <4>4. QED
        BY <3>3, <4>1, <4>2, <4>3
    <3>5. UNCHANGED worker
      BY <2>2 DEF Cancel, Dismiss
    <3>6. QED
      BY <3>4, <3>5, CountsFrame
  <2>3. ASSUME NEW k \in DOMAIN jobs, NEW g \in Proxies, WorkerStep(k, g)
        PROVE  /\ jobs'[i].done = jobs'[i].ok + jobs'[i].fail
               /\ jobs'[i].running = {m \in Macs : At(i, m)'}
               /\ jobs'[i].done + Cardinality(Open(i)') <= jobs'[i].total
    <3>1. DOMAIN jobs' = DOMAIN jobs /\ (i # k => jobs'[i] = jobs[i] /\ worker'[i] = worker[i])
      <4> DEFINE m == worker[k][g].mac
      <4>0. jobs[k] \in Jobs
        BY DEF TypeOK
      <4>1. CASE TakeNext(k, g, jobs[k])
        BY <4>0, <4>1, TakeNextFrame
      <4>2. CASE UNCHANGED jobs /\ worker' = [worker EXCEPT ![k][g].phase = "store"]
        BY <4>2 DEF TypeOK
      <4>3. ASSUME NEW j \in Jobs, NEW o, m \in Macs, TakeNext(k, g, Counted(KeyListed(j, m, o), m, o))
            PROVE  DOMAIN jobs' = DOMAIN jobs /\ (i # k => jobs'[i] = jobs[i] /\ worker'[i] = worker[i])
        BY <4>3, CountedType, TakeNextFrame
      <4>4. QED
        BY <2>3, <4>1, <4>2, <4>3, WorkerStepIs
    <3>2. CASE i = k
      BY <2>3, <3>2, WorkerCounts
    <3>3. CASE i # k
      BY <3>1, <3>3, CountsFrame
    <3>4. QED
      BY <3>2, <3>3
  <2>4. ASSUME NEW k \in DOMAIN jobs, Conclude(k)
        PROVE  /\ jobs'[i].done = jobs'[i].ok + jobs'[i].fail
               /\ jobs'[i].running = {m \in Macs : At(i, m)'}
               /\ jobs'[i].done + Cardinality(Open(i)') <= jobs'[i].total
    <3> DEFINE r == [total |-> jobs[k].total, ok |-> jobs[k].ok, fail |-> jobs[k].fail,
                     failures |-> jobs[k].failures, cancelled |-> jobs[k].cancel,
                     manual |-> jobs[k].manual]
    <3>1. jobs' = [jobs EXCEPT ![k] = [jobs[k] EXCEPT !.active = FALSE, !.result = r]] /\ UNCHANGED worker
      BY <2>4 DEF Conclude, TypeOK
    <3>2. jobs[k] \in Jobs
      BY DEF TypeOK
    <3>3. \A f \in {"total", "done", "ok", "fail", "running"} :
            [jobs[k] EXCEPT !.active = FALSE, !.result = r][f] = jobs[k][f]
      BY <3>2 DEF Jobs
    <3>4. i \in DOMAIN jobs /\ \A f \in {"total", "done", "ok", "fail", "running"} : jobs'[i][f] = jobs[i][f]
      BY <3>1, <3>3
    <3>5. QED
      BY <3>1, <3>4, CountsFrame
  <2>5. CASE UNCHANGED serverVars
    <3>1. UNCHANGED <<jobs, worker>>
      BY <2>5 DEF serverVars
    <3>2. QED
      BY <3>1, CountsFrame
  <2>6. QED
    BY <2>1, <2>2, <2>3, <2>4, <2>5 DEF Next, Command, JobStep, StartRefused
<1>3. TypeOK /\ OwnDevices /\ CountsOpen => CountsAddUp
  <2> SUFFICES ASSUME TypeOK, OwnDevices, CountsOpen, NEW k \in DOMAIN jobs
               PROVE  /\ jobs[k].done = jobs[k].ok + jobs[k].fail
                      /\ jobs[k].running = UnderWay(k)
                      /\ jobs[k].done + Cardinality(jobs[k].running) <= jobs[k].total
    BY DEF CountsAddUp
  <2>1. jobs[k].running = UnderWay(k) /\ jobs[k].running \in SUBSET Open(k) /\ Open(k) \in SUBSET Macs
    BY UnderWayIs DEF CountsOpen, Open
  <2>2. jobs[k].running \in SUBSET Macs
    BY <2>1
  <2>3. /\ Cardinality(jobs[k].running) <= Cardinality(Open(k))
        /\ Cardinality(jobs[k].running) \in Nat /\ Cardinality(Open(k)) \in Nat
    BY <2>1, <2>2, MacsFinite
  <2>4. jobs[k].done \in Nat /\ jobs[k].total \in Nat
    BY DEF TypeOK, Jobs
  <2>5. jobs[k].done = jobs[k].ok + jobs[k].fail /\ jobs[k].done + Cardinality(Open(k)) <= jobs[k].total
    BY DEF CountsOpen
  <2>6. jobs[k].done + Cardinality(jobs[k].running) <= jobs[k].total
    BY <2>3, <2>4, <2>5
  <2>7. QED
    BY <2>1, <2>5, <2>6
<1>4. QED
  BY <1>1, <1>2, <1>3, TypeCorrect, PTL DEF Spec

-----------------------------------------------------------------------------
(* What a job has counted is what its devices came to: a device has its      *)
(* outcome when it was answered, and is counted when its worker leaves it.   *)
(* What is counted and what is open is everything, unless it was cancelled.  *)
Counts(k, set) == {m \in Macs : outcome[k][m] \in set /\ ~At(k, m)}

Tally(k) ==
  /\ \A m \in Macs :
       ToDo(k, m) => outcome[k][m] = Nothing /\ worker[k][ProxyOf[m]].phase # "over"
  /\ \A m \in Macs :
       At(k, m) => (outcome[k][m] = Nothing <=> worker[k][ProxyOf[m]].phase = "device")
  /\ jobs[k].ok = Cardinality(Counts(k, AnyOutcome \ Failing))
  /\ jobs[k].failures = Counts(k, Failing)
  /\ jobs[k].fail = Cardinality(Counts(k, Failing))
  /\ jobs[k].manual = Counts(k, ByHand)
  /\ jobs[k].cancel \/ jobs[k].done + Cardinality(Open(k)) = jobs[k].total

Tallied == \A k \in DOMAIN jobs : Tally(k)

(* The result is a copy of the counters, which do not move any more.         *)
Copied(k) ==
  jobs[k].result # Nothing =>
    /\ ~jobs[k].active
    /\ \A f \in {"ok", "fail", "total", "failures", "manual"} : jobs[k].result[f] = jobs[k][f]
    /\ jobs[k].result.cancelled = jobs[k].cancel

ResultsCopied == \A k \in DOMAIN jobs : Copied(k)

(* A job whose workers and outcomes are left alone keeps its tally, also     *)
(* when it is cancelled.                                                     *)
LEMMA TallyFrame ==
  ASSUME NEW i, Tally(i), worker'[i] = worker[i], outcome'[i] = outcome[i],
         \A f \in {"total", "done", "ok", "fail", "failures", "manual"} : jobs'[i][f] = jobs[i][f],
         jobs[i].cancel => jobs'[i].cancel
  PROVE  Tally(i)'
<1>1. \A m \in Macs : (At(i, m)' <=> At(i, m)) /\ (ToDo(i, m)' <=> ToDo(i, m))
  BY DEF At, ToDo
<1>2. Open(i)' = Open(i)
  BY <1>1 DEF Open
<1>3. /\ Counts(i, AnyOutcome \ Failing)' = Counts(i, AnyOutcome \ Failing)
      /\ Counts(i, Failing)' = Counts(i, Failing) /\ Counts(i, ByHand)' = Counts(i, ByHand)
  BY <1>1 DEF Counts
<1> QED
  BY <1>1, <1>2, <1>3 DEF Tally

(* Where the workers are after that of proxy g turned to its next device: the *)
(* others where they were, it at an end, or at a device it had to do.        *)
OthersStay(k, g) ==
  \A n \in Macs : ProxyOf[n] # g =>
    /\ At(k, n)' <=> At(k, n)
    /\ ToDo(k, n)' <=> ToDo(k, n)
    /\ worker'[k][ProxyOf[n]].phase = worker[k][ProxyOf[n]].phase

Ends(k, g) == \A n \in Macs : ProxyOf[n] = g => ~At(k, n)' /\ ~ToDo(k, n)'

Takes(k, g, m) ==
  /\ worker'[k][g].phase = "device"
  /\ ProxyOf[m] = g /\ ToDo(k, m)
  /\ \A n \in Macs : ProxyOf[n] = g =>
       /\ At(k, n)' <=> n = m
       /\ ToDo(k, n)' <=> ToDo(k, n) /\ n # m

LEMMA TakeNextMoves ==
  ASSUME TypeOK, OwnDevices, NEW k \in DOMAIN jobs, NEW g \in Proxies, NEW j \in Jobs,
         TakeNext(k, g, j)
  PROVE  /\ OthersStay(k, g)
         /\ \/ Ends(k, g) /\ (j.cancel \/ \A n \in Macs : ProxyOf[n] = g => ~ToDo(k, n))
            \/ \E m \in Macs : Takes(k, g, m)
<1>0. worker[k] \in [Proxies -> Workers]
  BY DEF TypeOK
<1>1. OthersStay(k, g)
  BY MacsFinite, TakeNextFrame DEF OthersStay, At, ToDo
<1>2. CASE /\ j.cancel \/ worker[k][g].todo = {}
           /\ worker' = [worker EXCEPT ![k][g] = Over]
  <2>1. worker'[k][g] = Over
    BY <1>0, <1>2 DEF TypeOK
  <2>2. Ends(k, g)
    BY <2>1 DEF Ends, Over, At, ToDo
  <2>3. j.cancel \/ \A n \in Macs : ProxyOf[n] = g => ~ToDo(k, n)
    BY <1>2 DEF ToDo
  <2> QED
    BY <1>1, <2>2, <2>3
<1>3. ASSUME NEW m \in worker[k][g].todo,
             worker' = [worker EXCEPT ![k][g] = Working(worker[k][g], m)]
      PROVE  \E l \in Macs : Takes(k, g, l)
  <2>1. worker'[k][g] = Working(worker[k][g], m)
    BY <1>0, <1>3 DEF TypeOK
  <2>2. m \in Macs /\ ProxyOf[m] = g /\ ToDo(k, m)
    BY <1>0 DEF OwnDevices, Workers, ToDo
  <2>3. \A n \in Macs : ProxyOf[n] = g =>
          /\ At(k, n)' <=> n = m
          /\ ToDo(k, n)' <=> ToDo(k, n) /\ n # m
    BY <2>1 DEF Working, At, ToDo
  <2> QED
    BY <2>1, <2>2, <2>3 DEF Takes, Working
<1> QED
  BY <1>1, <1>2, <1>3 DEF TakeNext

(* Counting a device puts it where its outcome belongs.                      *)
LEMMA CountedWhere ==
  ASSUME NEW j \in Jobs, NEW m \in Macs, NEW o
  PROVE  LET c == Counted(KeyListed(j, m, o), m, o)
         IN /\ c.ok = IF o \in Failing THEN j.ok ELSE j.ok + 1
            /\ c.fail = IF o \in Failing THEN j.fail + 1 ELSE j.fail
            /\ c.failures = IF o \in Failing THEN j.failures \union {m} ELSE j.failures
            /\ c.manual = IF o \in ByHand THEN j.manual \union {m} ELSE j.manual
<1> DEFINE l == KeyListed(j, m, o)
<1>1. /\ l \in Jobs /\ l.ok = j.ok /\ l.fail = j.fail /\ l.failures = j.failures
      /\ l.manual = IF o \in ByHand THEN j.manual \union {m} ELSE j.manual
  BY DEF KeyListed, Jobs
<1>2. CASE o \in Failing
  BY <1>1, <1>2 DEF Counted, Jobs
<1>3. CASE o \notin Failing
  BY <1>1, <1>3 DEF Counted, Jobs
<1> QED
  BY <1>2, <1>3

(* A device that is counted in this step joins those with its outcome.       *)
LEMMA CountsGrow ==
  ASSUME NEW k, NEW m \in Macs, NEW set \in SUBSET AnyOutcome, At(k, m), ~At(k, m)',
         \A n \in Macs \ {m} : /\ outcome'[k][n] = outcome[k][n]
                               /\ At(k, n)' <=> At(k, n) \/ (At(k, n)' /\ outcome[k][n] = Nothing)
  PROVE  /\ Counts(k, set)' = IF outcome'[k][m] \in set THEN Counts(k, set) \union {m} ELSE Counts(k, set)
         /\ Cardinality(Counts(k, set)')
              = IF outcome'[k][m] \in set THEN Cardinality(Counts(k, set)) + 1
                                          ELSE Cardinality(Counts(k, set))
<1>1. Nothing \notin set
  BY BulkAssumption, Zenon DEF AnyOutcome
<1>2. \A n \in Macs \ {m} : n \in Counts(k, set)' <=> n \in Counts(k, set)
  BY <1>1 DEF Counts
<1>3. m \notin Counts(k, set) /\ (m \in Counts(k, set)' <=> outcome'[k][m] \in set)
  BY DEF Counts
<1>4. Counts(k, set) \in SUBSET Macs /\ Counts(k, set)' \in SUBSET Macs
  BY DEF Counts
<1>5. Counts(k, set)' = IF outcome'[k][m] \in set THEN Counts(k, set) \union {m} ELSE Counts(k, set)
  BY <1>2, <1>3, <1>4
<1>6. Cardinality(Counts(k, set) \union {m}) = Cardinality(Counts(k, set)) + 1
  BY <1>3, <1>4, MacsFinite, FS_AddElement
<1> QED
  BY <1>5, <1>6

(* A step of a worker keeps the tally of its job.                            *)
LEMMA WorkerTally ==
  ASSUME TypeOK, OwnDevices, Tallied, NEW k \in DOMAIN jobs, NEW g \in Proxies, WorkerStep(k, g)
  PROVE  Tally(k)'
<1>0. /\ jobs[k] \in Jobs /\ worker[k] \in [Proxies -> Workers]
      /\ outcome[k] \in [Macs -> AnyOutcome \union {Nothing}]
      /\ outcome \in [DOMAIN jobs -> [Macs -> AnyOutcome \union {Nothing}]]
      /\ Open(k) \in SUBSET Macs /\ Tally(k)
      /\ ProxyOf \in [Macs -> Proxies]
      /\ Nothing \notin AnyOutcome
  <2>1. Nothing \notin AnyOutcome
    BY BulkAssumption, Zenon DEF AnyOutcome
  <2> QED
    BY <2>1, MacsFinite DEF TypeOK, Open, Tallied
<1>1. CASE worker[k][g].phase = "new" /\ TakeNext(k, g, jobs[k]) /\ UNCHANGED outcome
  <2>1. \A n \in Macs : ProxyOf[n] = g => ~At(k, n)
    BY <1>1 DEF At
  <2>m. /\ OthersStay(k, g)
        /\ \/ Ends(k, g) /\ (jobs[k].cancel \/ \A n \in Macs : ProxyOf[n] = g => ~ToDo(k, n))
           \/ \E l \in Macs : Takes(k, g, l)
    BY <1>0, <1>1, TakeNextMoves
  <2>2. \A n \in Macs : outcome[k][n] # Nothing => (At(k, n)' <=> At(k, n))
    BY <1>0, <2>1, <2>m DEF Tally, OthersStay, Ends, Takes
  <2>3. \A set \in SUBSET AnyOutcome : Counts(k, set)' = Counts(k, set)
    BY <1>0, <1>1, <2>2 DEF Counts
  <2>4. jobs[k].cancel \/ Open(k)' = Open(k)
    BY <1>0, <2>1, <2>m DEF Open, OthersStay, Ends, Takes
  <2>5. \A f \in Unmoved : jobs'[k][f] = jobs[k][f]
    BY <1>0, <1>1, TakeNextFrame
  <2>6. /\ \A n \in Macs : ToDo(k, n)' => outcome'[k][n] = Nothing /\ worker'[k][ProxyOf[n]].phase # "over"
        /\ \A n \in Macs :
             At(k, n)' => (outcome'[k][n] = Nothing <=> worker'[k][ProxyOf[n]].phase = "device")
    BY <1>0, <1>1, <2>1, <2>m DEF Tally, OthersStay, Ends, Takes
  <2>7. {AnyOutcome \ Failing, Failing, ByHand} \subseteq SUBSET AnyOutcome
    BY DEF AnyOutcome, Failing, ByHand
  <2> QED
    BY <1>0, <2>3, <2>4, <2>5, <2>6, <2>7 DEF Tally, Unmoved
<1>2. ASSUME worker[k][g].phase = "device", UNCHANGED jobs,
             NEW m \in Macs, m = worker[k][g].mac,
             worker' = [worker EXCEPT ![k][g].phase = "store"],
             NEW o \in AnyOutcome, outcome' = [outcome EXCEPT ![k][m] = o]
      PROVE  Tally(k)'
  <2>1. /\ worker'[k][g] = [worker[k][g] EXCEPT !.phase = "store"]
        /\ \A h \in Proxies : h # g => worker'[k][h] = worker[k][h]
    BY <1>0, <1>2 DEF TypeOK
  <2>2. /\ worker'[k][g].phase = "store" /\ worker'[k][g].mac = worker[k][g].mac
        /\ worker'[k][g].todo = worker[k][g].todo
    BY <1>0, <2>1 DEF Workers
  <2>3. \A n \in Macs : (At(k, n)' <=> At(k, n)) /\ (ToDo(k, n)' <=> ToDo(k, n))
    BY <1>0, <1>2, <2>1, <2>2 DEF At, ToDo
  <2>4. ProxyOf[m] = g /\ At(k, m) /\ ~ToDo(k, m)
    BY <1>2 DEF OwnDevices, At, ToDo
  <2>5. outcome'[k][m] = o /\ \A n \in Macs \ {m} : outcome'[k][n] = outcome[k][n]
    BY <1>0, <1>2
  <2>6. \A set : Counts(k, set)' = Counts(k, set)
    BY <2>3, <2>4, <2>5 DEF Counts
  <2>7. Open(k)' = Open(k)
    BY <2>3 DEF Open
  <2>8. \A n \in Macs : At(k, n) /\ ProxyOf[n] = g => n = m
    BY <1>2 DEF At
  <2>9. \A n \in Macs : ToDo(k, n)' => outcome'[k][n] = Nothing /\ worker'[k][ProxyOf[n]].phase # "over"
    <3> SUFFICES ASSUME NEW n \in Macs, ToDo(k, n)
                 PROVE  outcome'[k][n] = Nothing /\ worker'[k][ProxyOf[n]].phase # "over"
      BY <2>3
    <3>1. n # m /\ ProxyOf[n] \in Proxies
      BY <1>0, <2>4
    <3>2. outcome'[k][n] = Nothing /\ worker[k][ProxyOf[n]].phase # "over"
      BY <1>0, <2>5, <3>1 DEF Tally
    <3> QED
      BY <2>1, <2>2, <3>1, <3>2
  <2>10. \A n \in Macs :
           At(k, n)' => (outcome'[k][n] = Nothing <=> worker'[k][ProxyOf[n]].phase = "device")
    <3> SUFFICES ASSUME NEW n \in Macs, At(k, n)
                 PROVE  outcome'[k][n] = Nothing <=> worker'[k][ProxyOf[n]].phase = "device"
      BY <2>3
    <3>1. CASE n = m
      BY <1>0, <2>2, <2>4, <2>5, <3>1
    <3>2. CASE n # m
      <4>1. ProxyOf[n] \in Proxies /\ ProxyOf[n] # g
        BY <1>0, <2>8, <3>2
      <4> QED
        BY <1>0, <2>1, <2>5, <3>2, <4>1 DEF Tally
    <3> QED
      BY <3>1, <3>2
  <2> QED
    BY <1>0, <1>2, <2>6, <2>7, <2>9, <2>10 DEF Tally
<1>3. ASSUME worker[k][g].phase \in {"device", "store"},
             NEW m \in Macs, m = worker[k][g].mac,
             NEW j \in Jobs, NEW o \in AnyOutcome \union {Nothing},
             \A f \in {"active", "total", "done", "ok", "fail", "running", "cancel",
                       "failures", "manual", "result"} : j[f] = jobs[k][f],
             TakeNext(k, g, Counted(KeyListed(j, m, o), m, o)),
             \/ outcome' = [outcome EXCEPT ![k][m] = o] /\ o \in AnyOutcome
             \/ /\ UNCHANGED outcome /\ o = outcome[k][m]
                /\ worker[k][g].phase = "store"
      PROVE  Tally(k)'
  <2> DEFINE c == Counted(KeyListed(j, m, o), m, o)
  <2>1. c \in Jobs /\ c.cancel = jobs[k].cancel
    BY <1>3, CountedType
  <2>2. c.done = jobs[k].done + 1 /\ c.total = jobs[k].total
    BY <1>3, CountedSum
  <2>3. /\ c.ok = IF o \in Failing THEN jobs[k].ok ELSE jobs[k].ok + 1
        /\ c.fail = IF o \in Failing THEN jobs[k].fail + 1 ELSE jobs[k].fail
        /\ c.failures = IF o \in Failing THEN jobs[k].failures \union {m} ELSE jobs[k].failures
        /\ c.manual = IF o \in ByHand THEN jobs[k].manual \union {m} ELSE jobs[k].manual
    <3>1. /\ j.ok = jobs[k].ok /\ j.fail = jobs[k].fail /\ j.failures = jobs[k].failures
          /\ j.manual = jobs[k].manual
      BY <1>3
    <3>2. /\ c.ok = IF o \in Failing THEN j.ok ELSE j.ok + 1
          /\ c.fail = IF o \in Failing THEN j.fail + 1 ELSE j.fail
          /\ c.failures = IF o \in Failing THEN j.failures \union {m} ELSE j.failures
          /\ c.manual = IF o \in ByHand THEN j.manual \union {m} ELSE j.manual
      BY CountedWhere
    <3> QED
      BY ONLY <3>1, <3>2
  <2> HIDE DEF c
  <2>4. ProxyOf[m] = g /\ At(k, m) /\ ~ToDo(k, m) /\ m \in Open(k)
    BY <1>3 DEF OwnDevices, At, ToDo, Open
  <2>5. \A n \in Macs : At(k, n) /\ ProxyOf[n] = g => n = m
    BY <1>3 DEF At
  <2>6. o \in AnyOutcome /\ outcome'[k][m] = o
    BY <1>0, <1>3, <2>4 DEF Tally
  <2>7. \A n \in Macs \ {m} : outcome'[k][n] = outcome[k][n]
    BY <1>0, <1>3
  <2>m. /\ OthersStay(k, g)
        /\ \/ Ends(k, g) /\ (jobs[k].cancel \/ \A n \in Macs : ProxyOf[n] = g => ~ToDo(k, n))
           \/ \E l \in Macs : Takes(k, g, l)
    BY <1>3, <2>1, TakeNextMoves DEF c
  <2>8. /\ ~At(k, m)'
        /\ \A n \in Macs \ {m} : At(k, n)' <=> At(k, n) \/ (At(k, n)' /\ outcome[k][n] = Nothing)
    <3>1. ~At(k, m)'
      BY <1>3, <2>4, <2>m DEF Ends, Takes
    <3>2. ASSUME NEW n \in Macs \ {m}, ProxyOf[n] # g
          PROVE  At(k, n)' <=> At(k, n)
      BY <2>m, <3>2 DEF OthersStay
    <3>3. ASSUME NEW n \in Macs \ {m}, ProxyOf[n] = g
          PROVE  ~At(k, n) /\ (At(k, n)' => outcome[k][n] = Nothing)
      <4>1. ~At(k, n)
        BY <2>5, <3>3
      <4>2. At(k, n)' => ToDo(k, n)
        BY <2>m, <3>3 DEF Ends, Takes
      <4> QED
        BY <1>0, <4>1, <4>2 DEF Tally
    <3> QED
      BY <3>1, <3>2, <3>3
  <2>9. jobs[k].cancel \/ Open(k)' = Open(k) \ {m}
    BY <1>0, <2>4, <2>5, <2>m DEF Open, OthersStay, Ends, Takes
  <2>10. \A f \in Unmoved : jobs'[k][f] = c[f]
    BY <1>3, <2>1, TakeNextFrame DEF c
  <2>11. /\ \A n \in Macs : ToDo(k, n)' => outcome'[k][n] = Nothing /\ worker'[k][ProxyOf[n]].phase # "over"
         /\ \A n \in Macs :
              At(k, n)' => (outcome'[k][n] = Nothing <=> worker'[k][ProxyOf[n]].phase = "device")
    BY <1>0, <2>4, <2>5, <2>7, <2>8, <2>m DEF Tally, OthersStay, Ends, Takes
  <2>12. /\ AnyOutcome \ Failing \in SUBSET AnyOutcome /\ Failing \in SUBSET AnyOutcome
         /\ ByHand \in SUBSET AnyOutcome
    BY DEF AnyOutcome, Failing, ByHand
  <2>13. /\ jobs'[k].ok = Cardinality(Counts(k, AnyOutcome \ Failing)')
         /\ jobs'[k].failures = Counts(k, Failing)'
         /\ jobs'[k].fail = Cardinality(Counts(k, Failing)')
         /\ jobs'[k].manual = Counts(k, ByHand)'
    <3>1. \A set \in SUBSET AnyOutcome :
            /\ Counts(k, set)' = IF o \in set THEN Counts(k, set) \union {m} ELSE Counts(k, set)
            /\ Cardinality(Counts(k, set)')
                 = IF o \in set THEN Cardinality(Counts(k, set)) + 1 ELSE Cardinality(Counts(k, set))
      BY <1>3, <2>4, <2>6, <2>7, <2>8, CountsGrow
    <3>2. o \in AnyOutcome \ Failing <=> o \notin Failing
      BY <2>6
    <3>3. /\ jobs'[k].ok = c.ok /\ jobs'[k].fail = c.fail /\ jobs'[k].failures = c.failures
          /\ jobs'[k].manual = c.manual
      BY <2>10 DEF Unmoved
    <3>4. /\ jobs[k].ok = Cardinality(Counts(k, AnyOutcome \ Failing))
          /\ jobs[k].failures = Counts(k, Failing)
          /\ jobs[k].fail = Cardinality(Counts(k, Failing))
          /\ jobs[k].manual = Counts(k, ByHand)
      BY <1>0 DEF Tally
    <3>5. jobs'[k].ok = Cardinality(Counts(k, AnyOutcome \ Failing)')
      BY <2>3, <2>12, <3>1, <3>2, <3>3, <3>4
    <3>6. /\ jobs'[k].failures = Counts(k, Failing)'
          /\ jobs'[k].fail = Cardinality(Counts(k, Failing)')
      BY <2>3, <2>12, <3>1, <3>3, <3>4
    <3>7. jobs'[k].manual = Counts(k, ByHand)'
      BY <2>3, <2>12, <3>1, <3>3, <3>4
    <3> QED
      BY <3>5, <3>6, <3>7
  <2>14. jobs'[k].cancel \/ jobs'[k].done + Cardinality(Open(k)') = jobs'[k].total
    <3>1. Cardinality(Open(k) \ {m}) = Cardinality(Open(k)) - 1 /\ Cardinality(Open(k)) \in Nat
      BY <1>0, <2>4, MacsFinite, FS_RemoveElement
    <3>2. jobs[k].done \in Nat
      BY <1>0 DEF Jobs
    <3>3. /\ jobs'[k].cancel = jobs[k].cancel /\ jobs'[k].done = jobs[k].done + 1
          /\ jobs'[k].total = jobs[k].total
      BY <2>1, <2>2, <2>10 DEF Unmoved
    <3>4. jobs[k].cancel \/ jobs[k].done + Cardinality(Open(k)) = jobs[k].total
      BY <1>0 DEF Tally
    <3>5. CASE jobs[k].cancel
      BY <3>3, <3>5
    <3>6. CASE ~jobs[k].cancel
      <4>1. Cardinality(Open(k)') = Cardinality(Open(k)) - 1
        BY <2>9, <3>1, <3>6
      <4>2. jobs[k].done + Cardinality(Open(k)) = jobs[k].total
        BY <3>4, <3>6
      <4> QED
        BY <3>1, <3>2, <3>3, <4>1, <4>2
    <3> QED
      BY <3>5, <3>6
  <2> QED
    BY <2>11, <2>13, <2>14 DEF Tally
<1> QED
  BY <1>1, <1>2, <1>3, WorkerStepIs

(* A new job has counted nothing, and has all its devices to do.             *)
LEMMA NewJobTally ==
  ASSUME NEW devs \in SUBSET Macs, NEW action, NEW i,
         jobs'[i] = NewJob(devs, action),
         worker'[i] = [g \in Proxies |-> GroupWorker(devs, g)],
         outcome'[i] = [m \in Macs |-> Nothing]
  PROVE  Tally(i)'
<1>1. \A g \in Proxies : /\ worker'[i][g].phase \in {"new", "over"}
                         /\ \A m : m \in worker'[i][g].todo <=> m \in devs /\ ProxyOf[m] = g
                         /\ \A m \in worker'[i][g].todo : worker'[i][g].phase # "over"
  <2> SUFFICES ASSUME NEW g \in Proxies
               PROVE  /\ worker'[i][g].phase \in {"new", "over"}
                      /\ \A m : m \in worker'[i][g].todo <=> m \in devs /\ ProxyOf[m] = g
                      /\ \A m \in worker'[i][g].todo : worker'[i][g].phase # "over"
    OBVIOUS
  <2>1. worker'[i][g] = GroupWorker(devs, g)
    OBVIOUS
  <2> QED
    BY <2>1 DEF GroupWorker
<1>2. \A m \in Macs : /\ ~At(i, m)' /\ (ToDo(i, m)' <=> m \in devs)
                      /\ ToDo(i, m)' => worker'[i][ProxyOf[m]].phase # "over"
  BY <1>1, MacsFinite DEF At, ToDo
<1>3. Open(i)' = devs
  BY <1>2 DEF Open
<1>4. Nothing \notin AnyOutcome
  BY BulkAssumption, Zenon DEF AnyOutcome
<1>5. /\ Counts(i, AnyOutcome \ Failing)' = {} /\ Counts(i, Failing)' = {}
      /\ Counts(i, ByHand)' = {}
  BY <1>4 DEF Counts, AnyOutcome, Failing, ByHand
<1>6. Cardinality({}) = 0 /\ Cardinality(devs) \in Nat
  BY MacsFinite, FS_EmptySet
<1>7. /\ jobs'[i].ok = 0 /\ jobs'[i].fail = 0 /\ jobs'[i].failures = {} /\ jobs'[i].manual = {}
      /\ jobs'[i].done = 0 /\ jobs'[i].total = Cardinality(devs)
  BY DEF NewJob
<1>8. /\ \A m \in Macs : ToDo(i, m)' => outcome'[i][m] = Nothing /\ worker'[i][ProxyOf[m]].phase # "over"
      /\ \A m \in Macs :
           At(i, m)' => (outcome'[i][m] = Nothing <=> worker'[i][ProxyOf[m]].phase = "device")
  BY <1>2
<1>9. /\ jobs'[i].ok = Cardinality(Counts(i, AnyOutcome \ Failing)')
      /\ jobs'[i].failures = Counts(i, Failing)'
      /\ jobs'[i].fail = Cardinality(Counts(i, Failing)')
      /\ jobs'[i].manual = Counts(i, ByHand)'
  BY <1>5, <1>6, <1>7
<1>10. jobs'[i].done + Cardinality(Open(i)') = jobs'[i].total
  BY <1>3, <1>6, <1>7
<1> QED
  BY <1>8, <1>9, <1>10 DEF Tally

(* Cancelling and dismissing touch the job's cancel or result, nothing else. *)
LEMMA CommandFrame ==
  ASSUME TypeOK, Cancel \/ Dismiss
  PROVE  /\ DOMAIN jobs' = DOMAIN jobs
         /\ \A i \in DOMAIN jobs :
              /\ \A f \in {"active", "total", "done", "ok", "fail", "failures", "manual"} :
                   jobs'[i][f] = jobs[i][f]
              /\ jobs'[i].cancel = jobs[i].cancel \/ (jobs'[i].cancel /\ jobs[i].active)
              /\ jobs'[i].result \in {jobs[i].result, Nothing}
<1> DEFINE Kept(old, new) ==
      /\ \A f \in {"active", "total", "done", "ok", "fail", "failures", "manual"} : new[f] = old[f]
      /\ new.cancel = old.cancel \/ (new.cancel /\ old.active)
      /\ new.result \in {old.result, Nothing}
<1>1. current # 0 => current \in DOMAIN jobs /\ jobs[current] \in Jobs
  BY DEF TypeOK
<1>2. \A j \in Jobs : /\ j.active => Kept(j, [j EXCEPT !.cancel = TRUE])
                      /\ Kept(j, [j EXCEPT !.result = Nothing])
  BY DEF Jobs
<1>3. \A j : Kept(j, j)
  OBVIOUS
<1> HIDE DEF Kept
<1>4. \/ UNCHANGED jobs
      \/ /\ current # 0 /\ jobs[current].active
         /\ jobs' = [jobs EXCEPT ![current] = [jobs[current] EXCEPT !.cancel = TRUE]]
      \/ current # 0 /\ jobs' = [jobs EXCEPT ![current] = [jobs[current] EXCEPT !.result = Nothing]]
  BY DEF Cancel, Dismiss, Busy
<1>5. DOMAIN jobs' = DOMAIN jobs /\ \A i \in DOMAIN jobs : Kept(jobs[i], jobs'[i])
  BY <1>1, <1>2, <1>3, <1>4
<1> QED
  BY <1>5 DEF Kept

(* The job that ends is a copy of itself with its result.                    *)
LEMMA ConcludeFrame ==
  ASSUME TypeOK, NEW k \in DOMAIN jobs, Conclude(k)
  PROVE  /\ DOMAIN jobs' = DOMAIN jobs /\ UNCHANGED <<worker, outcome, current>>
         /\ \A i \in DOMAIN jobs : i # k => jobs'[i] = jobs[i]
         /\ \A f \in {"total", "done", "ok", "fail", "failures", "manual", "cancel"} :
              jobs'[k][f] = jobs[k][f]
         /\ ~jobs'[k].active
         /\ \A f \in {"ok", "fail", "total", "failures", "manual"} :
              jobs'[k].result[f] = jobs[k][f]
         /\ jobs'[k].result.cancelled = jobs[k].cancel
         /\ jobs'[k].result # Nothing
<1> DEFINE r == [total |-> jobs[k].total, ok |-> jobs[k].ok, fail |-> jobs[k].fail,
                 failures |-> jobs[k].failures, cancelled |-> jobs[k].cancel,
                 manual |-> jobs[k].manual]
<1>1. /\ jobs' = [jobs EXCEPT ![k] = [jobs[k] EXCEPT !.active = FALSE, !.result = r]]
      /\ UNCHANGED <<worker, outcome, current>>
  BY DEF Conclude, TypeOK
<1>2. jobs[k] \in Jobs
  BY DEF TypeOK
<1>3. jobs'[k] = [jobs[k] EXCEPT !.active = FALSE, !.result = r]
  BY <1>1
<1>4. jobs'[k].result = r
  BY <1>2, <1>3 DEF Jobs
<1>5. /\ ~jobs'[k].active
      /\ \A f \in {"total", "done", "ok", "fail", "failures", "manual", "cancel"} :
           jobs'[k][f] = jobs[k][f]
  BY <1>2, <1>3 DEF Jobs
<1>6. r \in Results
  BY <1>2 DEF Jobs, Results
<1> QED
  BY <1>1, <1>4, <1>5, <1>6, NoResultAssumption

(* What a step of a worker leaves alone.                                     *)
LEMMA WorkerStepFrame ==
  ASSUME TypeOK, OwnDevices, NEW k \in DOMAIN jobs, NEW g \in Proxies, WorkerStep(k, g)
  PROVE  /\ DOMAIN jobs' = DOMAIN jobs
         /\ \A i \in DOMAIN jobs : i # k => /\ jobs'[i] = jobs[i] /\ worker'[i] = worker[i]
                                            /\ outcome'[i] = outcome[i]
         /\ jobs'[k].active = jobs[k].active /\ jobs'[k].result = jobs[k].result
         /\ worker[k][g].phase # "over"
<1>0. jobs[k] \in Jobs /\ outcome \in [DOMAIN jobs -> [Macs -> AnyOutcome \union {Nothing}]]
  BY DEF TypeOK
<1>1. CASE worker[k][g].phase = "new" /\ TakeNext(k, g, jobs[k]) /\ UNCHANGED outcome
  BY <1>0, <1>1, TakeNextFrame DEF Unmoved
<1>2. ASSUME worker[k][g].phase = "device", UNCHANGED jobs, NEW m, NEW o,
             worker' = [worker EXCEPT ![k][g].phase = "store"],
             outcome' = [outcome EXCEPT ![k][m] = o]
      PROVE  /\ \A i \in DOMAIN jobs : i # k => /\ worker'[i] = worker[i]
                                                /\ outcome'[i] = outcome[i]
  BY <1>0, <1>2 DEF TypeOK
<1>3. ASSUME NEW m \in Macs, NEW j \in Jobs, NEW o,
             j.active = jobs[k].active, j.result = jobs[k].result,
             TakeNext(k, g, Counted(KeyListed(j, m, o), m, o)),
             outcome' = [outcome EXCEPT ![k][m] = o] \/ UNCHANGED outcome
      PROVE  /\ DOMAIN jobs' = DOMAIN jobs
             /\ \A i \in DOMAIN jobs : i # k => /\ jobs'[i] = jobs[i] /\ worker'[i] = worker[i]
                                                /\ outcome'[i] = outcome[i]
             /\ jobs'[k].active = jobs[k].active /\ jobs'[k].result = jobs[k].result
  <2>1. /\ Counted(KeyListed(j, m, o), m, o) \in Jobs
        /\ Counted(KeyListed(j, m, o), m, o).active = jobs[k].active
        /\ Counted(KeyListed(j, m, o), m, o).result = jobs[k].result
    BY <1>3, CountedType
  <2> QED
    BY <1>0, <1>3, <2>1, TakeNextFrame DEF Unmoved
<1> QED
  BY <1>1, <1>2, <1>3, WorkerStepIs

(* A step of the job's own ends it with a result, and takes none away.       *)
LEMMA JobStepNewest ==
  ASSUME TypeOK, OwnDevices, NEW k \in DOMAIN jobs, JobStep(k), current # 0
  PROVE  /\ UNCHANGED current
         /\ Busy' => Busy
         /\ Busy \/ jobs[current].result # Nothing => Busy' \/ jobs'[current].result # Nothing
<1>0. current \in DOMAIN jobs
  BY DEF TypeOK
<1>1. CASE Conclude(k)
  <2>1. /\ UNCHANGED current
        /\ current # k => jobs'[current] = jobs[current]
        /\ ~jobs'[k].active /\ jobs'[k].result # Nothing
    BY <1>0, <1>1, ConcludeFrame
  <2> QED
    BY <2>1 DEF Busy
<1>2. ASSUME NEW g \in Proxies, WorkerStep(k, g)
      PROVE  /\ UNCHANGED current
             /\ jobs'[current].active = jobs[current].active
             /\ jobs'[current].result = jobs[current].result
  <2>1. UNCHANGED current
    BY <1>2 DEF WorkerStep, Begin, Answered, Remembered
  <2> QED
    BY <1>0, <1>2, <2>1, WorkerStepFrame
<1> QED
  BY <1>1, <1>2 DEF JobStep, Busy

(* No step of the job loses count. *)
LEMMA TallyStep ==
  TypeOK /\ OwnDevices /\ OnlyNewest /\ Tallied /\ [Next]_serverVars => Tallied'
<1> SUFFICES ASSUME TypeOK, OwnDevices, OnlyNewest, Tallied, [Next]_serverVars,
                    NEW i \in DOMAIN jobs'
             PROVE  Tally(i)'
  BY DEF Tallied
<1>1. ASSUME NEW devs \in SUBSET Macs, NEW action \in Actions, Start(devs, action)
      PROVE  Tally(i)'
  <2>1. Left = {}
    BY <1>1, NoneLeft DEF Start
  <2>2. i = current'
    BY <1>1, <2>1 DEF Start, Replaced
  <2>3. /\ jobs'[i] = NewJob(devs, action)
        /\ worker'[i] = [g \in Proxies |-> GroupWorker(devs, g)]
        /\ outcome'[i] = [m \in Macs |-> Nothing]
    BY <1>1, <2>1, <2>2 DEF Start, Replaced
  <2> QED
    BY <2>3, NewJobTally
<1>2. CASE Cancel \/ Dismiss
  <2>1. /\ i \in DOMAIN jobs /\ UNCHANGED <<worker, outcome>>
        /\ \A f \in {"total", "done", "ok", "fail", "failures", "manual"} : jobs'[i][f] = jobs[i][f]
        /\ jobs[i].cancel => jobs'[i].cancel
    BY <1>2, CommandFrame DEF Cancel, Dismiss
  <2> QED
    BY <2>1, TallyFrame DEF Tallied
<1>3. ASSUME NEW k \in DOMAIN jobs, NEW g \in Proxies, WorkerStep(k, g) PROVE Tally(i)'
  <2>1. CASE i = k
    BY <1>3, <2>1, WorkerTally
  <2>2. CASE i # k
    <3>1. i \in DOMAIN jobs /\ jobs'[i] = jobs[i] /\ worker'[i] = worker[i] /\ outcome'[i] = outcome[i]
      BY <1>3, <2>2, WorkerStepFrame
    <3> QED
      BY <3>1, TallyFrame DEF Tallied
  <2> QED
    BY <2>1, <2>2
<1>4. ASSUME NEW k \in DOMAIN jobs, Conclude(k) PROVE Tally(i)'
  <2>1. /\ i \in DOMAIN jobs /\ UNCHANGED <<worker, outcome>>
        /\ \A f \in {"total", "done", "ok", "fail", "failures", "manual"} : jobs'[i][f] = jobs[i][f]
        /\ jobs'[i].cancel = jobs[i].cancel
    BY <1>4, ConcludeFrame
  <2> QED
    BY <2>1, TallyFrame DEF Tallied
<1>5. CASE UNCHANGED serverVars
  BY <1>5, TallyFrame DEF serverVars, Tallied
<1> QED
  BY <1>1, <1>2, <1>3, <1>4, <1>5 DEF Next, Command, JobStep, StartRefused

(* Nothing moves once the result is there, until it is dismissed. *)
LEMMA CopiedStep ==
  TypeOK /\ OwnDevices /\ OnlyNewest /\ ResultsCopied /\ [Next]_serverVars => ResultsCopied'
<1> SUFFICES ASSUME TypeOK, OwnDevices, OnlyNewest, ResultsCopied, [Next]_serverVars,
                    NEW i \in DOMAIN jobs'
             PROVE  Copied(i)'
  BY DEF ResultsCopied
<1>1. ASSUME NEW devs \in SUBSET Macs, NEW action \in Actions, Start(devs, action)
      PROVE  Copied(i)'
  <2>1. Left = {}
    BY <1>1, NoneLeft DEF Start
  <2>2. jobs'[i] = NewJob(devs, action)
    BY <1>1, <2>1 DEF Start, Replaced
  <2> QED
    BY <2>2 DEF Copied, NewJob
<1>2. CASE Cancel \/ Dismiss
  <2>1. i \in DOMAIN jobs /\ Copied(i)
    BY <1>2, CommandFrame DEF ResultsCopied
  <2> QED
    BY <1>2, <2>1, CommandFrame DEF Copied
<1>3. ASSUME NEW k \in DOMAIN jobs, NEW g \in Proxies, WorkerStep(k, g) PROVE Copied(i)'
  <2>1. i \in DOMAIN jobs /\ Copied(i)
    BY <1>3, WorkerStepFrame DEF ResultsCopied
  <2>2. CASE i = k
    <3>1. jobs[k].active
      BY <1>3, WorkerStepFrame DEF OnlyNewest
    <3> QED
      BY <1>3, <2>1, <2>2, <3>1, WorkerStepFrame DEF Copied
  <2>3. CASE i # k
    BY <1>3, <2>1, <2>3, WorkerStepFrame DEF Copied
  <2> QED
    BY <2>2, <2>3
<1>4. ASSUME NEW k \in DOMAIN jobs, Conclude(k) PROVE Copied(i)'
  <2>1. i \in DOMAIN jobs /\ Copied(i)
    BY <1>4, ConcludeFrame DEF ResultsCopied
  <2>2. CASE i = k
    BY <1>4, <2>2, ConcludeFrame DEF Copied
  <2>3. CASE i # k
    BY <1>4, <2>1, <2>3, ConcludeFrame DEF Copied
  <2> QED
    BY <2>2, <2>3
<1>5. CASE UNCHANGED serverVars
  BY <1>5 DEF serverVars, ResultsCopied, Copied
<1> QED
  BY <1>1, <1>2, <1>3, <1>4, <1>5 DEF Next, Command, JobStep, StartRefused

(* The tally and the copy are invariants. *)
LEMMA TellsInvariant == Spec => [](Tallied /\ ResultsCopied)
<1>1. Init => Tallied /\ ResultsCopied
  <2> SUFFICES ASSUME Init PROVE Tallied /\ ResultsCopied
    OBVIOUS
  <2>1. DOMAIN jobs = {}
    BY DEF Init
  <2> QED
    BY <2>1 DEF Tallied, ResultsCopied
<1> QED
  BY <1>1, TallyStep, CopiedStep, TypeCorrect, NewestCorrect, PTL DEF Spec

(* The result of a job tells what happened: its successes and failures, the  *)
(* devices that failed, every key to enter by hand, and no device is left    *)
(* out unless the job was cancelled (bulk._run).                             *)
THEOREM ResultCorrect == Spec => []ResultTells
<1>1. OnlyNewest /\ Tallied /\ ResultsCopied /\ CountsAddUp /\ TypeOK => ResultTells
  <2> SUFFICES ASSUME OnlyNewest, Tallied, ResultsCopied, CountsAddUp, TypeOK,
                      NEW k \in DOMAIN jobs, jobs[k].result # Nothing
               PROVE  LET r == jobs[k].result
                      IN /\ r.ok = Cardinality(Came(k, AnyOutcome \ Failing))
                         /\ r.failures = Came(k, Failing) /\ r.fail = Cardinality(r.failures)
                         /\ r.manual = Came(k, ByHand)
                         /\ r.cancelled \/ r.ok + r.fail = r.total
    BY DEF ResultTells
  <2> DEFINE r == jobs[k].result
  <2>1. /\ ~jobs[k].active
        /\ r.ok = jobs[k].ok /\ r.fail = jobs[k].fail /\ r.total = jobs[k].total
        /\ r.failures = jobs[k].failures /\ r.manual = jobs[k].manual
        /\ r.cancelled = jobs[k].cancel
    BY DEF ResultsCopied, Copied
  <2>2. \A g \in Proxies : worker[k][g].phase = "over"
    BY <2>1 DEF OnlyNewest
  <2>3. \A m \in Macs : ~At(k, m)
    BY <2>2, MacsFinite DEF At
  <2>4. \A set : Counts(k, set) = Came(k, set)
    BY <2>3 DEF Counts, Came
  <2>5. Tally(k)
    BY DEF Tallied
  <2>6. r.cancelled \/ r.ok + r.fail = r.total
    <3>1. Open(k) = {}
      BY <2>2, <2>3, <2>5, MacsFinite DEF Open, Tally
    <3>2. jobs[k].cancel \/ jobs[k].done + 0 = jobs[k].total
      BY <2>5, <3>1, FS_EmptySet DEF Tally
    <3>3. jobs[k].done = jobs[k].ok + jobs[k].fail /\ jobs[k].done \in Nat
      BY DEF CountsAddUp, TypeOK, Jobs
    <3> QED
      BY <2>1, <3>2, <3>3
  <2> QED
    BY <2>1, <2>4, <2>5, <2>6 DEF Tally
<1> QED
  BY <1>1, TellsInvariant, NewestCorrect, CountsCorrect, TypeCorrect, PTL
=============================================================================
