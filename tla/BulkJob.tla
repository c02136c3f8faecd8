------------------------------- MODULE BulkJob -------------------------------
(***************************************************************************)
(* The bulk job of bulk.py: "Read all" and encrypting many devices.  One   *)
(* job record in hass.data, a worker per Bluetooth proxy that goes through *)
(* its devices one after the other, and the commands start, cancel and     *)
(* dismiss, which any panel may send at any time.                          *)
(*                                                                         *)
(* What a device answers is its outcome.  A worker runs without a break    *)
(* from one await to the next: it counts a device and turns to the next    *)
(* one in the same step.  A start that is refused leaves the job alone.    *)
(***************************************************************************)
EXTENDS Integers, FiniteSets

CONSTANTS
  Macs,      \* the devices
  Proxies,   \* the proxies they are read through
  ProxyOf,   \* the proxy of each device
  Actions,   \* what jobs are started for
  Nothing,   \* no job, no device, no outcome, no result
  MaxJobs    \* bound: jobs started

ASSUME BulkAssumption ==
  /\ IsFiniteSet(Macs)
  /\ ProxyOf \in [Macs -> Proxies]
  /\ Actions \subseteq {"read", "enable", "disable"}
  /\ Nothing \notin Macs \union {"ok", "by hand", "unsynced", "behind", "unsure", "failed"}
  /\ MaxJobs \in Nat

VARIABLES
  jobs,     \* the newest job, and those whose workers are still under way
  current,  \* the newest job, which hass.data refers to; 0 when there is none
  worker,   \* where the worker of each proxy is, and the devices left to it
  outcome   \* what each device of a job came to

serverVars == <<jobs, current, worker, outcome>>

JobIds == 1..MaxJobs

(* "by hand": done, but Home Assistant has no BTHome entry to give the key  *)
(* to; "unsynced": done, but updating that entry failed; "behind": plain,   *)
(* but the entry still has the key, which nobody has to enter; "unsure": the *)
(* connection broke halfway, the key may be in use (maybe_changed).         *)
Outcomes(action) ==
  CASE action = "read"    -> {"ok", "failed"}
    [] action = "enable"  -> {"ok", "by hand", "unsynced", "unsure", "failed"}
    [] action = "disable" -> {"ok", "behind", "failed"}

AnyOutcome == {"ok", "by hand", "unsynced", "behind", "unsure", "failed"}
Saved == {"ok", "by hand", "unsynced", "behind"}  \* the device was read back
Failing == {"unsynced", "behind", "unsure", "failed"}  \* counted as failed
ByHand == {"by hand", "unsynced", "unsure"}            \* a key the user must enter

Results == [total : Nat, ok : Nat, fail : Nat, failures : SUBSET Macs,
            cancelled : BOOLEAN, manual : SUBSET Macs]

ASSUME NoResultAssumption == Nothing \notin Results

Jobs == [active : BOOLEAN, action : Actions, cancel : BOOLEAN, total : Nat,
         done : Nat, ok : Nat, fail : Nat, running : SUBSET Macs,
         failures : SUBSET Macs, manual : SUBSET Macs, backups : SUBSET Macs,
         result : Results \union {Nothing}]

Workers == [phase : {"new", "device", "store", "over"}, todo : SUBSET Macs,
            mac : Macs \union {Nothing}]

TypeOK ==
  /\ current \in 0..MaxJobs
  /\ DOMAIN jobs \subseteq 1..current /\ (current # 0 => current \in DOMAIN jobs)
  /\ jobs \in [DOMAIN jobs -> Jobs]
  /\ worker \in [DOMAIN jobs -> [Proxies -> Workers]]
  /\ outcome \in [DOMAIN jobs -> [Macs -> AnyOutcome \union {Nothing}]]

Init ==
  /\ current = 0
  /\ jobs = [k \in {} |-> Nothing]
  /\ worker = [k \in {} |-> Nothing]
  /\ outcome = [k \in {} |-> Nothing]

Busy == current # 0 /\ jobs[current].active

(* The devices the workers of a job are at. *)
AtDevice(k) == {g \in Proxies : worker[k][g].phase \in {"device", "store"}}
UnderWay(k) == {worker[k][g].mac : g \in AtDevice(k)}

(* A new job takes the place of the old one, of which only workers remain   *)
(* that are still under way.                                                *)
Left == {k \in DOMAIN jobs : UnderWay(k) # {}}
Replaced(f, k, v) == [i \in Left \union {k} |-> IF i = k THEN v ELSE f[i]]

-----------------------------------------------------------------------------
(* start: refused while the job is active, or without devices. *)
NewJob(devs, action) ==
  [active |-> TRUE, action |-> action, cancel |-> FALSE, total |-> Cardinality(devs),
   done |-> 0, ok |-> 0, fail |-> 0, running |-> {}, failures |-> {},
   manual |-> {}, backups |-> {}, result |-> Nothing]

GroupWorker(devs, g) ==
  LET group == {m \in devs : ProxyOf[m] = g}
  IN [phase |-> IF group = {} THEN "over" ELSE "new", todo |-> group, mac |-> Nothing]

(* Mutant of Start: whether a job is active is not asked. *)
StartAgain(devs, action) ==
  /\ devs # {} /\ current < MaxJobs
  /\ current' = current + 1
  /\ jobs' = Replaced(jobs, current', NewJob(devs, action))
  /\ worker' = Replaced(worker, current', [g \in Proxies |-> GroupWorker(devs, g)])
  /\ outcome' = Replaced(outcome, current', [m \in Macs |-> Nothing])

Start(devs, action) ==
  /\ ~Busy /\ devs # {} /\ current < MaxJobs
  /\ current' = current + 1
  /\ jobs' = Replaced(jobs, current', NewJob(devs, action))
  /\ worker' = Replaced(worker, current', [g \in Proxies |-> GroupWorker(devs, g)])
  /\ outcome' = Replaced(outcome, current', [m \in Macs |-> Nothing])

StartRefused(devs) == (Busy \/ devs = {}) /\ UNCHANGED serverVars

Cancel ==
  /\ jobs' = IF Busy THEN [jobs EXCEPT ![current].cancel = TRUE] ELSE jobs
  /\ UNCHANGED <<current, worker, outcome>>

Dismiss ==
  /\ jobs' = IF current # 0 /\ ~Busy THEN [jobs EXCEPT ![current].result = Nothing] ELSE jobs
  /\ UNCHANGED <<current, worker, outcome>>

-----------------------------------------------------------------------------
(* worker(devs).  `j` is the job with the counters it already has. *)
Over == [phase |-> "over", todo |-> {}, mac |-> Nothing]
Working(w, m) == [phase |-> "device", todo |-> w.todo \ {m}, mac |-> m]

(* The head of the loop: the next device, unless the job was cancelled. *)
TakeNext(k, g, j) ==
  LET w == worker[k][g]
  IN \/ /\ j.cancel \/ w.todo = {}
        /\ worker' = [worker EXCEPT ![k][g] = Over]
        /\ jobs' = [jobs EXCEPT ![k] = j]
     \/ \E m \in w.todo :
          /\ ~j.cancel
          /\ worker' = [worker EXCEPT ![k][g] = Working(w, m)]
          /\ jobs' = [jobs EXCEPT ![k] = [j EXCEPT !.running = @ \union {m}]]

(* Mutant of Counted: a device Home Assistant did not follow counts twice. *)
CountedTwice(j, m, o) ==
  [j EXCEPT !.running = @ \ {m}, !.done = @ + 1,
            !.ok = IF o \in Failing \ {"unsynced"} THEN @ ELSE @ + 1,
            !.fail = IF o \in Failing THEN @ + 1 ELSE @,
            !.failures = IF o \in Failing THEN @ \union {m} ELSE @]

Counted(j, m, o) ==
  [j EXCEPT !.running = @ \ {m}, !.done = @ + 1,
            !.ok = IF o \in Failing THEN @ ELSE @ + 1,
            !.fail = IF o \in Failing THEN @ + 1 ELSE @,
            !.failures = IF o \in Failing THEN @ \union {m} ELSE @]

(* Mutant of KeyListed: only the keys of changes that worked are listed. *)
KeyListedWhenDone(j, m, o) == [j EXCEPT !.manual = IF o \in ByHand \ {"unsure"} THEN @ \union {m} ELSE @]

KeyListed(j, m, o) == [j EXCEPT !.manual = IF o \in ByHand THEN @ \union {m} ELSE @]

Begin(k, g) ==
  /\ worker[k][g].phase = "new"
  /\ TakeNext(k, g, jobs[k])
  /\ UNCHANGED <<current, outcome>>

(* _read_one and _encrypt_one, their first await over: fields that were     *)
(* read are saved first (_remember), the rest is counted at once.           *)
Answered(k, g) ==
  LET m == worker[k][g].mac
  IN /\ worker[k][g].phase = "device"
     /\ \E o \in Outcomes(jobs[k].action) :
          /\ outcome' = [outcome EXCEPT ![k][m] = o]
          /\ \/ /\ o \in Saved
                /\ worker' = [worker EXCEPT ![k][g].phase = "store"]
                /\ UNCHANGED jobs
             \/ /\ o \notin Saved
                /\ TakeNext(k, g, Counted(KeyListed(jobs[k], m, o), m, o))
     /\ UNCHANGED current

(* Saving the snapshot may fail, which only costs its count. *)
Remembered(k, g) ==
  LET m == worker[k][g].mac
      o == outcome[k][m]
  IN /\ worker[k][g].phase = "store"
     /\ \E saved \in SUBSET {m} :
          LET j == [jobs[k] EXCEPT !.backups = @ \union saved]
          IN TakeNext(k, g, Counted(KeyListed(j, m, o), m, o))
     /\ UNCHANGED <<current, outcome>>

(* _run after its gather. *)
AllOver(k) == \A g \in Proxies : worker[k][g].phase = "over"

(* Mutant of Conclude: the job ends when every device is done. *)
ConcludeWhenDone(k) ==
  LET j == jobs[k]
  IN /\ j.active /\ j.done = j.total
     /\ jobs' = [jobs EXCEPT ![k].active = FALSE,
          ![k].result = [total |-> j.total, ok |-> j.ok, fail |-> j.fail,
                         failures |-> j.failures, cancelled |-> j.cancel,
                         manual |-> j.manual]]
     /\ UNCHANGED <<current, worker, outcome>>

Conclude(k) ==
  LET j == jobs[k]
  IN /\ j.active /\ AllOver(k)
     /\ jobs' = [jobs EXCEPT ![k].active = FALSE,
          ![k].result = [total |-> j.total, ok |-> j.ok, fail |-> j.fail,
                         failures |-> j.failures, cancelled |-> j.cancel,
                         manual |-> j.manual]]
     /\ UNCHANGED <<current, worker, outcome>>

WorkerStep(k, g) == Begin(k, g) \/ Answered(k, g) \/ Remembered(k, g)
JobStep(k) == Conclude(k) \/ \E g \in Proxies : WorkerStep(k, g)

-----------------------------------------------------------------------------
Command ==
  \/ \E devs \in SUBSET Macs : (\E a \in Actions : Start(devs, a)) \/ StartRefused(devs)
  \/ Cancel
  \/ Dismiss

Next == Command \/ \E k \in DOMAIN jobs : JobStep(k)

(* Every await of a worker ends: reading and encrypting have time limits,   *)
(* and saving a snapshot is a write to a file.                              *)
JobFairness ==
  \A k \in JobIds : /\ WF_serverVars(k \in DOMAIN jobs /\ Conclude(k))
                    /\ \A g \in Proxies : WF_serverVars(k \in DOMAIN jobs /\ WorkerStep(k, g))

Spec == Init /\ [][Next]_serverVars /\ JobFairness

-----------------------------------------------------------------------------
(* The counters a panel shows add up at every moment: what is done was      *)
(* counted once, as success or failure, the devices under way are exactly   *)
(* those the workers are at, and both together are no more than there are   *)
(* (bulk.worker, whose counters several workers share).                     *)
CountsAddUp ==
  \A k \in DOMAIN jobs :
    /\ jobs[k].done = jobs[k].ok + jobs[k].fail
    /\ jobs[k].running = UnderWay(k)
    /\ jobs[k].done + Cardinality(jobs[k].running) <= jobs[k].total

(* Only the newest job works: a job that was declared over has no worker    *)
(* left at a device, so the next one starts from nothing (bulk.start, _run). *)
OneJob ==
  \A k \in DOMAIN jobs :
    /\ jobs[k].active => k = current
    /\ ~jobs[k].active => UnderWay(k) = {}

(* The result tells what happened: as many successes and failures as there  *)
(* were, every device that failed, and every key the user has to enter; and *)
(* it leaves no device out unless the job was cancelled (bulk._run).        *)
Came(k, set) == {m \in Macs : outcome[k][m] \in set}

ResultTells ==
  \A k \in DOMAIN jobs :
    LET r == jobs[k].result
    IN r # Nothing =>
         /\ r.ok = Cardinality(Came(k, AnyOutcome \ Failing))
         /\ r.failures = Came(k, Failing) /\ r.fail = Cardinality(r.failures)
         /\ r.manual = Came(k, ByHand)
         /\ r.cancelled \/ r.ok + r.fail = r.total

(* A job ends, whatever the devices answer and whenever it is cancelled. *)
JobEnds == \A k \in JobIds : (k = current /\ Busy) ~> (k < current \/ ~Busy)
=============================================================================
