-------------------------- MODULE BulkPanel_proofs --------------------------
(***************************************************************************)
(* The panels do nothing to the bulk job that its commands would not: what *)
(* holds of BulkJob holds of it under any number of panels that start,     *)
(* follow, cancel and dismiss, are left, refreshed and cut off.            *)
(***************************************************************************)
EXTENDS BulkPanel, BulkJob_proofs

Typed == TypeOK /\ OwnDevices /\ PanelTypeOK

(* What a panel asks for is a command of the job, or nothing. *)
LEMMA PerformIsCommand ==
  ASSUME NEW r \in Requests, Perform(r)
  PROVE  [Next]_serverVars
<1>1. CASE r.type = "start"
  <2>1. r.devs \in SUBSET Macs /\ r.action \in Actions
    BY <1>1 DEF Requests, Poll
  <2>2. Start(r.devs, r.action) \/ StartRefused(r.devs)
    BY <1>1 DEF Perform
  <2> QED
    BY <2>1, <2>2 DEF Next, Command
<1>2. CASE r.type = "cancel"
  BY <1>2 DEF Perform, Next, Command
<1>3. CASE r.type = "dismiss"
  BY <1>3 DEF Perform, Next, Command
<1>4. CASE r.type = "status"
  BY <1>4 DEF Perform
<1> QED
  BY <1>1, <1>2, <1>3, <1>4 DEF Requests, Poll

(* Every step of the composition is one of the job, or leaves it alone. *)
LEMMA StepOfJob == Typed /\ [PanelNext]_allVars => [Next]_serverVars
<1> SUFFICES ASSUME Typed, [PanelNext]_allVars PROVE [Next]_serverVars
  OBVIOUS
<1>1. ASSUME NEW p \in Panels, Handle(p) PROVE [Next]_serverVars
  <2>1. Head(requests[p]) \in Requests
    BY <1>1 DEF Handle, Typed, PanelTypeOK
  <2>2. Perform(Head(requests[p]))
    BY <1>1 DEF Handle
  <2> QED
    BY <2>1, <2>2, PerformIsCommand
<1>2. ASSUME NEW p \in Panels, PanelStep(p), ~Handle(p) PROVE UNCHANGED serverVars
  BY <1>2 DEF PanelStep, Tick, Started, Polled, OpenPicker, CloseDialog, Click, ClickCancel,
              Leave, Return, Refresh, Drop
<1>3. CASE \E k \in DOMAIN jobs : JobStep(k)
  BY <1>3 DEF Next
<1>4. CASE UNCHANGED allVars
  BY <1>4 DEF allVars
<1> QED
  BY <1>1, <1>2, <1>3, <1>4 DEF PanelNext

-----------------------------------------------------------------------------
LEMMA JobIdOrNone == PanelTypeOK /\ TypeOK => Waiting \in JobIds \union {NoJob} /\ Status \in Answers
<1> SUFFICES ASSUME TypeOK PROVE Waiting \in JobIds \union {NoJob} /\ Status \in Answers
  OBVIOUS
<1>1. Waiting \in JobIds \union {NoJob}
  <2>1. current \in 0..MaxJobs /\ MaxJobs \in Nat
    BY BulkAssumption DEF TypeOK
  <2>2. current # 0 => current \in JobIds
    BY <2>1 DEF JobIds
  <2> QED
    BY <2>2 DEF Waiting
<1>2. Busy \in BOOLEAN
  BY DEF Busy, TypeOK, Jobs
<1> QED
  BY <1>1, <1>2 DEF Status, Answers

(* The bound on breaks only ever goes down. *)
LEMMA BudgetShrinks ==
  ASSUME PanelTypeOK, Break
  PROVE  budget' \in 0..MaxBreaks
BY PanelAssumption DEF PanelTypeOK, Break

(* A request at the end of a panel's queue. *)
LEMMA Sending ==
  ASSUME PanelTypeOK, NEW p \in Panels, NEW r \in Requests
  PROVE  [requests EXCEPT ![p] = Append(@, r)] \in [Panels -> Seq(Requests)]
BY DEF PanelTypeOK

LEMMA TypedStep == Typed /\ [PanelNext]_allVars => Typed'
<1> SUFFICES ASSUME Typed, [PanelNext]_allVars PROVE Typed'
  OBVIOUS
<1> USE DEF Typed
<1>1. TypeOK' /\ OwnDevices'
  BY StepOfJob, TypeStep
<1>2. PanelTypeOK'
  <2>1. Poll \in Requests /\ [type |-> "cancel"] \in Requests /\ [type |-> "dismiss"] \in Requests
    BY DEF Requests, Poll
  <2>2. ASSUME NEW p \in Panels, Tick(p) PROVE PanelTypeOK'
    BY <2>1, <2>2, Sending DEF Tick, history, PanelTypeOK
  <2>3. ASSUME NEW p \in Panels, Handle(p) PROVE PanelTypeOK'
    <3> DEFINE r == Head(requests[p])
    <3>1. r \in Requests /\ Tail(requests[p]) \in Seq(Requests)
      BY <2>3 DEF Handle, history, PanelTypeOK
    <3>2. AnswerTo(r) \in Seq(Answers)
      <4>1. [type |-> "started", job |-> IF current' = current THEN NoJob ELSE current'] \in Answers
        BY <1>1, BoundType DEF Answers, TypeOK, JobIds, NoJob
      <4>2. Status \in Answers
        BY JobIdOrNone
      <4> QED
        BY <3>1, <4>1, <4>2 DEF AnswerTo, Requests, Poll
    <3>3. requests' \in [Panels -> Seq(Requests)]
      BY <2>3, <3>1 DEF Handle, history, PanelTypeOK
    <3>4. answers' \in [Panels -> Seq(Answers)]
      BY <2>3, <3>2 DEF Handle, history, PanelTypeOK
    <3> QED
      BY <2>3, <3>3, <3>4 DEF Handle, history, PanelTypeOK
  <2>4. ASSUME NEW p \in Panels, Started(p) PROVE PanelTypeOK'
    <3>1. answers' \in [Panels -> Seq(Answers)]
      BY <2>4 DEF Started, PanelTypeOK
    <3>2. requests' \in [Panels -> Seq(Requests)]
      BY <2>1, <2>4 DEF Started, StartPolling, PanelTypeOK
    <3>3. panel' \in [Panels -> PanelStates]
      BY <2>4 DEF Started, PanelTypeOK, PanelStates
    <3>4. own' \in [Panels -> JobIds \union {NoJob}]
      <4>1. Head(answers[p]) \in Answers /\ Head(answers[p]).type = "started"
        BY <2>4 DEF Started, PanelTypeOK
      <4>2. Head(answers[p]).job \in JobIds \union {NoJob}
        BY <4>1 DEF Answers
      <4> QED
        BY <2>4, <4>2 DEF Started, PanelTypeOK
    <3> QED
      BY <2>4, <3>1, <3>2, <3>3, <3>4 DEF Started, PanelTypeOK
  <2>5. ASSUME NEW p \in Panels, Polled(p) PROVE PanelTypeOK'
    <3> DEFINE a == Head(answers[p])
    <3>1. a \in Answers /\ a.type = "status" /\ Tail(answers[p]) \in Seq(Answers)
      BY <2>5 DEF Polled, PanelTypeOK
    <3>2. a.active \in BOOLEAN /\ a.result \in JobIds \union {NoJob}
      BY <3>1 DEF Answers
    <3>3. answers' \in [Panels -> Seq(Answers)]
      BY <2>5, <3>1 DEF Polled, PanelTypeOK
    <3>4. requests' \in [Panels -> Seq(Requests)]
      BY <2>1, <2>5 DEF Polled, PanelTypeOK
    <3>5. Shows(p, a) \in BOOLEAN /\ Stops(p, a) \in BOOLEAN
      BY <3>2 DEF Shows, Stops, PanelTypeOK, PanelStates
    <3>6. panel' \in [Panels -> PanelStates]
      <4>1. panel[p] \in PanelStates
        BY DEF PanelTypeOK
      <4>2. [panel[p] EXCEPT !.active = a.active,
                             !.shown = @ \/ Shows(p, a),
                             !.dialog = IF Shows(p, a) THEN a.result ELSE @,
                             !.polling = @ /\ ~Stops(p, a)] \in PanelStates
        BY <3>2, <3>5, <4>1 DEF PanelStates
      <4>3. panel' = [panel EXCEPT ![p] =
               [panel[p] EXCEPT !.active = a.active,
                                !.shown = @ \/ Shows(p, a),
                                !.dialog = IF Shows(p, a) THEN a.result ELSE @,
                                !.polling = @ /\ ~Stops(p, a)]]
        BY <2>5, <4>1 DEF Polled, PanelTypeOK, PanelStates
      <4> QED
        BY <4>2, <4>3 DEF PanelTypeOK
    <3>7. seen' \subseteq JobIds
      BY <2>5, <3>2 DEF Polled, Shows, PanelTypeOK
    <3>8. late' \in BOOLEAN
      BY <2>5 DEF Polled, PanelTypeOK
    <3> QED
      BY <2>5, <3>3, <3>4, <3>6, <3>7, <3>8 DEF Polled, PanelTypeOK
  <2>6. ASSUME NEW p \in Panels, OpenPicker(p) \/ CloseDialog(p) PROVE PanelTypeOK'
    <3>1. panel[p] \in PanelStates
      BY DEF PanelTypeOK
    <3>2. /\ [panel[p] EXCEPT !.dialog = Picker] \in PanelStates
          /\ [panel[p] EXCEPT !.dialog = NoJob] \in PanelStates
      BY <3>1 DEF PanelStates
    <3>3. panel' \in [Panels -> PanelStates]
      BY <2>6, <3>2 DEF OpenPicker, CloseDialog, history, PanelTypeOK
    <3> QED
      BY <2>6, <3>3 DEF OpenPicker, CloseDialog, history, PanelTypeOK
  <2>7. ASSUME NEW p \in Panels, Click(p) PROVE PanelTypeOK'
    <3>1. PICK devs \in SUBSET Macs, a \in Actions :
            requests' = [requests EXCEPT ![p] =
                           Append(@, [type |-> "start", devs |-> devs, action |-> a])]
      BY <2>7 DEF Click
    <3>2. [type |-> "start", devs |-> devs, action |-> a] \in Requests
      BY <3>1 DEF Requests
    <3>3. requests' \in [Panels -> Seq(Requests)]
      BY <3>1, <3>2, Sending
    <3> QED
      BY <2>7, <3>3 DEF Click, history, PanelTypeOK, PanelStates
  <2>8. ASSUME NEW p \in Panels, ClickCancel(p) PROVE PanelTypeOK'
    <3>1. <<[type |-> "cancel"], Poll>> \in Seq(Requests)
      BY <2>1
    <3> QED
      BY <2>8, <3>1 DEF ClickCancel, history, PanelTypeOK
  <2>9. ASSUME NEW p \in Panels, Leave(p) PROVE PanelTypeOK'
    <3>1. budget' \in 0..MaxBreaks
      BY <2>9, BudgetShrinks DEF Leave
    <3>2. [panel[p] EXCEPT !.here = FALSE, !.polling = FALSE] \in PanelStates
      BY DEF PanelTypeOK, PanelStates
    <3>3. panel' = [panel EXCEPT ![p] = [panel[p] EXCEPT !.here = FALSE, !.polling = FALSE]]
      BY <2>9 DEF Leave, history, PanelTypeOK, PanelStates
    <3> QED
      BY <2>9, <3>1, <3>2, <3>3 DEF Leave, history, PanelTypeOK
  <2>13. ASSUME NEW p \in Panels, Drop(p) PROVE PanelTypeOK'
    <3>1. budget' \in 0..MaxBreaks
      BY <2>13, BudgetShrinks DEF Drop
    <3>2. <<>> \in Seq(Requests) /\ <<>> \in Seq(Answers)
      OBVIOUS
    <3> QED
      BY <2>13, <3>1, <3>2 DEF Drop, history, PanelTypeOK
  <2>10. ASSUME NEW p \in Panels, Return(p) PROVE PanelTypeOK'
    <3>1. requests' \in [Panels -> Seq(Requests)]
      BY <2>1, <2>10 DEF Return, StartPolling, PanelTypeOK
    <3>2. panel' \in [Panels -> PanelStates]
      BY <2>10 DEF Return, PanelTypeOK, PanelStates
    <3>4. seen' \subseteq JobIds
      BY <2>10 DEF Return, PanelTypeOK
    <3> QED
      BY <2>10, <3>1, <3>2, <3>4 DEF Return, PanelTypeOK
  <2>11. ASSUME NEW p \in Panels, Refresh(p) PROVE PanelTypeOK'
    <3>1. Fresh \in PanelStates
      BY DEF Fresh, PanelStates
    <3>2. budget' \in 0..MaxBreaks
      BY <2>11, BudgetShrinks DEF Refresh
    <3> QED
      BY <2>1, <2>11, <3>1, <3>2 DEF Refresh, history, PanelTypeOK
  <2>12. CASE UNCHANGED panelVars
    BY <2>12 DEF panelVars, history, PanelTypeOK
  <2> QED
    BY <2>2, <2>3, <2>4, <2>5, <2>6, <2>7, <2>8, <2>9, <2>10, <2>11, <2>12,
       <2>13
       DEF PanelNext, PanelStep, allVars
<1> QED
  BY <1>1, <1>2

(* Every variable of the panels keeps its type. *)
THEOREM PanelTypeCorrect == PanelSpec => []Typed
<1>1. PanelInit => Typed
  <2> SUFFICES ASSUME PanelInit PROVE Typed
    OBVIOUS
  <2>1. TypeOK /\ OwnDevices
    BY TypeInit DEF PanelInit
  <2>2. Fresh \in PanelStates /\ <<Poll>> \in Seq(Requests)
    BY DEF Fresh, PanelStates, Requests, Poll
  <2>3. budget \in 0..MaxBreaks
    BY PanelAssumption DEF PanelInit
  <2>4. own \in [Panels -> JobIds \union {NoJob}] /\ late \in BOOLEAN /\ seen \subseteq JobIds
    BY DEF PanelInit
  <2>5. /\ panel \in [Panels -> PanelStates] /\ requests \in [Panels -> Seq(Requests)]
        /\ answers \in [Panels -> Seq(Answers)]
    BY <2>2 DEF PanelInit
  <2> QED
    BY <2>1, <2>3, <2>4, <2>5 DEF Typed, PanelTypeOK
<1> QED
  BY <1>1, TypedStep, PTL DEF PanelSpec

(* The composition implements the specification of the job alone, whatever  *)
(* the panels do and however many there are: all that is proved of the job  *)
(* holds of it.                                                             *)
THEOREM PanelsRunTheJob == PanelSpec => Spec
<1>1. PanelInit => Init
  BY DEF PanelInit
<1> QED
  BY <1>1, StepOfJob, PanelTypeCorrect, PTL DEF PanelSpec, Spec

(* With any panels, the counters of a job add up, one job works at a time,  *)
(* and a result tells what happened.                                        *)
THEOREM JobCorrect == PanelSpec => [](CountsAddUp /\ OneJob /\ ResultTells)
BY PanelsRunTheJob, CountsCorrect, OneJobCorrect, ResultCorrect, PTL


-----------------------------------------------------------------------------
(* In the answers on their way to a panel: after that to the start of job k, *)
(* every status tells of an active job.                                      *)
IsActive(a) == a.type = "status" => a.active
TellsStart(a, k) == a.type = "started" /\ a.job = k

ActiveAfterStart(s, k) ==
  \A i, j \in DOMAIN s : i < j /\ TellsStart(s[i], k) => IsActive(s[j])

(* Why a panel that started the job at work goes on polling: nothing that    *)
(* would stop it is on its way, now or after the answer to its start.        *)
Follows(p) ==
  /\ own[p] <= current
  /\ \A i \in DOMAIN answers[p] : answers[p][i].type = "started" => answers[p][i].job <= current
  /\ Busy => ActiveAfterStart(answers[p], current)
  /\ Busy /\ own[p] = current =>
       /\ panel[p].here => panel[p].polling
       /\ \A i \in DOMAIN answers[p] : IsActive(answers[p][i])

AllFollow == \A p \in Panels : Follows(p)

(* Answers come in the order the requests were handled in.                   *)
LEMMA TailIs ==
  ASSUME NEW S, NEW s \in Seq(S), s # <<>>
  PROVE  /\ 1 \in DOMAIN s /\ Head(s) = s[1]
         /\ \A i \in DOMAIN Tail(s) : i \in Nat /\ i + 1 \in DOMAIN s /\ 1 < i + 1 /\ Tail(s)[i] = s[i + 1]
OBVIOUS

LEMMA AppendIs ==
  ASSUME NEW S, NEW s \in Seq(S), NEW x \in S
  PROVE  /\ \A i \in DOMAIN (s \o <<x>>) : i \in DOMAIN s \/ i = Len(s) + 1
         /\ \A i \in DOMAIN s : i \in Nat /\ i < Len(s) + 1 /\ (s \o <<x>>)[i] = s[i]
         /\ (s \o <<x>>)[Len(s) + 1] = x
OBVIOUS

(* What the server does to the newest job, as far as a follower can tell.    *)
LEMMA NewestIs ==
  ASSUME Typed, [Next]_serverVars
  PROVE  \/ current' = current /\ (Busy' => Busy)
         \/ ~Busy /\ current' = current + 1
<1>1. CASE Command
  <2>1. CASE \E devs \in SUBSET Macs : \E a \in Actions : Start(devs, a)
    BY <2>1 DEF Start
  <2>2. CASE \E devs \in SUBSET Macs : StartRefused(devs)
    BY <2>2 DEF StartRefused, serverVars, Busy
  <2>3. CASE Cancel \/ Dismiss
    <3>1. current # 0 => current \in DOMAIN jobs
      BY DEF Typed, TypeOK
    <3>2. current' = current
      BY <2>3 DEF Cancel, Dismiss
    <3>3. CASE current = 0
      BY <3>2, <3>3 DEF Busy
    <3>4. CASE current # 0
      <4>1. current \in DOMAIN jobs /\ jobs[current] \in Jobs
        BY <3>1, <3>4 DEF Typed, TypeOK
      <4>2. jobs'[current].active = jobs[current].active
        BY <2>3, <4>1 DEF Cancel, Dismiss, Jobs
      <4> QED
        BY <3>2, <4>2 DEF Busy
    <3> QED
      BY <3>2, <3>3, <3>4
  <2> QED
    BY <1>1, <2>1, <2>2, <2>3 DEF Command
<1>2. CASE \E k \in DOMAIN jobs : JobStep(k)
  BY <1>2, JobStepNewest, BoundType DEF Typed, TypeOK
<1>3. CASE UNCHANGED serverVars
  BY <1>3 DEF serverVars, Busy
<1> QED
  BY <1>1, <1>2, <1>3 DEF Next

(* A panel nothing happens to, while the server goes on.                     *)
LEMMA FollowsOn ==
  ASSUME Typed, NEW p \in Panels, Follows(p), [Next]_serverVars,
         own'[p] = own[p], answers'[p] = answers[p],
         panel'[p].here = panel[p].here, panel'[p].polling = panel[p].polling
  PROVE  Follows(p)'
<1>1. own[p] \in Nat /\ current \in Nat
  BY BoundType DEF Typed, TypeOK, PanelTypeOK, JobIds, NoJob
<1>2. \A i \in DOMAIN answers[p] : answers[p][i].type = "started" => answers[p][i].job \in Nat
  BY BoundType DEF Typed, PanelTypeOK, Answers, JobIds, NoJob
<1>3. CASE current' = current /\ (Busy' => Busy)
  BY <1>3 DEF Follows
<1>4. CASE ~Busy /\ current' = current + 1
  BY <1>1, <1>2, <1>4 DEF Follows, ActiveAfterStart, TellsStart
<1> QED
  BY <1>3, <1>4, NewestIs

(* A panel whose answers were lost, or that was attached anew.               *)
LEMMA FollowsAnew ==
  ASSUME NEW p \in Panels, Follows(p), UNCHANGED serverVars, own'[p] = own[p],
         answers'[p] = <<>>,
         panel'[p].here => panel'[p].polling \/ (panel[p].here /\ panel'[p].polling = panel[p].polling)
  PROVE  Follows(p)'
<1>1. Busy' = Busy /\ current' = current
  BY DEF serverVars, Busy
<1>2. DOMAIN answers'[p] = {}
  OBVIOUS
<1> QED
  BY <1>1, <1>2 DEF Follows, ActiveAfterStart

(* The server's answer to a request of the panel.                            *)
LEMMA HandleFollows ==
  ASSUME Typed, NEW p \in Panels, Follows(p), Handle(p)
  PROVE  Follows(p)'
<1> DEFINE s == answers[p]
           r == Head(requests[p])
<1>1. /\ r \in Requests /\ Perform(r) /\ s \in Seq(Answers)
      /\ UNCHANGED <<panel, own>>
      /\ answers'[p] = s \o AnswerTo(r)
  BY DEF Handle, Typed, PanelTypeOK, history
<1>2. [Next]_serverVars
  BY <1>1, PerformIsCommand
<1>3. /\ current \in Nat /\ current' \in Nat /\ own[p] \in Nat
      /\ \A i \in DOMAIN s : s[i].type = "started" => s[i].job \in Nat
  <2>1. current \in Nat /\ own[p] \in Nat
    BY BoundType DEF Typed, TypeOK, PanelTypeOK, JobIds, NoJob
  <2>2. current' \in Nat
    BY <1>2, <2>1, NewestIs
  <2>3. ASSUME NEW i \in DOMAIN s, s[i].type = "started" PROVE s[i].job \in Nat
    <3>1. s[i] \in Answers
      BY <1>1
    <3> QED
      BY <2>3, <3>1, BoundType DEF Answers, JobIds, NoJob
  <2> QED
    BY <2>1, <2>2, <2>3
<1>4. CASE r.type = "start"
  <2> DEFINE x == [type |-> "started", job |-> IF current' = current THEN NoJob ELSE current']
  <2>0. x \in Answers
    <3>1. TypeOK'
      BY <1>2, TypeStep DEF Typed
    <3> QED
      BY <3>1, BoundType DEF TypeOK, Answers, JobIds, NoJob
  <2>1. answers'[p] = s \o <<x>>
    BY <1>1, <1>4 DEF AnswerTo
  <2>2. /\ \A i \in DOMAIN answers'[p] : i \in DOMAIN s \/ i = Len(s) + 1
        /\ \A i \in DOMAIN s : i \in Nat /\ i < Len(s) + 1 /\ answers'[p][i] = s[i]
        /\ answers'[p][Len(s) + 1] = x
        /\ Len(s) \in Nat
    <3> HIDE DEF s, x
    <3> QED
      BY <1>1, <2>0, <2>1, AppendIs
  <2>3. CASE current' = current /\ (Busy' => Busy)
    <3>1. x.type = "started" /\ x.job = 0
      BY <2>3 DEF NoJob
    <3>2. Busy => current # 0
      BY DEF Busy
    <3>3. \A i \in DOMAIN answers'[p] : answers'[p][i].type = "started" => answers'[p][i].job <= current'
      BY <1>3, <2>2, <2>3, <3>1 DEF Follows
    <3>4. Busy' => ActiveAfterStart(answers'[p], current')
      BY <2>2, <2>3, <3>1, <3>2 DEF Follows, ActiveAfterStart, TellsStart, IsActive
    <3>5. Busy' /\ own'[p] = current' =>
            /\ panel'[p].here => panel'[p].polling
            /\ \A i \in DOMAIN answers'[p] : IsActive(answers'[p][i])
      BY <1>1, <2>2, <2>3, <3>1 DEF Follows, IsActive
    <3> QED
      BY <1>1, <2>3, <3>3, <3>4, <3>5 DEF Follows
  <2>4. CASE ~Busy /\ current' = current + 1
    <3>1. x.type = "started" /\ x.job = current'
      BY <1>3, <2>4
    <3>2. \A i \in DOMAIN s : s[i].type = "started" => s[i].job < current'
      BY <1>3, <2>4 DEF Follows
    <3>3. own'[p] < current'
      BY <1>1, <1>3, <2>4 DEF Follows
    <3>4. \A i \in DOMAIN answers'[p] : answers'[p][i].type = "started" => answers'[p][i].job <= current'
      BY <1>3, <2>2, <3>1, <3>2
    <3>5. ActiveAfterStart(answers'[p], current')
      BY <1>3, <2>2, <3>1, <3>2 DEF ActiveAfterStart, TellsStart
    <3>6. own'[p] <= current' /\ own'[p] # current'
      BY <1>1, <1>3, <3>3
    <3> QED
      BY <3>4, <3>5, <3>6 DEF Follows
  <2> QED
    BY <1>2, <2>3, <2>4, NewestIs
<1>5. CASE r.type = "status"
  <2>1. answers'[p] = s \o <<Status>> /\ UNCHANGED serverVars /\ Status \in Answers
    <3>1. UNCHANGED serverVars
      BY <1>1, <1>5 DEF Perform
    <3> QED
      BY <1>1, <1>5, <3>1, JobIdOrNone DEF AnswerTo, Typed
  <2>2. /\ \A i \in DOMAIN answers'[p] : i \in DOMAIN s \/ i = Len(s) + 1
        /\ \A i \in DOMAIN s : i \in Nat /\ i < Len(s) + 1 /\ answers'[p][i] = s[i]
        /\ answers'[p][Len(s) + 1] = Status
        /\ Len(s) \in Nat
    <3> HIDE DEF s
    <3> QED
      BY <1>1, <2>1, AppendIs
  <2>3. Busy' = Busy /\ current' = current
    BY <2>1 DEF serverVars, Busy
  <2>4. Status.type = "status" /\ (Busy => IsActive(Status))
    BY DEF Status, IsActive
  <2>5. \A i \in DOMAIN answers'[p] : answers'[p][i].type = "started" => answers'[p][i].job <= current'
    BY <2>2, <2>3, <2>4 DEF Follows
  <2>6. Busy' => ActiveAfterStart(answers'[p], current')
    BY <2>2, <2>3, <2>4 DEF Follows, ActiveAfterStart, TellsStart
  <2>7. Busy' /\ own'[p] = current' =>
          /\ panel'[p].here => panel'[p].polling
          /\ \A i \in DOMAIN answers'[p] : IsActive(answers'[p][i])
    BY <1>1, <2>2, <2>3, <2>4 DEF Follows
  <2> QED
    BY <1>1, <2>3, <2>5, <2>6, <2>7 DEF Follows
<1>6. CASE r.type \in {"cancel", "dismiss"}
  <2>1. answers'[p] = s
    <3>1. AnswerTo(r) = <<>>
      BY <1>6 DEF AnswerTo
    <3> HIDE DEF s, r
    <3> QED
      BY <1>1, <3>1
  <2> QED
    BY <1>1, <1>2, <2>1, FollowsOn
<1> QED
  BY <1>1, <1>4, <1>5, <1>6 DEF Requests, Poll

(* An answer reaches the panel.                                              *)
LEMMA AnswerFollows ==
  ASSUME Typed, NEW p \in Panels, Follows(p), Started(p) \/ Polled(p)
  PROVE  Follows(p)'
<1> DEFINE s == answers[p]
           a == Head(s)
<1>1. /\ s \in Seq(Answers) /\ s # <<>> /\ answers'[p] = Tail(s) /\ UNCHANGED serverVars
      /\ panel[p] \in PanelStates
  BY DEF Started, Polled, Typed, PanelTypeOK
<1>2. /\ 1 \in DOMAIN s /\ a = s[1] /\ a \in Answers
      /\ \A i \in DOMAIN answers'[p] :
           i \in Nat /\ i + 1 \in DOMAIN s /\ 1 < i + 1 /\ answers'[p][i] = s[i + 1]
  BY <1>1, TailIs
<1>3. Busy' = Busy /\ current' = current
  BY <1>1 DEF serverVars, Busy
<1>4. \A i \in DOMAIN answers'[p] : answers'[p][i].type = "started" => answers'[p][i].job <= current'
  BY <1>2, <1>3 DEF Follows
<1>5. Busy' => ActiveAfterStart(answers'[p], current')
  <2> SUFFICES ASSUME Busy, NEW i \in DOMAIN answers'[p], NEW j \in DOMAIN answers'[p], i < j,
                      TellsStart(answers'[p][i], current)
               PROVE  IsActive(answers'[p][j])
    BY <1>3 DEF ActiveAfterStart
  <2>1. i + 1 < j + 1
    BY <1>2
  <2> QED
    BY <1>2, <2>1 DEF Follows, ActiveAfterStart
<1>6. CASE Started(p)
  <2>1. a.type = "started" /\ panel'[p].polling
    BY <1>1, <1>6 DEF Started, Typed, PanelTypeOK, PanelStates
  <2>2. own'[p] = IF a.job = NoJob THEN own[p] ELSE a.job
    BY <1>6 DEF Started, Typed, PanelTypeOK
  <2>3. a.job <= current /\ own'[p] <= current'
    BY <1>2, <1>3, <2>1, <2>2 DEF Follows
  <2>4. Busy' /\ own'[p] = current' => \A i \in DOMAIN answers'[p] : IsActive(answers'[p][i])
    BY <1>2, <1>3, <2>1, <2>2 DEF Follows, ActiveAfterStart, TellsStart
  <2> QED
    BY <1>4, <1>5, <2>1, <2>3, <2>4 DEF Follows
<1>7. CASE Polled(p)
  <2>1. /\ a.type = "status" /\ own' = own
        /\ panel'[p].here = panel[p].here
        /\ panel'[p].polling = (panel[p].polling /\ ~Stops(p, a))
    BY <1>1, <1>7 DEF Polled, Typed, PanelTypeOK, PanelStates
  <2>2. Busy' /\ own'[p] = current' => /\ panel'[p].here => panel'[p].polling
                                       /\ \A i \in DOMAIN answers'[p] : IsActive(answers'[p][i])
    BY <1>2, <1>3, <2>1 DEF Follows, IsActive, Stops
  <2> QED
    BY <1>3, <1>4, <1>5, <2>1, <2>2 DEF Follows
<1> QED
  BY <1>6, <1>7

LEMMA FollowStep == Typed /\ AllFollow /\ [PanelNext]_allVars => AllFollow'
<1> SUFFICES ASSUME Typed, AllFollow, [PanelNext]_allVars, NEW p \in Panels PROVE Follows(p)'
  BY DEF AllFollow
<1>1. Follows(p) /\ [Next]_serverVars
  BY StepOfJob DEF AllFollow
<1>2. ASSUME NEW q \in Panels, PanelStep(q), q # p PROVE Follows(p)'
  <2>1. own'[p] = own[p] /\ answers'[p] = answers[p] /\ panel'[p] = panel[p]
    BY <1>2 DEF PanelStep, Tick, Handle, Started, Polled, OpenPicker, CloseDialog, Click, ClickCancel,
                Leave, Return, Refresh, Drop, history, Typed, PanelTypeOK
  <2> QED
    BY <1>1, <2>1, FollowsOn
<1>3. ASSUME PanelStep(p) PROVE Follows(p)'
  <2>1. CASE Tick(p) \/ OpenPicker(p) \/ CloseDialog(p) \/ Click(p) \/ ClickCancel(p)
    <3>1. /\ own' = own /\ answers' = answers
          /\ panel'[p].here = panel[p].here /\ panel'[p].polling = panel[p].polling
      BY <2>1 DEF Tick, OpenPicker, CloseDialog, Click, ClickCancel, history, Typed, PanelTypeOK, PanelStates
    <3> QED
      BY <1>1, <3>1, FollowsOn
  <2>2. CASE Handle(p)
    BY <1>1, <2>2, HandleFollows
  <2>3. CASE Started(p) \/ Polled(p)
    BY <1>1, <2>3, AnswerFollows
  <2>4. CASE Leave(p) \/ Return(p)
    <3>1. /\ own' = own /\ answers' = answers /\ UNCHANGED serverVars
          /\ panel'[p].here => panel'[p].polling
      BY <2>4 DEF Leave, Return, history, Typed, PanelTypeOK, PanelStates
    <3>2. Busy' = Busy /\ current' = current
      BY <3>1 DEF serverVars, Busy
    <3> QED
      BY <1>1, <3>1, <3>2 DEF Follows
  <2>5. CASE Refresh(p) \/ Drop(p)
    <3>1. /\ own' = own /\ answers'[p] = <<>> /\ UNCHANGED serverVars
          /\ panel'[p].here => panel'[p].polling \/ (panel[p].here /\ panel'[p].polling = panel[p].polling)
      BY <2>5 DEF Refresh, Drop, Fresh, history, Typed, PanelTypeOK, PanelStates
    <3> QED
      BY <1>1, <3>1, FollowsAnew
  <2> QED
    BY <1>3, <2>1, <2>2, <2>3, <2>4, <2>5 DEF PanelStep
<1>4. CASE UNCHANGED panelVars
  <2>1. own' = own /\ answers' = answers /\ panel' = panel
    BY <1>4 DEF panelVars, history
  <2> QED
    BY <1>1, <2>1, FollowsOn
<1> QED
  BY <1>2, <1>3, <1>4 DEF PanelNext, allVars

(* Whoever started the job that runs goes on following it, for any number of *)
(* panels and jobs, polls that overlap, refreshes and lost connections       *)
(* (_startBulk, _bulkPoll).                                                  *)
THEOREM ProgressCorrect == PanelSpec => []OwnProgressFollowed
<1>1. PanelInit => AllFollow
  BY DEF PanelInit, Init, AllFollow, Follows, ActiveAfterStart, Busy, NoJob
<1>2. AllFollow => OwnProgressFollowed
  BY DEF AllFollow, Follows, OwnProgressFollowed
<1> QED
  BY <1>1, <1>2, FollowStep, PanelTypeCorrect, PTL DEF PanelSpec
=============================================================================
