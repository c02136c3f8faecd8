------------------------------ MODULE BulkPanel ------------------------------
(***************************************************************************)
(* Panels that start, follow and cancel the bulk job (BulkJob): polling in *)
(* www/telink-manager-panel.js, _startBulk to _bulkPoll, and the element's *)
(* connectedCallback and disconnectedCallback.                             *)
(*                                                                         *)
(* A panel has a WebSocket connection of its own: the server takes its     *)
(* requests in order, and its answers come back in order, some time later. *)
(* Answers of cancel and dismiss are not looked at, and left out.          *)
(*                                                                         *)
(* Leaving the page within Home Assistant detaches the element, which may  *)
(* be used again; answers it awaits still reach it.  Reloading the page    *)
(* makes a new element.                                                    *)
(***************************************************************************)
EXTENDS BulkJob, Sequences

CONSTANTS
  Panels,       \* browser tabs with the panel open
  Roaming,      \* those whose user goes to other pages and comes back
  Reloading,    \* those whose user reloads the page
  Losing,       \* those whose connection is lost at times
  MaxInFlight,  \* bound, of each panel: answers it awaits when it asks or its user acts
  MaxBreaks     \* bound: pages left or reloaded, connections lost

ASSUME PanelAssumption ==
  /\ Roaming \union Reloading \union Losing \subseteq Panels
  /\ MaxInFlight \in [Panels -> Nat]
  /\ MaxBreaks \in Nat

VARIABLES
  panel,     \* the state of each element
  requests,  \* sent by each panel, not handled by the server yet
  answers,   \* sent to each panel, not handled there yet
  seen,      \* history: jobs whose result a user had in front of them
  own,       \* history: the last job each panel was told it has started
  late,      \* history: some result was shown while a start of its panel was on its way
  budget     \* breaks still allowed

history == <<seen, own, late>>
panelVars == <<panel, requests, answers, history, budget>>
allVars == <<serverVars, panelVars>>

NoJob == 0
Picker == -1

PanelStates ==
  [here : BOOLEAN,      \* attached to the page
   polling : BOOLEAN,   \* _bulkPollTimer
   shown : BOOLEAN,     \* _bulkResultShown
   active : BOOLEAN,    \* _bulkStatus.active: the progress strip is up
   dialog : JobIds \union {NoJob, Picker}]  \* a result, or devices to choose from

Poll == [type |-> "status"]
Requests == {Poll, [type |-> "cancel"], [type |-> "dismiss"]}
            \union [type : {"start"}, devs : SUBSET Macs, action : Actions]
Answers == [type : {"started"}, job : JobIds \union {NoJob}]  \* none: refused
           \union [type : {"status"}, active : BOOLEAN, result : JobIds \union {NoJob}]

PanelTypeOK ==
  /\ panel \in [Panels -> PanelStates]
  /\ requests \in [Panels -> Seq(Requests)]
  /\ answers \in [Panels -> Seq(Answers)]
  /\ seen \subseteq JobIds /\ late \in BOOLEAN
  /\ own \in [Panels -> JobIds \union {NoJob}]
  /\ budget \in 0..MaxBreaks

(* A new element, which starts polling when it is attached. *)
Fresh == [here |-> TRUE, polling |-> TRUE, shown |-> FALSE, active |-> FALSE, dialog |-> NoJob]

PanelInit ==
  /\ Init
  /\ panel = [p \in Panels |-> Fresh]
  /\ requests = [p \in Panels |-> <<Poll>>]
  /\ answers = [p \in Panels |-> <<>>]
  /\ seen = {} /\ late = FALSE
  /\ own = [p \in Panels |-> NoJob]
  /\ budget = MaxBreaks

Awaited(p) == Len(requests[p]) + Len(answers[p])

-----------------------------------------------------------------------------
(* The server handles the next request of a panel. *)
Waiting == IF current # 0 /\ jobs[current].result # Nothing THEN current ELSE NoJob
Status == [type |-> "status", active |-> Busy, result |-> Waiting]

Perform(r) ==
  CASE r.type = "start" -> Start(r.devs, r.action) \/ StartRefused(r.devs)
    [] r.type = "cancel" -> Cancel
    [] r.type = "dismiss" -> Dismiss
    [] r.type = "status" -> UNCHANGED serverVars

AnswerTo(r) ==
  CASE r.type = "start" -> <<[type |-> "started", job |-> IF current' = current THEN NoJob ELSE current']>>
    [] r.type = "status" -> <<Status>>
    [] OTHER -> <<>>

Handle(p) ==
  /\ requests[p] # <<>>
  /\ Perform(Head(requests[p]))
  /\ requests' = [requests EXCEPT ![p] = Tail(@)]
  /\ answers' = [answers EXCEPT ![p] = @ \o AnswerTo(Head(requests[p]))]
  /\ UNCHANGED <<panel, history, budget>>

-----------------------------------------------------------------------------
(* _startBulkPolling: nothing when the timer runs, else a poll at once. *)
PollingStarts(p) == panel[p].polling = FALSE
StartPolling(p) == requests' = [requests EXCEPT ![p] = IF PollingStarts(p) THEN Append(@, Poll) ELSE @]

Tick(p) ==
  /\ panel[p].polling /\ Awaited(p) < MaxInFlight[p]
  /\ requests' = [requests EXCEPT ![p] = Append(@, Poll)]
  /\ UNCHANGED <<serverVars, panel, answers, history, budget>>

(* Starts on their way count against MaxJobs. *)
Asks(p) == {i \in DOMAIN requests[p] : requests[p][i].type = "start"}
Asking == UNION {{p} \X Asks(p) : p \in Panels}

UserActs(p) == panel[p].here /\ Awaited(p) < MaxInFlight[p]

(* _openReadAllDialog, _openEncryptDialog *)
OpenPicker(p) ==
  /\ UserActs(p) /\ ~panel[p].active /\ panel[p].dialog = NoJob /\ current < MaxJobs
  /\ panel' = [panel EXCEPT ![p].dialog = Picker]
  /\ UNCHANGED <<serverVars, requests, answers, history, budget>>

CloseDialog(p) ==
  /\ UserActs(p) /\ panel[p].dialog # NoJob
  /\ panel' = [panel EXCEPT ![p].dialog = NoJob]
  /\ UNCHANGED <<serverVars, requests, answers, history, budget>>

(* Mutant of Click: that the last result was shown is not forgotten. *)
ClickKeepsShown(p) ==
  /\ UserActs(p) /\ panel[p].dialog # NoJob
  /\ current + Cardinality(Asking) < MaxJobs
  /\ \E devs \in (SUBSET Macs) \ {{}}, a \in Actions :
       requests' = [requests EXCEPT ![p] = Append(@, [type |-> "start", devs |-> devs, action |-> a])]
  /\ panel' = [panel EXCEPT ![p].dialog = NoJob]
  /\ UNCHANGED <<serverVars, answers, history, budget>>

(* Start in the picker, or Retry failed in a result: the dialog is closed   *)
(* and the job asked for (_startBulk), also when one is active by now.      *)
Click(p) ==
  /\ UserActs(p) /\ panel[p].dialog # NoJob
  /\ current + Cardinality(Asking) < MaxJobs
  /\ \E devs \in (SUBSET Macs) \ {{}}, a \in Actions :
       requests' = [requests EXCEPT ![p] = Append(@, [type |-> "start", devs |-> devs, action |-> a])]
  /\ panel' = [panel EXCEPT ![p].shown = FALSE, ![p].dialog = NoJob]
  /\ UNCHANGED <<serverVars, answers, history, budget>>

ClickCancel(p) ==
  /\ UserActs(p) /\ panel[p].active
  /\ requests' = [requests EXCEPT ![p] = @ \o <<[type |-> "cancel"], Poll>>]
  /\ UNCHANGED <<serverVars, panel, answers, history, budget>>

(* The answer to a start is not looked at: refused or not, the panel polls. *)
Started(p) ==
  /\ answers[p] # <<>> /\ Head(answers[p]).type = "started"
  /\ answers' = [answers EXCEPT ![p] = Tail(@)]
  /\ panel' = [panel EXCEPT ![p].polling = TRUE]
  /\ StartPolling(p)
  /\ own' = IF Head(answers[p]).job = NoJob THEN own ELSE [own EXCEPT ![p] = Head(answers[p]).job]
  /\ UNCHANGED <<serverVars, seen, late, budget>>

(* _bulkPoll: the result is shown once and dismissed, and polling stops     *)
(* when there is nothing more to show.                                      *)
Shows(p, a) == ~a.active /\ a.result # NoJob /\ ~panel[p].shown

(* Mutant of Stops: only a result ends polling. *)
StopsWithResult(p, a) == ~a.active /\ (panel[p].shown \/ Shows(p, a))

(* Mutant of Stops: whether the job is active is not asked. *)
StopsWhileActive(p, a) == a.result = NoJob \/ panel[p].shown \/ Shows(p, a)

Stops(p, a) == ~a.active /\ (a.result = NoJob \/ panel[p].shown \/ Shows(p, a))

StartOnItsWay(p) == Asks(p) # {} \/ \E i \in DOMAIN answers[p] : answers[p][i].type = "started"

Polled(p) ==
  LET a == Head(answers[p])
  IN /\ answers[p] # <<>> /\ a.type = "status"
     /\ answers' = [answers EXCEPT ![p] = Tail(@)]
     /\ panel' = [panel EXCEPT
          ![p].active = a.active,
          ![p].shown = @ \/ Shows(p, a),
          ![p].dialog = IF Shows(p, a) THEN a.result ELSE @,
          ![p].polling = @ /\ ~Stops(p, a)]
     /\ requests' = [requests EXCEPT ![p] = IF Shows(p, a) THEN Append(@, [type |-> "dismiss"]) ELSE @]
     /\ seen' = seen \union (IF Shows(p, a) /\ panel[p].here THEN {a.result} ELSE {})
     /\ late' = (late \/ (Shows(p, a) /\ StartOnItsWay(p)))
     /\ UNCHANGED <<serverVars, own, budget>>

-----------------------------------------------------------------------------
Break == budget > 0 /\ budget' = budget - 1

(* disconnectedCallback *)
Leave(p) ==
  /\ p \in Roaming /\ panel[p].here /\ Break
  /\ panel' = [panel EXCEPT ![p].here = FALSE, ![p].polling = FALSE]
  /\ UNCHANGED <<serverVars, requests, answers, history>>

(* connectedCallback of an element that was attached before. *)
Return(p) ==
  /\ ~panel[p].here
  /\ panel' = [panel EXCEPT ![p].here = TRUE, ![p].polling = TRUE]
  /\ StartPolling(p)
  /\ seen' = seen \union ({panel[p].dialog} \intersect JobIds)
  /\ UNCHANGED <<serverVars, answers, own, late, budget>>

(* The page is loaded anew: a new connection and a new element. *)
Refresh(p) ==
  /\ p \in Reloading /\ Break
  /\ panel' = [panel EXCEPT ![p] = Fresh]
  /\ requests' = [requests EXCEPT ![p] = <<Poll>>]
  /\ answers' = [answers EXCEPT ![p] = <<>>]
  /\ UNCHANGED <<serverVars, history>>

(* The connection is lost: whatever the panel awaits fails. *)
Drop(p) ==
  /\ p \in Losing /\ Awaited(p) > 0 /\ Break
  /\ requests' = [requests EXCEPT ![p] = <<>>]
  /\ answers' = [answers EXCEPT ![p] = <<>>]
  /\ UNCHANGED <<serverVars, panel, history>>

-----------------------------------------------------------------------------
PanelStep(p) ==
  \/ Tick(p) \/ Handle(p) \/ Started(p) \/ Polled(p)
  \/ OpenPicker(p) \/ CloseDialog(p) \/ Click(p) \/ ClickCancel(p)
  \/ Leave(p) \/ Return(p) \/ Refresh(p) \/ Drop(p)

PanelNext ==
  \/ \E p \in Panels : PanelStep(p)
  \/ (\E k \in DOMAIN jobs : JobStep(k)) /\ UNCHANGED panelVars

(* The timer fires, the server answers and the answer arrives.  What users  *)
(* do is not fair.                                                          *)
PanelSpec ==
  /\ PanelInit /\ [][PanelNext]_allVars /\ JobFairness
  /\ \A p \in Panels :
       WF_allVars(Tick(p)) /\ WF_allVars(Handle(p)) /\ WF_allVars(Started(p) \/ Polled(p))

-----------------------------------------------------------------------------
(* Whoever started the job that runs goes on following it, with polls that  *)
(* overlap and whatever others start, cancel and dismiss: only leaving the  *)
(* page ends it (_startBulk, _bulkPoll).                                    *)
OwnProgressFollowed ==
  \A p \in Panels : Busy /\ own[p] = current /\ panel[p].here => panel[p].polling

(* A panel that is not following an active job stops polling (_bulkPoll). *)
PollingEnds == \A p \in Panels : (panel[p].polling /\ ~Busy) ~> (~panel[p].polling \/ Busy)

(* The result of a job is shown to the user who is there, also across a     *)
(* refresh of the page (_startBulk, _bulkPoll), unless another job is       *)
(* started first, or an older answer shows the result before it while its   *)
(* start is on its way.                                                     *)
ResultSeen == \A k \in JobIds : (k = current) ~> (k \in seen \/ k < current \/ late)
=============================================================================
