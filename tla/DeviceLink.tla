----------------------------- MODULE DeviceLink -----------------------------
(***************************************************************************)
(* The GATT access path of gatt.py for one device: the per-device lock of  *)
(* _dev_lock, the three retry loops built on it (async_read for "read",    *)
(* _with_client for "command", _with_blethr_client for "repeater"), the    *)
(* disconnect procedure _safe_disconnect that ends every attempt, and the  *)
(* 150 s cap that bulk._read_one puts around a whole read.                 *)
(*                                                                         *)
(* An asyncio task runs until its next await, so a step here is the code   *)
(* between two awaits.  What is said over an open link is abstracted to    *)
(* how it ends: with a result, with an exception, or with the discovery    *)
(* that Home Assistant's cached GATT table is stale.                       *)
(***************************************************************************)
EXTENDS Naturals, Sequences

CONSTANTS
  Requests,         \* the operations asked of the device, one task each
  NoRequest,        \* the holder of the lock while it is free
  Kind,             \* which of the three loops serves a request
  Retries,          \* how many attempts that loop makes
  Capped,           \* the requests that bulk runs under wait_for(..., 150)
  DisconnectTries,  \* rounds of _safe_disconnect (4 in the code)
  Stubborn          \* rounds a request's link may survive in one _safe_disconnect

Kinds == {"read", "command", "repeater"}

ASSUME ConstantsAssumption ==
  /\ NoRequest \notin Requests
  /\ Kind \in [Requests -> Kinds]
  /\ Retries \in [Requests -> Nat \ {0}]
  /\ Capped \subseteq Requests
  /\ DisconnectTries \in Nat \ {0}
  /\ Stubborn \in [Requests -> Nat]

ASSUME CappedAssumption == \A r \in Capped : Kind[r] = "read"

VARIABLES
  pc,          \* where each task is
  lock,        \* the task holding the device's asyncio.Lock
  waiters,     \* tasks queued on that lock, first come first served
  left,        \* attempts the loop has left
  tries,       \* rounds of _safe_disconnect done in this attempt
  ending,      \* how the session that is being closed ended
  rediscover,  \* the loop's flag: the next connection ignores the cached table
  reached,     \* the loop's flag: the last failure came after connecting
  link,        \* client.is_connected of the request's client
  connected,   \* history: the last attempt did get a link
  answer       \* what the caller got

vars == <<pc, lock, waiters, left, tries, ending, rediscover, reached, link,
          connected, answer>>

Holding == {"attempt", "connecting", "session", "closing", "sleeping"}
Locations == {"idle", "waiting", "done"} \union Holding
Endings == {"none", "result", "error", "stale", "cancelled"}
Answers == {"none", "result", "range_advice", "device_error", "timeout"}

TypeOK ==
  /\ pc \in [Requests -> Locations]
  /\ lock \in Requests \union {NoRequest}
  /\ waiters \in Seq(Requests)
  /\ left \in [Requests -> Nat]
  /\ tries \in [Requests -> 0..DisconnectTries]
  /\ ending \in [Requests -> Endings]
  /\ rediscover \in [Requests -> BOOLEAN]
  /\ reached \in [Requests -> BOOLEAN]
  /\ link \in [Requests -> BOOLEAN]
  /\ connected \in [Requests -> BOOLEAN]
  /\ answer \in [Requests -> Answers]

Init ==
  /\ pc = [r \in Requests |-> "idle"]
  /\ lock = NoRequest
  /\ waiters = <<>>
  /\ left = Retries
  /\ tries = [r \in Requests |-> 0]
  /\ ending = [r \in Requests |-> "none"]
  /\ rediscover = [r \in Requests |-> FALSE]
  /\ reached = [r \in Requests |-> FALSE]
  /\ link = [r \in Requests |-> FALSE]
  /\ connected = [r \in Requests |-> FALSE]
  /\ answer = [r \in Requests |-> "none"]

Goto(r, label) == pc' = [pc EXCEPT ![r] = label]

(* The loop is over: its local variables are gone, the caller has a result. *)
Answered(r, result) ==
  /\ Goto(r, "done")
  /\ answer' = [answer EXCEPT ![r] = result]
  /\ left' = [left EXCEPT ![r] = 0]
  /\ tries' = [tries EXCEPT ![r] = 0]
  /\ ending' = [ending EXCEPT ![r] = "none"]
  /\ rediscover' = [rediscover EXCEPT ![r] = FALSE]
  /\ reached' = [reached EXCEPT ![r] = FALSE]
  /\ connected' = [connected EXCEPT ![r] = FALSE]

(* Leave the `async with` block with an answer for the caller. *)
Leave(r, result) ==
  /\ Answered(r, result)
  /\ lock' = NoRequest

-----------------------------------------------------------------------------
(* Mutant of Request: a free lock is taken although others wait for it. *)
RequestBarges(r) ==
  /\ pc[r] = "idle"
  /\ \/ /\ lock = NoRequest
        /\ lock' = r
        /\ Goto(r, "attempt")
        /\ UNCHANGED waiters
     \/ /\ lock # NoRequest
        /\ waiters' = Append(waiters, r)
        /\ Goto(r, "waiting")
        /\ UNCHANGED lock
  /\ UNCHANGED <<left, tries, ending, rediscover, reached, link, connected, answer>>

(* async with _dev_lock(hass, mac): asyncio.Lock is taken at once when it   *)
(* is free and nobody waits, otherwise the task joins the queue.            *)
Request(r) ==
  /\ pc[r] = "idle"
  /\ \/ /\ lock = NoRequest /\ waiters = <<>>
        /\ lock' = r
        /\ Goto(r, "attempt")
        /\ UNCHANGED waiters
     \/ /\ lock # NoRequest \/ waiters # <<>>
        /\ waiters' = Append(waiters, r)
        /\ Goto(r, "waiting")
        /\ UNCHANGED lock
  /\ UNCHANGED <<left, tries, ending, rediscover, reached, link, connected, answer>>

(* A released lock goes to the task that has waited longest. *)
Grant(r) ==
  /\ lock = NoRequest
  /\ waiters # <<>> /\ Head(waiters) = r
  /\ lock' = r
  /\ waiters' = Tail(waiters)
  /\ Goto(r, "attempt")
  /\ UNCHANGED <<left, tries, ending, rediscover, reached, link, connected, answer>>

(* Mutant of NoDevice: finding no proxy costs no attempt. *)
NoDeviceFree(r) ==
  /\ pc[r] = "attempt" /\ left[r] > 0
  /\ reached' = [reached EXCEPT ![r] = FALSE]
  /\ connected' = [connected EXCEPT ![r] = FALSE]
  /\ Goto(r, "sleeping")
  /\ UNCHANGED <<lock, waiters, left, tries, ending, rediscover, link, answer>>

(* dev is None: no proxy can connect now; sleep 5 s and try again. *)
NoDevice(r) ==
  /\ pc[r] = "attempt" /\ left[r] > 0
  /\ left' = [left EXCEPT ![r] = @ - 1]
  /\ reached' = [reached EXCEPT ![r] = FALSE]
  /\ connected' = [connected EXCEPT ![r] = FALSE]
  /\ Goto(r, "sleeping")
  /\ UNCHANGED <<lock, waiters, tries, ending, rediscover, link, answer>>

(* A proxy is in range: establish_connection under a 25 s limit. *)
Connect(r) ==
  /\ pc[r] = "attempt" /\ left[r] > 0
  /\ left' = [left EXCEPT ![r] = @ - 1]
  /\ connected' = [connected EXCEPT ![r] = FALSE]
  /\ Goto(r, "connecting")
  /\ UNCHANGED <<lock, waiters, tries, ending, rediscover, reached, link, answer>>

(* Mutant of ConnectFails: `reached` keeps what the attempt before found. *)
ConnectFailsKeepsReached(r) ==
  /\ pc[r] = "connecting"
  /\ rediscover' = [rediscover EXCEPT ![r] = @ \/ Kind[r] = "read"]
  /\ Goto(r, "sleeping")
  /\ UNCHANGED <<lock, waiters, left, tries, ending, reached, link, connected, answer>>

(* It raised or timed out: client is None and there is nothing to close. *)
ConnectFails(r) ==
  /\ pc[r] = "connecting"
  /\ reached' = [reached EXCEPT ![r] = FALSE]
  /\ rediscover' = [rediscover EXCEPT ![r] = @ \/ Kind[r] = "read"]
  /\ Goto(r, "sleeping")
  /\ UNCHANGED <<lock, waiters, left, tries, ending, link, connected, answer>>

Connected(r) ==
  /\ pc[r] = "connecting"
  /\ link' = [link EXCEPT ![r] = TRUE]
  /\ connected' = [connected EXCEPT ![r] = TRUE]
  /\ Goto(r, "session")
  /\ UNCHANGED <<lock, waiters, left, tries, ending, rediscover, reached, answer>>

(* The session is over and the `finally` clause starts to close the link. *)
EndSession(r, how) ==
  /\ pc[r] = "session"
  /\ ending' = [ending EXCEPT ![r] = how]
  /\ Goto(r, "closing")
  /\ UNCHANGED <<lock, waiters, left, tries, link, connected, answer>>

SessionReturns(r) ==
  /\ EndSession(r, "result")
  /\ UNCHANGED <<rediscover, reached>>

(* Mutant of SessionRaises: no `finally`, the link stays open. *)
SessionRaisesUnclosed(r) ==
  /\ pc[r] = "session"
  /\ Goto(r, "sleeping")
  /\ reached' = [reached EXCEPT ![r] = TRUE]
  /\ rediscover' = [rediscover EXCEPT ![r] = @ \/ Kind[r] = "read"]
  /\ UNCHANGED <<lock, waiters, left, tries, ending, link, connected, answer>>

(* Any Exception; async_read also stops trusting the cached table. *)
SessionRaises(r) ==
  /\ EndSession(r, "error")
  /\ reached' = [reached EXCEPT ![r] = TRUE]
  /\ rediscover' = [rediscover EXCEPT ![r] = @ \/ Kind[r] = "read"]

(* The table does not fit the device: clear it and `continue`, once.  Only *)
(* async_read records that the device had been reached.                    *)
SessionStale(r) ==
  /\ Kind[r] # "command" /\ ~rediscover[r]
  /\ EndSession(r, "stale")
  /\ rediscover' = [rediscover EXCEPT ![r] = TRUE]
  /\ reached' = [reached EXCEPT ![r] = @ \/ Kind[r] = "read"]

-----------------------------------------------------------------------------
(* _safe_disconnect.  A round asks the client to disconnect and looks       *)
(* whether it did; an exception or a timeout of the request only ends the   *)
(* round.                                                                   *)
Disconnects(r) ==
  /\ pc[r] = "closing" /\ link[r] /\ tries[r] < DisconnectTries
  /\ link' = [link EXCEPT ![r] = FALSE]
  /\ UNCHANGED <<pc, lock, waiters, left, tries, ending, rediscover, reached,
                 connected, answer>>

DisconnectFails(r) ==
  /\ pc[r] = "closing" /\ link[r] /\ tries[r] < DisconnectTries
  /\ tries[r] < Stubborn[r]
  /\ tries' = [tries EXCEPT ![r] = @ + 1]
  /\ UNCHANGED <<pc, lock, waiters, left, ending, rediscover, reached, link,
                 connected, answer>>

(* Mutant of DisconnectOver: one request to disconnect, not looked after. *)
DisconnectOnce(r) == ~link[r] \/ tries[r] > 0

(* _safe_disconnect returns: the link is seen closed, or the rounds are     *)
(* used up.  No caller looks at which.                                      *)
DisconnectOver(r) == ~link[r] \/ tries[r] = DisconnectTries

(* `return` inside the try, or the cap's CancelledError passing through.    *)
CloseAndLeave(r) ==
  /\ pc[r] = "closing" /\ DisconnectOver(r)
  /\ \/ ending[r] = "result" /\ Leave(r, "result")
     \/ ending[r] = "cancelled" /\ Leave(r, "timeout")
  /\ UNCHANGED <<waiters, link>>

(* An exception is followed by a 4 s sleep, a stale table by the next round. *)
CloseAndRetry(r) ==
  /\ pc[r] = "closing" /\ DisconnectOver(r)
  /\ \/ ending[r] = "error" /\ Goto(r, "sleeping")
     \/ ending[r] = "stale" /\ Goto(r, "attempt")
  /\ ending' = [ending EXCEPT ![r] = "none"]
  /\ tries' = [tries EXCEPT ![r] = 0]
  /\ UNCHANGED <<lock, waiters, left, rediscover, reached, link, connected, answer>>

Wake(r) ==
  /\ pc[r] = "sleeping"
  /\ Goto(r, "attempt")
  /\ UNCHANGED <<lock, waiters, left, tries, ending, rediscover, reached, link,
                 connected, answer>>

(* The loop is over without a result: _unreachable blames the device when   *)
(* the last failure came after it was reached, the radio range otherwise.   *)
Unreachable(r) == IF reached[r] THEN "device_error" ELSE "range_advice"

Exhausted(r) ==
  /\ pc[r] = "attempt" /\ left[r] = 0
  /\ Leave(r, Unreachable(r))
  /\ UNCHANGED <<waiters, link>>

-----------------------------------------------------------------------------
(* A queue without its i-th element. *)
Without(q, i) == [k \in 1..(Len(q) - 1) |-> IF k < i THEN q[k] ELSE q[k + 1]]

(* Mutant of Cancel: a cancelled waiter stays in the queue. *)
CancelStaysQueued(r) ==
  /\ r \in Capped /\ pc[r] = "waiting"
  /\ Answered(r, "timeout")
  /\ UNCHANGED <<lock, waiters, link>>

(* bulk._read_one's wait_for expires: CancelledError is raised at the await *)
(* the read is in.  In the queue it gives up its place; over an open link   *)
(* the `finally` clause still closes it; but within _safe_disconnect, which *)
(* catches Exception and no more, it ends the closing where it is.          *)
Cancel(r) ==
  /\ r \in Capped
  /\ \/ /\ pc[r] = "waiting"
        /\ \E i \in DOMAIN waiters :
             /\ waiters[i] = r
             /\ waiters' = Without(waiters, i)
        /\ Answered(r, "timeout")
        /\ UNCHANGED lock
     \/ /\ \/ pc[r] \in {"connecting", "sleeping"}
           \/ pc[r] = "closing" /\ ending[r] # "cancelled"
        /\ Leave(r, "timeout")
        /\ UNCHANGED waiters
     \/ /\ pc[r] = "session"
        /\ ending' = [ending EXCEPT ![r] = "cancelled"]
        /\ Goto(r, "closing")
        /\ UNCHANGED <<lock, waiters, left, tries, rediscover, reached, connected, answer>>
  /\ UNCHANGED link

(* The radio link is lost by itself: out of range, reboot, supervision. *)
LinkDrops(r) ==
  /\ link[r]
  /\ link' = [link EXCEPT ![r] = FALSE]
  /\ UNCHANGED <<pc, lock, waiters, left, tries, ending, rediscover, reached,
                 connected, answer>>

-----------------------------------------------------------------------------
Session(r) == SessionReturns(r) \/ SessionRaises(r) \/ SessionStale(r)
Disconnect(r) == Disconnects(r) \/ DisconnectFails(r)

(* The steps a task takes by itself once it has been asked: each await in   *)
(* them has a time limit.                                                   *)
Progress(r) ==
  \/ Grant(r) \/ NoDevice(r) \/ Connect(r) \/ ConnectFails(r) \/ Connected(r)
  \/ Session(r) \/ Disconnect(r) \/ CloseAndLeave(r) \/ CloseAndRetry(r)
  \/ Wake(r) \/ Exhausted(r)

Step(r) == Request(r) \/ Progress(r) \/ Cancel(r) \/ LinkDrops(r)

(* Everybody has been answered: nothing is left to do. *)
Finished == (\A r \in Requests : pc[r] = "done") /\ UNCHANGED vars

Next == (\E r \in Requests : Step(r)) \/ Finished

Safe == Init /\ [][Next]_vars

Spec == Safe /\ \A r \in Requests : WF_vars(Progress(r))

-----------------------------------------------------------------------------
(* Whoever is between the lock and its release holds the lock, and the      *)
(* queue holds each waiting task once (gatt.py _dev_lock).                  *)
LockDiscipline ==
  /\ \A r \in Requests : pc[r] \in Holding <=> lock = r
  /\ \A r \in Requests : pc[r] = "waiting" <=> \E i \in DOMAIN waiters : waiters[i] = r
  /\ \A i, j \in DOMAIN waiters : waiters[i] = waiters[j] => i = j

(* The requests whose attempts end with their link closed: _safe_disconnect *)
(* has more rounds than the link can survive, and nothing cancels it half   *)
(* way.                                                                     *)
Clean == {r \in Requests : r \notin Capped /\ Stubborn[r] < DisconnectTries}

(* No link of theirs outlives the lock: it is open only while its request   *)
(* holds the lock, so that no two of them are ever open, whatever the       *)
(* others leave behind (gatt.py:3-5 and 47-49).                             *)
LinkUnderLock == \A r \in Clean : link[r] => lock = r

(* Every connect path ends with a guaranteed disconnect (gatt.py:3-5): once *)
(* the caller has its answer the link is closed.                            *)
GuaranteedDisconnect == \A r \in Requests : pc[r] = "done" => ~link[r]

(* The advice given fits the last attempt: range advice only when it never  *)
(* got a link, a device error only when it did (gatt.py:836-837), for the   *)
(* two loops that keep `reached` on every path: _with_blethr_client leaves   *)
(* it as it was when it finds a stale table.                                *)
HonestAdvice(r) ==
  answer[r] # answer'[r] =>
    /\ answer'[r] = "range_advice" => ~connected[r]
    /\ answer'[r] = "device_error" => connected[r]

HonestAdviceToOthers == \A r \in Requests : Kind[r] # "repeater" => HonestAdvice(r)

AdviceMatchesLastAttempt == [][HonestAdviceToOthers]_vars

(* A task never overtakes one that was queued on the lock before it, also   *)
(* when a third one leaves the queue because its cap expired: whoever gets  *)
(* the lock was queued ahead of everyone who goes on waiting.               *)
GrantsInOrder ==
  \A r, q \in Requests :
    lock # r /\ lock' = r /\ pc[q] = "waiting" /\ pc'[q] = "waiting" =>
      \E i, j \in DOMAIN waiters : i < j /\ waiters[i] = r /\ waiters[j] = q

NoOvertaking == [][GrantsInOrder]_vars

(* A loop spends at most its budget of connections: whenever it decides to  *)
(* go round again an attempt has been paid for, so a device that keeps      *)
(* failing cannot hold its lock for ever.  Every request is answered.       *)
EveryRequestAnswered == \A r \in Requests : pc[r] = "waiting" ~> pc[r] = "done"

(* DeviceLink implements the abstract exclusive link for the clean requests. *)
OpenOf(l) == IF \E r \in Clean : l[r] THEN CHOOSE r \in Clean : l[r]
                                    ELSE NoRequest

Abstract == INSTANCE ExclusiveLink WITH
  Requests <- Clean,
  asked <- {r \in Clean : pc[r] # "idle"},
  answered <- {r \in Clean : pc[r] = "done"},
  open <- OpenOf(link)

(* At most one link of a clean request, owned by a request being served;    *)
(* each is answered with its link closed, also when requests that are       *)
(* capped or leave a link behind go between (the promise of gatt.py's       *)
(* module doc).                                                             *)
ImplementsExclusiveLink == Abstract!Spec

=============================================================================
