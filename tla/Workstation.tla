----------------------------- MODULE Workstation -----------------------------
(***************************************************************************)
(* wiretest/workstation.py: a client that is also an event recipient.      *)
(* Threads that call request(), a thread in wait_for_notification() and    *)
(* the serving thread (_serve) share two lists under one lock and wait on  *)
(* one condition.  A step ends where a thread gives up the lock, sends or  *)
(* receives; "blocked" is inside Condition.wait().                         *)
(*                                                                         *)
(* External: a device that answers requests and reports alarms when it     *)
(* likes, and a network that loses (no delivery is assumed), duplicates,   *)
(* delays and reorders but delivers no answer Lifetime requests late.      *)
(***************************************************************************)
EXTENDS Naturals, Sequences, FiniteSets

CONSTANTS
    Requesters,   \* threads that call request()
    Observed,     \* the one whose calls are compared with Exchange; any will do
    IdModulus,    \* invoke ids are 0..IdModulus-1, 256 in the code
    Retries,      \* Workstation.retries
    Lifetime,     \* network: a datagram dies this many requests later
    MaxRequests,  \* bound: requests made
    Alarms,       \* event notifications the device sends
    Confirmed,    \* those that ask for a SimpleACK
    Wanted,       \* those the predicate of wait_for_notification() takes
    MaxKept       \* bound: notifications kept, repeats included

ASSUME IdModulusAssumption == IdModulus \in Nat \ {0}
ASSUME ObservedAssumption == Observed \in Requesters
ASSUME RetriesAssumption == Retries \in Nat
ASSUME LifetimeAssumption == Lifetime \in Nat \ {0}
ASSUME BoundsAssumption == MaxRequests \in Nat /\ MaxKept \in Nat
ASSUME AlarmsAssumption == Confirmed \subseteq Alarms /\ Wanted \subseteq Alarms

VARIABLES
    made,           \* history: requests made, which numbers them
    invokeId,       \* _invoke_id
    pc,             \* where each requester is
    current,        \* history: the number of its request
    id,             \* its invoke id
    attempt,        \* attempts made for it
    outcome,        \* the request whose answer request() returned, 0 for none
    responses,      \* _responses
    underway,       \* requests, or their answers, in the network or the socket's buffer
    server,         \* where the serving thread is
    taken,          \* the frame it is looking at
    notifications,  \* the notifications kept
    settled,        \* history: confirmed notifications answered, or skipped on purpose
    answering,      \* answer_notifications
    watcher,        \* where the thread in wait_for_notification() is
    mark,           \* the index it passes as after
    found,          \* the index of what it returned, 0 for None
    open            \* the socket is open; "closing" once close() was called

requesting == <<made, invokeId, pc, current, id, attempt, outcome>>
serving == <<server, taken, notifications, settled>>
watching == <<watcher, mark, found>>
workstationVars == <<requesting, responses, underway, serving, answering, watching, open>>

Pdu == [id : 0..IdModulus-1, of : 1..MaxRequests]
NoFrame == [kind |-> "none"]
Response(p) == [kind |-> "response", pdu |-> p]
Notification(a) == [kind |-> "notification", alarm |-> a]

WorkstationTypeOK ==
    /\ made \in 0..MaxRequests
    /\ invokeId \in 0..IdModulus-1
    /\ pc \in [Requesters -> {"idle", "send", "check", "blocked", "late"}]
    /\ current \in [Requesters -> 0..MaxRequests]
    /\ id \in [Requesters -> 0..IdModulus-1]
    /\ attempt \in [Requesters -> 0..Retries+1]
    /\ outcome \in [Requesters -> 0..MaxRequests]
    /\ responses \subseteq Pdu /\ underway \subseteq Pdu
    /\ server \in {"select", "keep", "ack", "ended"}
    /\ taken \in {NoFrame} \cup {Response(p) : p \in Pdu} \cup {Notification(a) : a \in Alarms}
    /\ notifications \in Seq(Alarms) /\ Len(notifications) <= MaxKept
    /\ settled \in 0..MaxKept
    /\ answering \in BOOLEAN
    /\ watcher \in {"idle", "check", "blocked", "late"}
    /\ mark \in 0..MaxKept /\ found \in 0..MaxKept
    /\ open \in {"open", "closing", "closed"}

WorkstationInit ==
    /\ made = 0 /\ invokeId = 0
    /\ pc = [r \in Requesters |-> "idle"]
    /\ current = [r \in Requesters |-> 0] /\ id = [r \in Requesters |-> 0]
    /\ attempt = [r \in Requesters |-> 0] /\ outcome = [r \in Requesters |-> 0]
    /\ responses = {} /\ underway = {}
    /\ server = "select" /\ taken = NoFrame
    /\ notifications = <<>> /\ settled = 0
    /\ answering = TRUE
    /\ watcher = "idle" /\ mark = 0 /\ found = 0
    /\ open = "open"

-----------------------------------------------------------------------------
(* The network                                                             *)

Lives(p, n) == n - p.of < Lifetime

\* Assumption: no request is outstanding, and no answer in the serving thread's
\* hands, while as many others are made as there are invoke ids.
Paced ==
    /\ \A r \in Requesters : pc[r] # "idle" => made + 1 - current[r] < IdModulus
    /\ taken.kind = "response" => Lives(taken.pdu, made + 1)

-----------------------------------------------------------------------------
(* request()                                                               *)

\* Mutant: what is kept from an earlier request with the id stays.
MutKeepResponses(i) == UNCHANGED responses
ForgetResponses(i) == responses' = {p \in responses : p.id # i}

NextId == (invokeId + 1) % IdModulus

\* Under the lock: the next invoke id, and no old answer with it.
Request(r) ==
    /\ pc[r] = "idle" /\ open = "open" /\ made < MaxRequests /\ Paced
    /\ made' = made + 1
    /\ invokeId' = NextId
    /\ id' = [id EXCEPT ![r] = invokeId']
    /\ current' = [current EXCEPT ![r] = made']
    /\ attempt' = [attempt EXCEPT ![r] = 0]
    /\ outcome' = [outcome EXCEPT ![r] = 0]
    /\ pc' = [pc EXCEPT ![r] = "send"]
    /\ ForgetResponses(invokeId')
    /\ underway' = {p \in underway : Lives(p, made')}
    /\ UNCHANGED <<serving, answering, watching, open>>

\* attempt(): the datagram goes out without the lock.
Send(r) ==
    /\ pc[r] = "send"
    /\ attempt' = [attempt EXCEPT ![r] = @ + 1]
    /\ underway' = underway \cup {[id |-> id[r], of |-> current[r]]}
    /\ pc' = [pc EXCEPT ![r] = "check"]
    /\ UNCHANGED <<made, invokeId, current, id, outcome, responses, serving,
                   answering, watching, open>>

Matching(r) == {p \in responses : p.id = id[r]}

\* Awake and with the lock: an answer with the id is taken out of the list, where
\* another copy stays if the network delivered it twice.
TakeResponse(r) ==
    /\ pc[r] \in {"check", "late"}
    /\ \E p \in Matching(r) :
        /\ responses' \in {responses, responses \ {p}}
        /\ outcome' = [outcome EXCEPT ![r] = p.of]
    /\ pc' = [pc EXCEPT ![r] = "idle"]
    /\ UNCHANGED <<made, invokeId, current, id, attempt, underway, serving, answering, watching, open>>

\* None yet and time left: wait on the condition, which gives up the lock.
Wait(r) ==
    /\ pc[r] = "check" /\ Matching(r) = {}
    /\ pc' = [pc EXCEPT ![r] = "blocked"]
    /\ UNCHANGED <<made, invokeId, current, id, attempt, outcome, responses, underway, serving,
                   answering, watching, open>>

\* The deadline passes in the wait: one more look at the list.
Expire(r) ==
    /\ pc[r] = "blocked"
    /\ pc' = [pc EXCEPT ![r] = "late"]
    /\ UNCHANGED <<made, invokeId, current, id, attempt, outcome, responses, underway, serving,
                   answering, watching, open>>

\* Mutant: the retry loop never ends.
MutEndlessRetry(r) ==
    /\ pc[r] \in {"check", "late"} /\ Matching(r) = {}
    /\ pc' = [pc EXCEPT ![r] = "send"]
    /\ attempt' = [attempt EXCEPT ![r] = 0]
    /\ UNCHANGED <<made, invokeId, current, id, outcome, responses, underway, serving,
                   answering, watching, open>>
\* Past the deadline and none: [RETRY] with the same id, or Answer(None).
EndAttempt(r) ==
    /\ pc[r] \in {"check", "late"} /\ Matching(r) = {}
    /\ pc' = [pc EXCEPT ![r] = IF attempt[r] <= Retries THEN "send" ELSE "idle"]
    /\ UNCHANGED <<made, invokeId, current, id, attempt, outcome, responses, underway, serving,
                   answering, watching, open>>

-----------------------------------------------------------------------------
(* wait_for_notification()                                                 *)

\* mark(), and its caller goes on to wait_for_notification().
Mark ==
    /\ watcher = "idle" /\ open = "open"
    /\ mark' = Len(notifications)
    /\ found' = 0
    /\ watcher' = "check"
    /\ UNCHANGED <<requesting, responses, underway, serving, answering, open>>

\* The notifications from the mark on that the predicate takes, by index.
Hits == {i \in mark+1..Len(notifications) : notifications[i] \in Wanted}

Find ==
    /\ watcher \in {"check", "late"} /\ Hits # {}
    /\ found' = CHOOSE i \in Hits : \A j \in Hits : i <= j
    /\ watcher' = "idle"
    /\ UNCHANGED <<requesting, responses, underway, serving, answering, mark, open>>

WatcherWaits ==
    /\ watcher = "check" /\ Hits = {}
    /\ watcher' = "blocked"
    /\ UNCHANGED <<requesting, responses, underway, serving, answering, mark, found, open>>

WatcherExpires ==
    /\ watcher = "blocked"
    /\ watcher' = "late"
    /\ UNCHANGED <<requesting, responses, underway, serving, answering, mark, found, open>>

WatcherGivesUp ==
    /\ watcher \in {"check", "late"} /\ Hits = {}
    /\ watcher' = "idle"
    /\ UNCHANGED <<requesting, responses, underway, serving, answering, mark, found, open>>

-----------------------------------------------------------------------------
(* The serving thread                                                      *)

\* Mutant: notify() instead of notify_all(): one of the threads wakes up.
MutNotifyOne ==
    \/ /\ \E r \in Requesters : pc[r] = "blocked" /\ pc' = [pc EXCEPT ![r] = "check"]
       /\ UNCHANGED watcher
    \/ watcher = "blocked" /\ watcher' = "check" /\ UNCHANGED pc
    \/ (\A r \in Requesters : pc[r] # "blocked") /\ watcher # "blocked" /\ UNCHANGED <<pc, watcher>>
NotifyAll ==
    /\ pc' = [r \in Requesters |-> IF pc[r] = "blocked" THEN "check" ELSE pc[r]]
    /\ watcher' = IF watcher = "blocked" THEN "check" ELSE watcher

\* recvfrom; the network may deliver what is underway never, once or again.
Receive(frame) ==
    /\ server = "select"
    /\ taken' = frame
    /\ server' = "keep"
    /\ UNCHANGED <<requesting, responses, notifications, settled, answering, watching, open,
                   underway>>
ReceiveResponse(p) == Receive(Response(p))
ReceiveNotification(a) == Len(notifications) < MaxKept /\ Receive(Notification(a))

\* while self._running: a frame that arrives after close() began is still handled
\* if the thread had already gone on to select.
Looped == IF open = "open" THEN "select" ELSE "ended"

StopServing ==
    /\ server = "select" /\ open # "open"
    /\ server' = "ended"
    /\ UNCHANGED <<requesting, responses, underway, taken, notifications, settled, answering,
                   watching, open>>

KeepResponse ==
    /\ server = "keep" /\ taken.kind = "response"
    /\ responses' = responses \cup {taken.pdu}
    /\ NotifyAll
    /\ server' = Looped /\ taken' = NoFrame
    /\ UNCHANGED <<made, invokeId, current, id, attempt, outcome, underway, notifications, settled, answering, mark, found, open>>

KeepNotification ==
    /\ server = "keep" /\ taken.kind = "notification"
    /\ notifications' = Append(notifications, taken.alarm)
    /\ NotifyAll
    /\ server' = "ack"
    /\ UNCHANGED <<made, invokeId, current, id, attempt, outcome, responses, underway, taken, settled, answering, mark, found, open>>

\* A confirmed notification is answered, unless the recipient plays dead;
\* sendto on a closed socket raises, and nothing catches it.
Acknowledge ==
    /\ server = "ack"
    /\ settled' = IF taken.alarm \in Confirmed /\ (answering => open # "closed")
                  THEN settled + 1 ELSE settled
    /\ server' = Looped
    /\ taken' = NoFrame
    /\ UNCHANGED <<requesting, responses, underway, notifications, answering, watching, open>>

\* The test switches the recipient off and on.
SetAnswering(b) ==
    /\ answering # b /\ open = "open"
    /\ answering' = b
    /\ UNCHANGED <<requesting, responses, underway, serving, watching, open>>

\* close(): stop the thread, join it, close the socket.
Close ==
    /\ open = "open"
    /\ watcher = "idle" /\ \A r \in Requesters : pc[r] = "idle"
    /\ open' = "closing"
    /\ UNCHANGED <<requesting, responses, underway, serving, answering, watching>>

\* Mutant: the thread is not joined.
MutNotJoined == TRUE
\* Assumption: the thread ends within the two seconds close() waits for it; its
\* select takes a tenth of one.
Joined == server = "ended"
CloseSocket ==
    /\ open = "closing" /\ Joined
    /\ open' = "closed"
    /\ UNCHANGED <<requesting, responses, underway, serving, answering, watching>>

-----------------------------------------------------------------------------
RequesterStep(r) == Send(r) \/ TakeResponse(r) \/ Expire(r) \/ EndAttempt(r)
WatcherStep == Find \/ WatcherExpires \/ WatcherGivesUp
ServerStep ==
    \/ \E p \in underway : ReceiveResponse(p)
    \/ \E a \in Alarms : ReceiveNotification(a)
    \/ KeepResponse \/ KeepNotification \/ Acknowledge \/ StopServing

WorkstationNext ==
    \/ \E r \in Requesters : Request(r) \/ RequesterStep(r) \/ Wait(r)
    \/ Mark \/ WatcherStep \/ WatcherWaits
    \/ ServerStep
    \/ \E b \in BOOLEAN : SetAnswering(b)
    \/ Close \/ CloseSocket

\* Threads are scheduled and time passes, so that a wait ends at its deadline;
\* nothing is assumed of the device and the network.
WorkstationFairness == \A r \in Requesters : WF_workstationVars(RequesterStep(r))

WorkstationSpec == WorkstationInit /\ [][WorkstationNext]_workstationVars /\ WorkstationFairness

-----------------------------------------------------------------------------
(* Properties                                                              *)

\* workstation.py:13-14: each thread is handed the answer to its own request,
\* whatever the other requesters, the serving thread and old answers in the list
\* do; request() returns, and what it returned stays.
Promise == INSTANCE Exchange WITH called <- current[Observed],
                                  waiting <- pc[Observed] # "idle",
                                  outcome <- outcome[Observed]
ImplementsExchange == Promise!ExchangeSpec

\* No thread sleeps on what it waits for: while a requester is in
\* Condition.wait() no answer with its id is in the list, and while the watcher
\* is, no notification it wants has arrived since its mark.
NoLostWakeup ==
    /\ \A r \in Requesters : pc[r] = "blocked" => Matching(r) = {}
    /\ watcher = "blocked" => \A i \in mark+1..Len(notifications) : notifications[i] \notin Wanted

\* workstation.py:10-12: every confirmed notification kept was answered unless
\* the recipient was told to be silent, also when close() comes between the two.
EveryOneAnswered ==
    server \in {"select", "ended"} =>
      settled = Cardinality({i \in 1..Len(notifications) : notifications[i] \in Confirmed})
=============================================================================
