-------------------------- MODULE WorkstationProofs --------------------------
(***************************************************************************)
(* The workstation's threads never lose a wake-up, a notification or an    *)
(* acknowledgement, and never take one request's answer for another's, for *)
(* any number of requesting threads, invoke ids, retries and alarms.       *)
(***************************************************************************)
EXTENDS Workstation, FiniteSetTheorems, WellFoundedInduction, TLAPS

\* The steps that take no part in waiting, by name.
LEMMA WorkstationActions ==
    WorkstationNext =>
      \/ \E r \in Requesters : \/ Request(r) \/ Send(r) \/ TakeResponse(r) \/ Wait(r)
                              \/ Expire(r) \/ EndAttempt(r)
      \/ Mark \/ Find \/ WatcherWaits \/ WatcherExpires \/ WatcherGivesUp
      \/ \E p \in underway : ReceiveResponse(p)
      \/ \E a \in Alarms : ReceiveNotification(a)
      \/ KeepResponse \/ KeepNotification \/ Acknowledge \/ StopServing
      \/ \E b \in BOOLEAN : SetAnswering(b)
      \/ Close \/ CloseSocket
  BY Zenon DEF WorkstationNext, RequesterStep, WatcherStep, ServerStep

\* _next_invoke_id counts up and wraps.
LEMMA NextIdWraps ==
    ASSUME NEW i \in 0..IdModulus-1
    PROVE  (i + 1) % IdModulus = IF i + 1 = IdModulus THEN 0 ELSE i + 1
  BY IdModulusAssumption

-----------------------------------------------------------------------------
(* Nobody sleeps on what has arrived                                       *)

\* A sleeping requester's answer is not in the list; pc covers every thread.
Asleep ==
    /\ pc = [r \in Requesters |-> pc[r]]
    /\ id = [r \in Requesters |-> id[r]]
    /\ \A r \in Requesters : pc[r] = "blocked" => Matching(r) = {}

\* No step of a thread, the device or the network wakes too few or sends one to
\* sleep on an answer that is there.
LEMMA AsleepInductive == Asleep /\ [WorkstationNext]_workstationVars => Asleep'
  <1> SUFFICES ASSUME Asleep, [WorkstationNext]_workstationVars
               PROVE  Asleep'
    OBVIOUS
  <1> USE DEF Asleep, Matching
  <1>1. ASSUME NEW r \in Requesters, Request(r)
        PROVE  Asleep'
    <2>1. /\ pc' = [pc EXCEPT ![r] = "send"] /\ id' = [id EXCEPT ![r] = NextId]
          /\ responses' \subseteq responses
      BY <1>1 DEF Request, ForgetResponses
    <2>2. QED
      BY <2>1
  <1>2. ASSUME NEW r \in Requesters, Send(r) \/ Expire(r) \/ EndAttempt(r)
        PROVE  Asleep'
    <2>1. \E at \in {"check", "late", "send", "idle"} : pc' = [pc EXCEPT ![r] = at]
      BY <1>2 DEF Send, Expire, EndAttempt
    <2>2. UNCHANGED <<id, responses>>
      BY <1>2 DEF Send, Expire, EndAttempt
    <2>3. QED
      BY <2>1, <2>2
  <1>3. ASSUME NEW r \in Requesters, TakeResponse(r)
        PROVE  Asleep'
    <2>1. pc' = [pc EXCEPT ![r] = "idle"] /\ responses' \subseteq responses /\ id' = id
      BY <1>3 DEF TakeResponse
    <2>2. QED
      BY <2>1
  <1>4. ASSUME NEW r \in Requesters, Wait(r)
        PROVE  Asleep'
    BY <1>4 DEF Wait
  <1>5. CASE KeepResponse \/ KeepNotification
    <2>1. pc' = [r \in Requesters |-> IF pc[r] = "blocked" THEN "check" ELSE pc[r]] /\ id' = id
      BY <1>5 DEF KeepResponse, KeepNotification, NotifyAll
    <2>2. QED
      BY <2>1
  <1>6. CASE UNCHANGED <<pc, id, responses>>
    BY <1>6
  <1>7. \/ \E r \in Requesters : \/ Request(r) \/ Send(r) \/ TakeResponse(r) \/ Wait(r)
                                \/ Expire(r) \/ EndAttempt(r)
        \/ KeepResponse \/ KeepNotification
        \/ UNCHANGED <<pc, id, responses>>
    BY WorkstationActions DEF workstationVars, requesting, serving, watching, Mark, Find, WatcherWaits,
       WatcherExpires, WatcherGivesUp, Receive, ReceiveResponse, ReceiveNotification, Acknowledge,
       StopServing, SetAnswering, Close, CloseSocket
  <1>8. QED
    BY <1>1, <1>2, <1>3, <1>4, <1>5, <1>6, <1>7

-----------------------------------------------------------------------------
(* The thread in wait_for_notification()                                   *)

\* It sleeps on none that arrived since its mark.
Watches ==
    /\ notifications \in Seq(Alarms)
    /\ taken.kind = "notification" => taken.alarm \in Alarms
    /\ mark \in Nat
    /\ watcher = "blocked" => \A i \in mark+1..Len(notifications) : notifications[i] \notin Wanted

\* A set of numbers that is not empty has a smallest one.
LEMMA Smallest ==
    ASSUME NEW T, T \subseteq Nat, T # {}
    PROVE  \E i \in T : \A j \in T : i <= j
  <1> DEFINE R == OpToRel(<, Nat)
  <1>1. IsWellFoundedOn(R, Nat)
    BY NatLessThanWellFounded
  <1> HIDE DEF R
  <1>2. PICK i \in T : \A j \in T : ~(<<j, i>> \in R)
    BY <1>1, WFMin
  <1>3. \A j \in T : ~(j < i)
    BY <1>2 DEF R, OpToRel
  <1>4. QED
    BY <1>3

\* Every step keeps what the watcher relies on; only its own steps and a
\* notification that is kept touch it.
LEMMA WatchesInductive == Watches /\ [WorkstationNext]_workstationVars => Watches'
  <1> SUFFICES ASSUME Watches, [WorkstationNext]_workstationVars
               PROVE  Watches'
    OBVIOUS
  <1> USE DEF Watches
  <1>1. CASE Mark
    <2>1. Len(notifications) \in Nat
      OBVIOUS
    <2>2. QED
      BY <1>1, <2>1 DEF Mark, serving
  <1>2. CASE Find
    BY <1>2 DEF Find, serving
  <1>3. CASE WatcherWaits
    BY <1>3 DEF WatcherWaits, serving, Hits
  <1>4. CASE WatcherExpires \/ WatcherGivesUp
    BY <1>4 DEF WatcherExpires, WatcherGivesUp, serving
  <1>5. CASE KeepNotification
    <2>1. /\ notifications' = Append(notifications, taken.alarm) /\ taken.alarm \in Alarms
          /\ UNCHANGED <<taken, mark>>
      BY <1>5 DEF KeepNotification
    <2>2. watcher' # "blocked"
      BY <1>5 DEF KeepNotification, NotifyAll
    <2>3. QED
      BY <2>1, <2>2
  <1>6. CASE KeepResponse \/ Acknowledge
    <2>1. taken'.kind # "notification" /\ UNCHANGED <<notifications, mark>>
      BY <1>6 DEF KeepResponse, Acknowledge, watching, NoFrame
    <2>2. watcher' \in {watcher, "check"}
      BY <1>6 DEF KeepResponse, Acknowledge, watching, NotifyAll
    <2>3. QED
      BY <2>1, <2>2
  <1>7. ASSUME NEW p \in underway, ReceiveResponse(p)
        PROVE  Watches'
    BY <1>7 DEF ReceiveResponse, Receive, Response, watching
  <1>8. ASSUME NEW a \in Alarms, ReceiveNotification(a)
        PROVE  Watches'
    BY <1>8 DEF ReceiveNotification, Receive, Notification, watching
  <1>9. CASE UNCHANGED <<notifications, taken, mark, watcher>>
    BY <1>9
  <1>10. \/ Mark \/ Find \/ WatcherWaits \/ WatcherExpires \/ WatcherGivesUp
         \/ \E p \in underway : ReceiveResponse(p)
         \/ \E a \in Alarms : ReceiveNotification(a)
         \/ KeepResponse \/ KeepNotification \/ Acknowledge
         \/ UNCHANGED <<notifications, taken, mark, watcher>>
    BY WorkstationActions DEF workstationVars, serving, watching, Request, Send, TakeResponse, Wait,
       Expire, EndAttempt, StopServing, SetAnswering, Close, CloseSocket
  <1>11. QED
    BY <1>1, <1>2, <1>3, <1>4, <1>5, <1>6, <1>7, <1>8, <1>9, <1>10

\* workstation.py:124-139, 97-110: whatever the interleaving of the threads, none
\* is in Condition.wait() while what it waits for is in the list.
THEOREM NoWakeupLost == WorkstationSpec => []NoLostWakeup
  <1>1. WorkstationInit => Asleep /\ Watches
    BY DEF WorkstationInit, Asleep, Watches, Matching, NoFrame
  <1>2. Asleep /\ Watches => NoLostWakeup
    BY DEF Asleep, Watches, NoLostWakeup
  <1>3. QED
    BY <1>1, <1>2, AsleepInductive, WatchesInductive, PTL DEF WorkstationSpec

-----------------------------------------------------------------------------
(* Every requester gets its own answer                                     *)

\* With m requests made and last the last id given out, the id i tells request n:
\* fewer were made since than there are ids, and counting on from i leads to last.
Tells(i, n, m, last) ==
    /\ i \in 0..IdModulus-1 /\ n \in Nat
    /\ n <= m /\ m - n < IdModulus
    /\ i + (m - n) \in {last, last + IdModulus}

\* It does for all that travels and for every call under way, whose list of
\* answers holds none with its id that belongs to another.
Numbered ==
    /\ made \in Nat /\ invokeId \in 0..IdModulus-1
    /\ \A p \in underway : Tells(p.id, p.of, made, invokeId)
    /\ taken.kind = "response" => Tells(taken.pdu.id, taken.pdu.of, made, invokeId)
Owned(r) ==
    /\ current[r] \in Nat /\ current[r] <= made
    /\ pc[r] # "idle" =>
         /\ Tells(id[r], current[r], made, invokeId)
         /\ outcome[r] = 0
         /\ \A p \in responses : p.id = id[r] => p.of = current[r]
Covered ==
    /\ pc = [r \in Requesters |-> pc[r]]
    /\ id = [r \in Requesters |-> id[r]]
    /\ current = [r \in Requesters |-> current[r]]
    /\ outcome = [r \in Requesters |-> outcome[r]]
Owns == Covered /\ Numbered /\ \A r \in Requesters : Owned(r)

\* Two requests that an invoke id tells are one.
LEMMA TellsOne ==
    ASSUME NEW i, NEW m \in Nat, NEW last \in 0..IdModulus-1, NEW n, NEW k,
           Tells(i, n, m, last), Tells(i, k, m, last)
    PROVE  n = k
  BY IdModulusAssumption DEF Tells

\* An id tells its request until as many more are made as there are ids.
LEMMA TellsOn ==
    ASSUME NEW i, NEW n, NEW m \in Nat, NEW last \in 0..IdModulus-1,
           Tells(i, n, m, last), m + 1 - n < IdModulus
    PROVE  Tells(i, n, m + 1, (last + 1) % IdModulus)
  <1>1. (last + 1) % IdModulus = IF last + 1 = IdModulus THEN 0 ELSE last + 1
    BY NextIdWraps
  <1>2. QED
    BY <1>1, IdModulusAssumption DEF Tells

\* The id just given out tells its request.
LEMMA TellsNew ==
    ASSUME NEW m \in Nat, NEW last \in 0..IdModulus-1
    PROVE  /\ (last + 1) % IdModulus \in 0..IdModulus-1
           /\ Tells((last + 1) % IdModulus, m + 1, m + 1, (last + 1) % IdModulus)
  <1>1. (last + 1) % IdModulus \in 0..IdModulus-1
    BY NextIdWraps, IdModulusAssumption
  <1>2. QED
    BY <1>1, IdModulusAssumption DEF Tells

\* Owns is inductive when no answer outlives the ids.
LEMMA OwnsInductive ==
    ASSUME Lifetime <= IdModulus
    PROVE  Owns /\ [WorkstationNext]_workstationVars => Owns'
  <1> SUFFICES ASSUME Owns, [WorkstationNext]_workstationVars
               PROVE  Owns'
    OBVIOUS
  <1> USE DEF Owns
  <1>1. made \in Nat /\ invokeId \in 0..IdModulus-1
    BY DEF Numbered
  <1>2. ASSUME NEW r \in Requesters, Request(r)
        PROVE  Owns'
    <2>1. /\ made' = made + 1 /\ invokeId' = NextId /\ taken' = taken
          /\ pc' = [pc EXCEPT ![r] = "send"] /\ id' = [id EXCEPT ![r] = NextId]
          /\ current' = [current EXCEPT ![r] = made + 1]
          /\ outcome' = [outcome EXCEPT ![r] = 0]
      BY <1>2 DEF Request, serving
    <2>2. /\ responses' = {p \in responses : p.id # NextId}
          /\ underway' = {p \in underway : Lives(p, made + 1)}
      BY <1>2 DEF Request, ForgetResponses
    <2>3. Covered'
      BY <2>1 DEF Covered
    <2>4. Tells(NextId, made', made', NextId) /\ NextId \in 0..IdModulus-1
      BY <1>1, <2>1, TellsNew DEF NextId
    <2>5. \A i, n : Tells(i, n, made, invokeId) /\ made + 1 - n < IdModulus
                     => Tells(i, n, made', NextId)
      BY <1>1, <2>1, TellsOn DEF NextId
    <2>6. Numbered'
      <3>1. ASSUME NEW p \in underway'
            PROVE  Tells(p.id, p.of, made', NextId)
        <4>1. Tells(p.id, p.of, made, invokeId) /\ Lives(p, made + 1)
          BY <2>2 DEF Numbered
        <4>2. made + 1 - p.of < IdModulus
          BY <4>1, <1>1, IdModulusAssumption, LifetimeAssumption DEF Tells, Lives
        <4>3. QED
          BY <4>1, <4>2, <2>5
      <3>2. ASSUME taken.kind = "response"
            PROVE  Tells(taken.pdu.id, taken.pdu.of, made', NextId)
        <4>1. Tells(taken.pdu.id, taken.pdu.of, made, invokeId) /\ Lives(taken.pdu, made + 1)
          BY <1>2, <3>2, Zenon DEF Numbered, Request, Paced
        <4>2. made + 1 - taken.pdu.of < IdModulus
          BY <4>1, <1>1, IdModulusAssumption, LifetimeAssumption DEF Tells, Lives
        <4>3. QED
          BY <4>1, <4>2, <2>5
      <3>3. made' \in Nat /\ invokeId' \in 0..IdModulus-1
        BY <1>1, <2>1, <2>4
      <3>4. QED
        BY <2>1, <3>1, <3>2, <3>3 DEF Numbered
    <2>7. ASSUME NEW q \in Requesters
          PROVE  Owned(q)'
      <3>1. CASE q = r
        <4>1. /\ current'[q] = made' /\ id'[q] = NextId /\ outcome'[q] = 0
              /\ made' \in Nat
          BY <1>1, <2>1, <3>1 DEF Covered
        <4>2. \A p \in responses' : p.id # id'[q]
          BY <2>2, <4>1
        <4>3. QED
          BY <2>1, <2>4, <4>1, <4>2 DEF Owned
      <3>2. CASE q # r
        <4>1. current'[q] = current[q] /\ id'[q] = id[q] /\ outcome'[q] = outcome[q] /\ pc'[q] = pc[q]
          BY <2>1, <3>2 DEF Covered
        <4>2. pc[q] # "idle" => Tells(id[q], current[q], made', NextId)
          <5>1. pc[q] # "idle" => made + 1 - current[q] < IdModulus
            BY <1>2 DEF Request, Paced
          <5>2. QED
            BY <5>1, <2>5 DEF Owned
        <4>3. current[q] \in Nat /\ current[q] <= made'
          BY <1>1, <2>1 DEF Owned
        <4>4. QED
          BY <2>1, <2>2, <4>1, <4>2, <4>3 DEF Owned
      <3>3. QED
        BY <3>1, <3>2
    <2>8. QED
      BY <2>3, <2>6, <2>7
  <1>3. ASSUME NEW r \in Requesters, Send(r)
        PROVE  Owns'
    <2>1. /\ underway' = underway \cup {[id |-> id[r], of |-> current[r]]}
          /\ pc' = [pc EXCEPT ![r] = "check"] /\ pc[r] = "send"
          /\ UNCHANGED <<made, invokeId, current, id, outcome, responses, taken>>
      BY <1>3 DEF Send, serving
    <2>2. Tells(id[r], current[r], made, invokeId)
      BY <2>1 DEF Owned
    <2>3. Numbered'
      BY <2>1, <2>2 DEF Numbered
    <2>4. \A q \in Requesters : pc'[q] # "idle" => pc[q] # "idle"
      BY <2>1 DEF Covered
    <2>5. QED
      BY <2>1, <2>3, <2>4 DEF Covered, Owned
  <1>4. ASSUME NEW r \in Requesters, TakeResponse(r)
        PROVE  Owns'
    <2>1. /\ responses' \subseteq responses
          /\ pc' = [pc EXCEPT ![r] = "idle"]
          /\ \E n : outcome' = [outcome EXCEPT ![r] = n]
          /\ UNCHANGED <<made, invokeId, current, id, underway, taken>>
      BY <1>4 DEF TakeResponse, serving
    <2>2. Numbered'
      BY <2>1 DEF Numbered
    <2>3. QED
      BY <2>1, <2>2 DEF Covered, Owned
  <1>5. ASSUME NEW r \in Requesters, Wait(r) \/ Expire(r) \/ EndAttempt(r)
        PROVE  Owns'
    <2>1. /\ \E at : pc' = [pc EXCEPT ![r] = at]
          /\ pc[r] # "idle"
          /\ UNCHANGED <<made, invokeId, current, id, outcome, responses, underway, taken>>
      BY <1>5 DEF Wait, Expire, EndAttempt, serving
    <2>2. Numbered'
      BY <2>1 DEF Numbered
    <2>3. \A q \in Requesters : pc'[q] # "idle" => pc[q] # "idle"
      BY <2>1 DEF Covered
    <2>4. QED
      BY <2>1, <2>2, <2>3 DEF Covered, Owned
  <1>6. CASE KeepResponse
    <2>1. /\ responses' = responses \cup {taken.pdu} /\ taken.kind = "response"
          /\ pc' = [r \in Requesters |-> IF pc[r] = "blocked" THEN "check" ELSE pc[r]]
          /\ taken' = NoFrame
          /\ UNCHANGED <<made, invokeId, current, id, outcome, underway>>
      BY <1>6 DEF KeepResponse, NotifyAll
    <2>2. Numbered'
      BY <2>1 DEF Numbered, NoFrame
    <2>3. Covered'
      BY <2>1 DEF Covered
    <2>4. ASSUME NEW q \in Requesters
          PROVE  Owned(q)'
      <3>1. pc'[q] # "idle" => pc[q] # "idle"
        BY <2>1
      <3>2. pc[q] # "idle" /\ taken.pdu.id = id[q] => taken.pdu.of = current[q]
        BY <1>1, <2>1, TellsOne DEF Owned, Numbered
      <3>3. QED
        BY <2>1, <3>1, <3>2 DEF Owned
    <2>5. QED
      BY <2>2, <2>3, <2>4
  <1>7. CASE KeepNotification
    <2>1. /\ pc' = [r \in Requesters |-> IF pc[r] = "blocked" THEN "check" ELSE pc[r]]
          /\ UNCHANGED <<made, invokeId, current, id, outcome, responses, underway, taken>>
      BY <1>7 DEF KeepNotification, NotifyAll
    <2>2. Numbered'
      BY <2>1 DEF Numbered
    <2>3. QED
      BY <2>1, <2>2 DEF Covered, Owned
  <1>8. CASE /\ UNCHANGED <<made, invokeId, current, id, outcome, responses, underway, pc>>
             /\ \/ taken' = taken
                \/ taken'.kind # "response"
                \/ \E p \in underway : taken' = Response(p)
    <2>1. Numbered'
      BY <1>8 DEF Numbered, Response
    <2>2. QED
      BY <1>8, <2>1 DEF Covered, Owned
  <1>9. \/ \E r \in Requesters : \/ Request(r) \/ Send(r) \/ TakeResponse(r) \/ Wait(r)
                                \/ Expire(r) \/ EndAttempt(r)
        \/ KeepResponse \/ KeepNotification
        \/ /\ UNCHANGED <<made, invokeId, current, id, outcome, responses, underway, pc>>
           /\ \/ taken' = taken
              \/ taken'.kind # "response"
              \/ \E p \in underway : taken' = Response(p)
    BY WorkstationActions DEF workstationVars, requesting, serving, watching, Mark, Find, WatcherWaits,
       WatcherExpires, WatcherGivesUp, Receive, ReceiveResponse, ReceiveNotification, Acknowledge,
       StopServing, SetAnswering, Close, CloseSocket, NoFrame, Notification
  <1>10. QED
    BY <1>2, <1>3, <1>4, <1>5, <1>6, <1>7, <1>8, <1>9

\* workstation.py:13-14: every step of the threads, the device and the network is,
\* for any one requester, a step of the exchange it relies on or invisible to it:
\* request() returns the answer to its own request or none.
THEOREM WorkstationImplementsExchange ==
    ASSUME Lifetime <= IdModulus
    PROVE  WorkstationSpec => Promise!ExchangeSafety
  <1>1. WorkstationInit => Owns /\ Promise!ExchangeInit
    <2> SUFFICES ASSUME WorkstationInit PROVE Owns /\ Promise!ExchangeInit
      OBVIOUS
    <2>1. Owns
      BY IdModulusAssumption DEF WorkstationInit, Owns, Covered, Numbered, Owned, NoFrame
    <2>2. pc[Observed] = "idle" /\ current[Observed] = 0 /\ outcome[Observed] = 0
      BY ObservedAssumption DEF WorkstationInit
    <2>3. QED
      BY <2>1, <2>2 DEF Promise!ExchangeInit
  <1>2. Owns /\ [WorkstationNext]_workstationVars
          => [Promise!ExchangeNext]_(Promise!exchangeVars)
    <2> SUFFICES ASSUME Owns, [WorkstationNext]_workstationVars
                 PROVE  Promise!ExchangeNext \/ UNCHANGED Promise!exchangeVars
      OBVIOUS
    <2> USE ObservedAssumption DEF Owns, Covered, Promise!ExchangeNext, Promise!exchangeVars
    <2>1. ASSUME NEW r \in Requesters, Request(r)
          PROVE  Promise!ExchangeNext \/ UNCHANGED Promise!exchangeVars
      <3>1. CASE r = Observed
        <4>1. /\ pc[r] = "idle" /\ pc'[r] = "send"
              /\ current'[r] = made + 1 /\ outcome'[r] = 0
          BY <2>1 DEF Request
        <4>2. current'[r] \in Nat /\ current'[r] > current[r]
          BY <4>1 DEF Owned, Numbered
        <4>3. Promise!Call
          BY <3>1, <4>1, <4>2 DEF Promise!Call
        <4>4. QED
          BY <4>3
      <3>2. CASE r # Observed
        BY <2>1, <3>2 DEF Request
      <3>3. QED
        BY <3>1, <3>2
    <2>2. ASSUME NEW r \in Requesters, TakeResponse(r)
          PROVE  Promise!ExchangeNext \/ UNCHANGED Promise!exchangeVars
      <3>1. PICK p \in Matching(r) : outcome' = [outcome EXCEPT ![r] = p.of]
        BY <2>2 DEF TakeResponse
      <3>2. pc' = [pc EXCEPT ![r] = "idle"] /\ current' = current /\ pc[r] # "idle"
        BY <2>2 DEF TakeResponse
      <3>3. p.of = current[r]
        BY <3>1, <3>2 DEF Matching, Owned
      <3>4. CASE r = Observed
        BY <3>1, <3>2, <3>3, <3>4 DEF Promise!Return
      <3>5. CASE r # Observed
        BY <3>1, <3>2, <3>5
      <3>6. QED
        BY <3>4, <3>5
    <2>3. ASSUME NEW r \in Requesters, Send(r) \/ Wait(r) \/ Expire(r) \/ EndAttempt(r)
          PROVE  Promise!ExchangeNext \/ UNCHANGED Promise!exchangeVars
      <3>1. /\ \E at : pc' = [pc EXCEPT ![r] = at]
            /\ pc[r] # "idle" /\ UNCHANGED <<current, outcome>>
        BY <2>3 DEF Send, Wait, Expire, EndAttempt
      <3>2. CASE r = Observed
        <4>1. outcome'[r] = 0
          BY <3>1 DEF Owned
        <4>2. CASE pc'[r] = "idle"
          BY <3>1, <3>2, <4>1, <4>2 DEF Promise!Return
        <4>3. CASE pc'[r] # "idle"
          BY <3>1, <3>2, <4>3
        <4>4. QED
          BY <4>2, <4>3
      <3>3. CASE r # Observed
        BY <3>1, <3>3
      <3>4. QED
        BY <3>2, <3>3
    <2>4. CASE KeepResponse \/ KeepNotification
      <3>1. /\ pc' = [r \in Requesters |-> IF pc[r] = "blocked" THEN "check" ELSE pc[r]]
            /\ UNCHANGED <<current, outcome>>
        BY <2>4 DEF KeepResponse, KeepNotification, NotifyAll
      <3>2. pc'[Observed] # "idle" <=> pc[Observed] # "idle"
        BY <3>1
      <3>3. QED
        BY <3>1, <3>2
    <2>5. CASE UNCHANGED <<pc, current, outcome>>
      BY <2>5
    <2>6. \/ \E r \in Requesters : \/ Request(r) \/ Send(r) \/ TakeResponse(r) \/ Wait(r)
                                  \/ Expire(r) \/ EndAttempt(r)
          \/ KeepResponse \/ KeepNotification
          \/ UNCHANGED <<pc, current, outcome>>
      BY WorkstationActions DEF workstationVars, requesting, serving, watching, Mark, Find,
         WatcherWaits, WatcherExpires, WatcherGivesUp, Receive, ReceiveResponse,
         ReceiveNotification, Acknowledge, StopServing, SetAnswering, Close, CloseSocket
    <2>7. QED
      BY <2>1, <2>2, <2>3, <2>4, <2>5, <2>6
  <1>3. QED
    BY <1>1, <1>2, OwnsInductive, PTL DEF WorkstationSpec, Promise!ExchangeSafety

-----------------------------------------------------------------------------
(* Every confirmed notification is answered                                *)

ToAnswer(seq, n) == {i \in 1..n : seq[i] \in Confirmed}

\* What was kept is settled, but for the last while the serving thread has yet
\* to acknowledge it; and the socket is open until the thread has ended.
Settles ==
    /\ notifications \in Seq(Alarms)
    /\ taken.kind = "notification" => taken.alarm \in Alarms
    /\ server # "ack" => settled = Cardinality(ToAnswer(notifications, Len(notifications)))
    /\ server = "ack" =>
         /\ Len(notifications) > 0 /\ taken.alarm = notifications[Len(notifications)]
         /\ settled = Cardinality(ToAnswer(notifications, Len(notifications) - 1))
    /\ open = "closed" => server = "ended"

\* One more notification adds itself to those to answer, if it is confirmed.
LEMMA OneMore ==
    ASSUME NEW seq \in Seq(Alarms), NEW n \in 1..Len(seq)
    PROVE  Cardinality(ToAnswer(seq, n)) =
             Cardinality(ToAnswer(seq, n - 1)) + IF seq[n] \in Confirmed THEN 1 ELSE 0
  <1>1. IsFiniteSet(ToAnswer(seq, n - 1))
    <2>1. IsFiniteSet(1..n-1)
      BY FS_Interval
    <2>2. ToAnswer(seq, n - 1) \subseteq 1..n-1
      BY DEF ToAnswer
    <2>3. QED
      BY <2>1, <2>2, FS_Subset
  <1>2. Cardinality(ToAnswer(seq, n - 1)) \in Nat
    BY <1>1, FS_CardinalityType
  <1>3. CASE seq[n] \in Confirmed
    <2>1. ToAnswer(seq, n) = ToAnswer(seq, n - 1) \cup {n} /\ n \notin ToAnswer(seq, n - 1)
      BY <1>3 DEF ToAnswer
    <2>2. Cardinality(ToAnswer(seq, n - 1) \cup {n}) = Cardinality(ToAnswer(seq, n - 1)) + 1
      BY <1>1, <2>1, FS_AddElement
    <2>3. Cardinality(ToAnswer(seq, n)) = Cardinality(ToAnswer(seq, n - 1)) + 1
      BY <2>1, <2>2, Zenon
    <2>4. QED
      BY <1>3, <2>3
  <1>4. CASE seq[n] \notin Confirmed
    <2>1. ToAnswer(seq, n) = ToAnswer(seq, n - 1)
      BY <1>4 DEF ToAnswer
    <2>2. Cardinality(ToAnswer(seq, n)) = Cardinality(ToAnswer(seq, n - 1))
      BY <2>1, Zenon
    <2>3. QED
      BY <1>2, <1>4, <2>2
  <1>5. QED
    BY <1>3, <1>4

\* Only keeping and acknowledging a notification touch the account.
LEMMA SettlesInductive == Settles /\ [WorkstationNext]_workstationVars => Settles'
  <1> SUFFICES ASSUME Settles, [WorkstationNext]_workstationVars
               PROVE  Settles'
    OBVIOUS
  <1> USE DEF Settles
  <1>1. CASE KeepNotification
    <2>1. /\ notifications' = Append(notifications, taken.alarm) /\ taken.alarm \in Alarms
          /\ server = "keep" /\ server' = "ack" /\ UNCHANGED <<taken, settled, open>>
      BY <1>1 DEF KeepNotification
    <2>2. /\ notifications' \in Seq(Alarms) /\ Len(notifications') = Len(notifications) + 1
          /\ taken'.alarm = notifications'[Len(notifications')]
      BY <2>1
    <2>3. ToAnswer(notifications', Len(notifications') - 1) = ToAnswer(notifications, Len(notifications))
      BY <2>1, <2>2 DEF ToAnswer
    <2>4. settled' = Cardinality(ToAnswer(notifications', Len(notifications') - 1))
      BY <2>1, <2>3, Zenon
    <2>5. open' # "closed" /\ Len(notifications') > 0
      BY <2>1, <2>2
    <2>6. QED
      BY <2>1, <2>2, <2>4, <2>5
  <1>2. CASE Acknowledge
    <2>1. /\ server = "ack" /\ open # "closed" /\ server' # "ack"
          /\ server' \in {"select", "ended"} /\ taken' = NoFrame
          /\ UNCHANGED <<notifications, open>>
      BY <1>2 DEF Acknowledge, Looped
    <2>2. Len(notifications) \in 1..Len(notifications)
      BY <2>1
    <2>3. settled' = settled + IF notifications[Len(notifications)] \in Confirmed THEN 1 ELSE 0
      <3>1. settled \in Nat
        <4>1. Len(notifications) - 1 \in Nat
          BY <2>2
        <4>2. IsFiniteSet(1..Len(notifications) - 1)
          BY <4>1, FS_Interval
        <4>3. ToAnswer(notifications, Len(notifications) - 1) \subseteq 1..Len(notifications) - 1
          BY DEF ToAnswer
        <4>4. Cardinality(ToAnswer(notifications, Len(notifications) - 1)) \in Nat
          BY <4>2, <4>3, FS_Subset, FS_CardinalityType
        <4>5. QED
          BY <2>1, <4>4
      <3>2. QED
        BY <1>2, <2>1, <3>1 DEF Acknowledge
    <2>4. settled' = Cardinality(ToAnswer(notifications, Len(notifications)))
      BY <2>1, <2>2, <2>3, OneMore
    <2>5. taken'.kind # "notification"
      BY <2>1 DEF NoFrame
    <2>6. settled' = Cardinality(ToAnswer(notifications', Len(notifications')))
      BY <2>1, <2>4
    <2>7. QED
      BY <2>1, <2>5, <2>6
  <1>3. CASE UNCHANGED <<notifications, settled, open, server, taken>>
    BY <1>3
  <1>4. CASE Close \/ CloseSocket
    BY <1>4 DEF Close, CloseSocket, serving, Joined
  <1>5. CASE StopServing
    BY <1>5 DEF StopServing
  <1>6. CASE KeepResponse
    <2>1. /\ UNCHANGED <<notifications, settled, open>> /\ server = "keep"
          /\ server' \in {"select", "ended"} /\ taken' = NoFrame
      BY <1>6 DEF KeepResponse, Looped
    <2>2. QED
      BY <2>1 DEF NoFrame
  <1>7. ASSUME NEW p \in underway, ReceiveResponse(p)
        PROVE  Settles'
    BY <1>7 DEF ReceiveResponse, Receive, Response
  <1>8. ASSUME NEW a \in Alarms, ReceiveNotification(a)
        PROVE  Settles'
    BY <1>8 DEF ReceiveNotification, Receive, Notification
  <1>9. \/ KeepNotification \/ Acknowledge \/ Close \/ CloseSocket \/ StopServing \/ KeepResponse
        \/ \E p \in underway : ReceiveResponse(p)
        \/ \E a \in Alarms : ReceiveNotification(a)
        \/ UNCHANGED <<notifications, settled, open, server, taken>>
    BY WorkstationActions DEF workstationVars, serving, Request, Send, TakeResponse, Wait, Expire,
       EndAttempt, Mark, Find, WatcherWaits, WatcherExpires, WatcherGivesUp, SetAnswering
  <1>10. QED
    BY <1>1, <1>2, <1>3, <1>4, <1>5, <1>6, <1>7, <1>8, <1>9

\* workstation.py:10-12: no confirmed notification that was kept goes without its
\* SimpleACK unless the recipient was told to be silent, whenever close() comes.
THEOREM ConfirmedAreAnswered == WorkstationSpec => []EveryOneAnswered
  <1>1. WorkstationInit => Settles
    <2> SUFFICES ASSUME WorkstationInit PROVE Settles
      OBVIOUS
    <2>1. ToAnswer(notifications, Len(notifications)) = {}
      BY DEF WorkstationInit, ToAnswer
    <2>2. Cardinality(ToAnswer(notifications, Len(notifications))) = 0
      BY <2>1, FS_EmptySet, Zenon
    <2>3. QED
      BY <2>2 DEF WorkstationInit, Settles, NoFrame
  <1>2. Settles => EveryOneAnswered
    BY Zenon DEF Settles, EveryOneAnswered, ToAnswer
  <1>3. QED
    BY <1>1, <1>2, SettlesInductive, PTL DEF WorkstationSpec

-----------------------------------------------------------------------------
(* Types                                                                   *)

\* The bounds hold because a thread about to send has an attempt left, a call
\* under way has its number, and a notification in hand fits in the list.
Typed ==
    /\ WorkstationTypeOK
    /\ \A r \in Requesters : /\ pc[r] = "send" => attempt[r] <= Retries
                             /\ pc[r] # "idle" => current[r] > 0
    /\ server = "keep" /\ taken.kind = "notification" => Len(notifications) < MaxKept
    /\ settled <= Len(notifications)
    /\ server = "ack" => settled < Len(notifications)

\* The types and what bounds them are inductive.
LEMMA TypedInductive == Typed /\ [WorkstationNext]_workstationVars => Typed'
  <1> SUFFICES ASSUME Typed, [WorkstationNext]_workstationVars
               PROVE  Typed'
    OBVIOUS
  <1> USE IdModulusAssumption, RetriesAssumption, BoundsAssumption DEF Typed, WorkstationTypeOK
  <1>1. ASSUME NEW r \in Requesters, Request(r)
        PROVE  Typed'
    <2>1. NextId \in 0..IdModulus-1
      BY NextIdWraps DEF NextId
    <2>2. made + 1 \in 1..MaxRequests
      BY <1>1 DEF Request
    <2>3. responses' \subseteq Pdu /\ underway' \subseteq Pdu
      BY <1>1 DEF Request, ForgetResponses
    <2>4. QED
      BY <1>1, <2>1, <2>2, <2>3 DEF Request, serving, watching
  <1>2. ASSUME NEW r \in Requesters, Send(r)
        PROVE  Typed'
    <2>1. [id |-> id[r], of |-> current[r]] \in Pdu
      <3>1. id[r] \in 0..IdModulus-1 /\ current[r] \in 1..MaxRequests
        <4>1. pc[r] # "idle"
          BY <1>2 DEF Send
        <4>2. current[r] \in 0..MaxRequests /\ current[r] > 0 /\ id[r] \in 0..IdModulus-1
          BY <4>1
        <4>3. QED
          BY <4>2
      <3>2. QED
        BY <3>1, Zenon DEF Pdu
    <2>2. QED
      BY <1>2, <2>1 DEF Send, serving, watching
  <1>3. ASSUME NEW r \in Requesters, TakeResponse(r)
        PROVE  Typed'
    <2>1. PICK p \in Pdu : /\ responses' \in {responses, responses \ {p}}
                           /\ outcome' = [outcome EXCEPT ![r] = p.of]
      BY <1>3 DEF TakeResponse, Matching
    <2>2. p.of \in 0..MaxRequests
      BY DEF Pdu
    <2>3. QED
      BY <1>3, <2>1, <2>2 DEF TakeResponse, serving, watching
  <1>4. ASSUME NEW r \in Requesters, Wait(r) \/ Expire(r) \/ EndAttempt(r)
        PROVE  Typed'
    BY <1>4 DEF Wait, Expire, EndAttempt, serving, watching
  <1>5. CASE Mark \/ WatcherWaits \/ WatcherExpires \/ WatcherGivesUp
    BY <1>5 DEF Mark, WatcherWaits, WatcherExpires, WatcherGivesUp, requesting, serving
  <1>6. CASE Find
    <2>1. Hits \subseteq 0..MaxKept /\ Hits # {}
      <3>1. mark \in Nat /\ Len(notifications) \in Nat /\ Len(notifications) <= MaxKept
        OBVIOUS
      <3>2. mark+1..Len(notifications) \subseteq 0..MaxKept
        BY <3>1
      <3>3. Hits \subseteq mark+1..Len(notifications)
        BY Zenon DEF Hits
      <3>4. Hits # {}
        BY <1>6 DEF Find
      <3>5. QED
        BY <3>2, <3>3, <3>4, Zenon
    <2>2. Hits \subseteq Nat
      BY <2>1
    <2>3. \E i \in Hits : \A j \in Hits : i <= j
      BY <2>1, <2>2, Smallest, Zenon
    <2>4. found' \in 0..MaxKept
      BY <1>6, <2>1, <2>3, Zenon DEF Find
    <2>5. QED
      BY <1>6, <2>4 DEF Find, requesting, serving
  <1>7. ASSUME NEW p \in underway, ReceiveResponse(p)
        PROVE  Typed'
    BY <1>7 DEF ReceiveResponse, Receive, Response, requesting, watching
  <1>8. ASSUME NEW a \in Alarms, ReceiveNotification(a)
        PROVE  Typed'
    BY <1>8 DEF ReceiveNotification, Receive, Notification, requesting, watching
  <1>9. CASE KeepResponse
    <2>1. taken.pdu \in Pdu
      BY <1>9 DEF KeepResponse, NoFrame, Response, Notification
    <2>2. /\ pc' \in [Requesters -> {"idle", "send", "check", "blocked", "late"}]
          /\ \A r \in Requesters : (pc'[r] = "send" => pc[r] = "send") /\ (pc'[r] # "idle" => pc[r] # "idle")
          /\ watcher' \in {"idle", "check", "blocked", "late"}
      BY <1>9 DEF KeepResponse, NotifyAll
    <2>3. server = "keep" /\ server' \in {"select", "ended"} /\ taken' = NoFrame
      BY <1>9 DEF KeepResponse, Looped
    <2>4. QED
      BY <1>9, <2>1, <2>2, <2>3 DEF KeepResponse
  <1>10. CASE KeepNotification
    <2>1. taken.alarm \in Alarms
      BY <1>10 DEF KeepNotification, NoFrame, Response, Notification
    <2>2. /\ pc' \in [Requesters -> {"idle", "send", "check", "blocked", "late"}]
          /\ \A r \in Requesters : (pc'[r] = "send" => pc[r] = "send") /\ (pc'[r] # "idle" => pc[r] # "idle")
          /\ watcher' \in {"idle", "check", "blocked", "late"}
      BY <1>10 DEF KeepNotification, NotifyAll
    <2>3. notifications' \in Seq(Alarms) /\ Len(notifications') = Len(notifications) + 1
      BY <1>10, <2>1 DEF KeepNotification
    <2>4. QED
      BY <1>10, <2>2, <2>3 DEF KeepNotification
  <1>11. CASE Acknowledge
    <2>1. server' \in {"select", "ended"} /\ taken' = NoFrame
      BY <1>11 DEF Acknowledge, Looped
    <2>2. settled' \in 0..MaxKept /\ settled' <= Len(notifications)
      BY <1>11 DEF Acknowledge
    <2>3. QED
      BY <1>11, <2>1, <2>2 DEF Acknowledge, requesting, watching
  <1>12. CASE StopServing \/ Close \/ CloseSocket \/ \E b \in BOOLEAN : SetAnswering(b)
    BY <1>12 DEF StopServing, Close, CloseSocket, SetAnswering, requesting, serving, watching
  <1>13. CASE UNCHANGED workstationVars
    BY <1>13 DEF workstationVars, requesting, serving, watching
  <1>14. QED
    BY <1>1, <1>2, <1>3, <1>4, <1>5, <1>6, <1>7, <1>8, <1>9, <1>10, <1>11, <1>12, <1>13,
       WorkstationActions

\* The variables of the workstation keep their types.
THEOREM WorkstationTypeCorrect == WorkstationSpec => []WorkstationTypeOK
  <1>1. WorkstationInit => Typed
    BY IdModulusAssumption, RetriesAssumption, BoundsAssumption DEF WorkstationInit, Typed, WorkstationTypeOK
  <1>2. Typed => WorkstationTypeOK
    BY DEF Typed
  <1>3. QED
    BY <1>1, <1>2, TypedInductive, PTL DEF WorkstationSpec
=============================================================================
