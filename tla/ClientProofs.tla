---------------------------- MODULE ClientProofs ----------------------------
(***************************************************************************)
(* The wire-test client never takes an old answer for a new one, for any   *)
(* number of invoke ids, retries and requests, on a network that keeps no  *)
(* datagram for as many requests as there are invoke ids.                  *)
(***************************************************************************)
EXTENDS Client, TLAPS

\* The request a datagram belongs to is recent, and its invoke id is as far
\* behind the current one as its request is, counting round the modulus.
IdTells(p) ==
    /\ p.id \in 0..IdModulus-1
    /\ p.of \in 1..current
    /\ current - p.of < Lifetime
    /\ \/ p.id + (current - p.of) = invokeId
       \/ p.id + (current - p.of) = invokeId + IdModulus

\* The inductive invariant of the client.
IdInv ==
    /\ current \in Nat
    /\ invokeId \in 0..IdModulus-1
    /\ \A p \in frames \union requests \union replies : IdTells(p)
    /\ outcome \in {None, current}
    /\ waiting => current > 0

\* _next_invoke_id (client.py:144-146) counts up and wraps.
LEMMA NextIdWraps ==
    ASSUME NEW i \in 0..IdModulus-1
    PROVE  (i + 1) % IdModulus = IF i + 1 = IdModulus THEN 0 ELSE i + 1
  BY IdModulusAssumption

\* Every step of request(), the device and the network keeps the invariant.
LEMMA IdInvInductive ==
    ASSUME Lifetime <= IdModulus
    PROVE  IdInv /\ [ClientNext]_clientVars => IdInv'
  <1> SUFFICES ASSUME IdInv, [ClientNext]_clientVars
               PROVE  IdInv'
    OBVIOUS
  <1> USE IdModulusAssumption, LifetimeAssumption DEF IdInv
  <1>1. CASE Request
    <2>1. /\ current' = current + 1
          /\ invokeId' = IF invokeId + 1 = IdModulus THEN 0 ELSE invokeId + 1
          /\ frames' = {} /\ outcome' = None /\ current' > 0
      BY <1>1, NextIdWraps DEF Request, NextInvokeId, ClearFrames
    <2>2. ASSUME NEW p \in requests' \union replies'
          PROVE  IdTells(p)'
      <3>1. CASE p = CurrentPdu'
        BY <2>1, <3>1 DEF IdTells, CurrentPdu
      <3>2. CASE p \in Surviving(requests \union replies, current + 1)
        <4>1. p \in requests \union replies
          BY <3>2, Zenon DEF Surviving
        <4>2. Lives(p, current + 1)
          BY <3>2, Zenon DEF Surviving
        <4>3. IdTells(p)
          BY <4>1
        <4>4. QED
          BY <2>1, <4>2, <4>3 DEF IdTells, Lives
      <3>3. \/ p \in Surviving(requests \union replies, current + 1)
            \/ p = CurrentPdu'
        BY <1>1, <2>2 DEF Request, Surviving
      <3>4. QED
        BY <3>1, <3>2, <3>3
    <2>3. QED
      BY <2>1, <2>2
  <1>2. CASE ReturnAnswer
    <2>1. PICK frame \in frames : Matches(frame) /\ outcome' = frame.of
      BY <1>2 DEF ReturnAnswer
    <2>2. frame.of = current
      BY <2>1 DEF Matches, IdTells
    <2>3. QED
      BY <1>2, <2>1, <2>2 DEF ReturnAnswer, IdTells
  <1>3. CASE SendAgain
    <2>1. requests' = requests \union {CurrentPdu}
      BY <1>3 DEF SendAgain
    <2>2. IdTells(CurrentPdu)
      BY <1>3 DEF SendAgain, IdTells, CurrentPdu
    <2>3. QED
      BY <1>3, <2>1, <2>2 DEF SendAgain, IdTells
  <1>4. CASE GiveUp
    BY <1>4 DEF GiveUp, IdTells
  <1>5. ASSUME NEW p \in replies, Receive(p)
        PROVE  IdInv'
    BY <1>5 DEF Receive, IdTells
  <1>6. ASSUME NEW p \in requests, DeviceAnswers(p)
        PROVE  IdInv'
    BY <1>6 DEF DeviceAnswers, IdTells
  <1>7. ASSUME NEW p \in requests \union replies, Lose(p)
        PROVE  IdInv'
    BY <1>7 DEF Lose, IdTells
  <1>8. CASE UNCHANGED clientVars
    BY <1>8 DEF clientVars, IdTells
  <1>9. QED
    BY <1>1, <1>2, <1>3, <1>4, <1>5, <1>6, <1>7, <1>8 DEF ClientNext

\* client.py:148-162: the answer request() returns was sent for this request.
THEOREM ClientAnswersOwnRequest ==
    ASSUME Lifetime <= IdModulus
    PROVE  ClientSpec => []AnswersOwnRequest
  <1>1. ClientInit => IdInv
    BY IdModulusAssumption DEF ClientInit, IdInv
  <1>2. IdInv => AnswersOwnRequest
    BY DEF IdInv, AnswersOwnRequest
  <1>3. QED
    BY <1>1, <1>2, IdInvInductive, PTL DEF ClientSpec

\* The types, and a request that is waited for was made.
Typed == ClientTypeOK /\ (waiting => current > 0)

\* The variables of the client keep their types, every datagram included.
THEOREM ClientTypeCorrect == ClientSpec => []ClientTypeOK
  <1> USE IdModulusAssumption, RetriesAssumption, MaxRequestsAssumption
  <1>1. ClientInit => Typed
    <2> SUFFICES ASSUME ClientInit PROVE Typed
      OBVIOUS
    <2>1. ~waiting /\ waiting \in BOOLEAN
      BY DEF ClientInit
    <2>2. /\ current = 0 /\ invokeId = 0 /\ attempt = 0 /\ outcome = 0
          /\ frames = {} /\ requests = {} /\ replies = {}
      BY DEF ClientInit, None
    <2>3. QED
      BY <2>1, <2>2 DEF Typed, ClientTypeOK
  <1>2. Typed /\ [ClientNext]_clientVars => Typed'
    <2> SUFFICES ASSUME Typed, [ClientNext]_clientVars
                 PROVE  Typed'
      OBVIOUS
    <2> USE DEF Typed, ClientTypeOK, None
    <2>1. CASE Request
      <3>1. invokeId' \in 0..IdModulus-1 /\ current' \in 1..MaxRequests
        BY <2>1, NextIdWraps DEF Request, NextInvokeId
      <3>2. CurrentPdu' \in Pdu
        BY <3>1 DEF CurrentPdu, Pdu
      <3>3. QED
        BY <2>1, <3>1, <3>2 DEF Request, ClearFrames, Surviving
    <2>2. CASE ReturnAnswer
      <3>1. outcome' \in 0..MaxRequests
        BY <2>2 DEF ReturnAnswer, Pdu
      <3>2. ~waiting' /\ waiting' \in BOOLEAN
        BY <2>2, Zenon DEF ReturnAnswer
      <3>3. UNCHANGED <<current, invokeId, attempt, frames, requests, replies>>
        BY <2>2 DEF ReturnAnswer
      <3>4. QED
        BY <3>1, <3>2, <3>3
    <2>3. CASE GiveUp
      BY <2>3 DEF GiveUp
    <2>4. CASE SendAgain
      <3>1. CurrentPdu \in Pdu
        BY <2>4 DEF SendAgain, CurrentPdu, Pdu
      <3>2. QED
        BY <2>4, <3>1 DEF SendAgain
    <2>5. ASSUME NEW p \in replies, Receive(p)
          PROVE  Typed'
      BY <2>5 DEF Receive
    <2>6. ASSUME NEW p \in requests, DeviceAnswers(p)
          PROVE  Typed'
      BY <2>6 DEF DeviceAnswers
    <2>7. ASSUME NEW p \in requests \union replies, Lose(p)
          PROVE  Typed'
      BY <2>7 DEF Lose
    <2>8. CASE UNCHANGED clientVars
      BY <2>8 DEF clientVars
    <2>9. QED
      BY <2>1, <2>2, <2>3, <2>4, <2>5, <2>6, <2>7, <2>8 DEF ClientNext
  <1>3. Typed => ClientTypeOK
    BY DEF Typed
  <1>4. QED
    BY <1>1, <1>2, <1>3, PTL DEF ClientSpec

\* client.py:148-162: every step of the client and the network is a step of the
\* exchange its callers rely on, or invisible to them: a call returns its own
\* answer or none, and nothing changes between calls.
THEOREM ClientImplementsExchange ==
    ASSUME Lifetime <= IdModulus
    PROVE  ClientSpec => Promise!ExchangeSafety
  <1>1. ClientInit => IdInv /\ Promise!ExchangeInit
    BY IdModulusAssumption DEF ClientInit, IdInv, Promise!ExchangeInit, None
  <1>2. IdInv /\ [ClientNext]_clientVars => [Promise!ExchangeNext]_(Promise!exchangeVars)
    <2> SUFFICES ASSUME IdInv, [ClientNext]_clientVars
                 PROVE  Promise!ExchangeNext \/ UNCHANGED Promise!exchangeVars
      OBVIOUS
    <2> USE DEF Promise!ExchangeNext, Promise!exchangeVars
    <2>1. CASE Request
      <3>1. /\ current' = current + 1 /\ current \in Nat
            /\ outcome' = 0
        BY <2>1 DEF Request, IdInv, None
      <3>2. ~waiting /\ waiting' = TRUE
        BY <2>1, Zenon DEF Request
      <3>3. current' \in Nat /\ current' > current
        BY <3>1
      <3>4. Promise!Call
        BY <3>1, <3>2, <3>3, Zenon DEF Promise!Call
      <3>5. QED
        BY <3>4
    <2>2. CASE ReturnAnswer
      <3>1. PICK frame \in frames : Matches(frame) /\ outcome' = frame.of
        BY <2>2 DEF ReturnAnswer
      <3>2. frame.of = current
        BY <3>1, IdModulusAssumption, LifetimeAssumption DEF IdInv, Matches, IdTells
      <3>3. QED
        BY <2>2, <3>1, <3>2 DEF ReturnAnswer, Promise!Return
    <2>3. CASE GiveUp
      BY <2>3 DEF GiveUp, IdInv, Promise!Return, None
    <2>4. CASE SendAgain
      BY <2>4 DEF SendAgain
    <2>5. CASE \E p \in replies : Receive(p)
      BY <2>5 DEF Receive
    <2>6. CASE \E p \in requests : DeviceAnswers(p)
      BY <2>6 DEF DeviceAnswers
    <2>7. CASE \E p \in requests \union replies : Lose(p)
      BY <2>7 DEF Lose
    <2>8. CASE UNCHANGED clientVars
      BY <2>8 DEF clientVars
    <2>9. QED
      BY <2>1, <2>2, <2>3, <2>4, <2>5, <2>6, <2>7, <2>8 DEF ClientNext
  <1>3. QED
    BY <1>1, <1>2, IdInvInductive, PTL DEF ClientSpec, Promise!ExchangeSafety
=============================================================================
