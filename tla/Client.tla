------------------------------- MODULE Client -------------------------------
(***************************************************************************)
(* wiretest/client.py and endpoint.py: the confirmed-request client of the *)
(* wire tests.  request() takes the next invoke id modulo IdModulus (256   *)
(* in the code), forgets the frames it kept, sends, and waits for the      *)
(* first frame that carries the id; send_with_retries sends the same       *)
(* octets again after a timeout.  A match is on the invoke id alone.       *)
(*                                                                         *)
(* External: the device, which answers every request it gets, and a UDP    *)
(* network that loses, duplicates, delays and reorders, but delivers no    *)
(* datagram later than Lifetime requests after it was sent.                *)
(***************************************************************************)
EXTENDS Naturals

CONSTANTS
    IdModulus,    \* invoke ids are 0..IdModulus-1
    Retries,      \* Client.retries
    Lifetime,     \* network: a datagram dies this many requests later
    MaxRequests   \* bound: requests a test sends

ASSUME IdModulusAssumption == IdModulus \in Nat \ {0}
ASSUME RetriesAssumption == Retries \in Nat
ASSUME LifetimeAssumption == Lifetime \in Nat \ {0}
ASSUME MaxRequestsAssumption == MaxRequests \in Nat

None == 0

VARIABLES
    waiting,   \* inside request()
    current,   \* history: number of the request last made, from 1
    invokeId,  \* Client._invoke_id
    attempt,   \* attempts made for the current request
    frames,    \* Endpoint.frames, the frames kept
    requests,  \* request datagrams in the network
    replies,   \* answer datagrams in the network or the socket's buffer
    outcome    \* the request whose answer request() returned, or None

clientVars == <<waiting, current, invokeId, attempt, frames, requests, replies, outcome>>

\* A confirmed request or its answer; of is the request it belongs to.
Pdu == [id : 0..IdModulus-1, of : 1..MaxRequests]

ClientTypeOK ==
    /\ waiting \in BOOLEAN
    /\ current \in 0..MaxRequests
    /\ invokeId \in 0..IdModulus-1
    /\ attempt \in 0..Retries+1
    /\ frames \subseteq Pdu
    /\ requests \subseteq Pdu
    /\ replies \subseteq Pdu
    /\ outcome \in 0..MaxRequests

ClientInit ==
    /\ waiting = FALSE
    /\ current = 0
    /\ invokeId = 0
    /\ attempt = 0
    /\ frames = {}
    /\ requests = {}
    /\ replies = {}
    /\ outcome = None

-----------------------------------------------------------------------------
\* What is left of a set of datagrams once request n is made.
Lives(pdu, n) == n - pdu.of < Lifetime
Surviving(pdus, n) == {pdu \in pdus : Lives(pdu, n)}

CurrentPdu == [id |-> invokeId, of |-> current]

NextInvokeId == (invokeId + 1) % IdModulus

\* Mutant: request() does not clear the frames kept.
MutKeepFrames == UNCHANGED frames

ClearFrames == frames' = {}

\* request(): the next id, the kept frames forgotten, the first attempt sent.
Request ==
    /\ ~waiting
    /\ current < MaxRequests
    /\ waiting' = TRUE
    /\ current' = current + 1
    /\ invokeId' = NextInvokeId
    /\ attempt' = 1
    /\ outcome' = None
    /\ ClearFrames
    /\ requests' = Surviving(requests, current + 1) \union {CurrentPdu'}
    /\ replies' = Surviving(replies, current + 1)

Matches(frame) == frame.id = invokeId

\* wait_for: the first frame with the invoke id is the answer.
ReturnAnswer ==
    /\ waiting
    /\ \E frame \in frames :
        /\ Matches(frame)
        /\ outcome' = frame.of
    /\ waiting' = FALSE
    /\ UNCHANGED <<current, invokeId, attempt, frames, requests, replies>>

NoMatch == \A frame \in frames : ~Matches(frame)

\* _receive: a datagram joins the kept frames; the network may hold a copy.
Receive(p) ==
    /\ waiting /\ NoMatch
    /\ frames' = frames \union {p}
    /\ replies' \in {replies, replies \ {p}}
    /\ UNCHANGED <<waiting, current, invokeId, attempt, requests, outcome>>

\* Mutant: the retry loop never counts.
MutEndlessRetry ==
    /\ waiting /\ NoMatch
    /\ attempt <= Retries
    /\ requests' = requests \union {CurrentPdu}
    /\ UNCHANGED <<waiting, current, invokeId, attempt, frames, replies, outcome>>

\* The attempt timed out: [RETRY], the same octets with the same invoke id.
SendAgain ==
    /\ waiting /\ NoMatch
    /\ attempt <= Retries
    /\ attempt' = attempt + 1
    /\ requests' = requests \union {CurrentPdu}
    /\ UNCHANGED <<waiting, current, invokeId, frames, replies, outcome>>

\* The last attempt timed out: Answer(None).
GiveUp ==
    /\ waiting /\ NoMatch
    /\ attempt = Retries + 1
    /\ waiting' = FALSE
    /\ UNCHANGED <<current, invokeId, attempt, frames, requests, replies, outcome>>

-----------------------------------------------------------------------------
\* The device answers a request; the network may deliver it again.
DeviceAnswers(p) ==
    /\ requests' \in {requests, requests \ {p}}
    /\ replies' = replies \union {p}
    /\ UNCHANGED <<waiting, current, invokeId, attempt, frames, outcome>>

Lose(p) ==
    /\ requests' = requests \ {p}
    /\ replies' = replies \ {p}
    /\ UNCHANGED <<waiting, current, invokeId, attempt, frames, outcome>>

ClientNext ==
    \/ Request \/ ReturnAnswer \/ SendAgain \/ GiveUp
    \/ \E p \in replies : Receive(p)
    \/ \E p \in requests : DeviceAnswers(p)
    \/ \E p \in requests \union replies : Lose(p)

\* The client's own timeouts fire; nothing is assumed of device or network.
ClientFairness == WF_clientVars(ReturnAnswer \/ SendAgain \/ GiveUp)

ClientSpec == ClientInit /\ [][ClientNext]_clientVars /\ ClientFairness

-----------------------------------------------------------------------------
\* client.py:149: "return the Answer with that invoke id": the answer request()
\* returns was sent for this very request, never for an earlier one whose id
\* came round again.
AnswersOwnRequest == ~waiting /\ outcome # None => outcome = current

Promise == INSTANCE Exchange WITH called <- current

\* The client implements the exchange its callers rely on: whatever is lost,
\* duplicated or late, each request() ends, with its own answer or with none, and
\* what it returned stays so until the next.
ImplementsExchange == Promise!ExchangeSpec
=============================================================================
