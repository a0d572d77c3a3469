----------------------------- MODULE PeerServer -----------------------------
(***************************************************************************)
(* wiretest/peer.py, SimulatedServer: the simulated device on the far side *)
(* of an example under test, with one commandable object (its              *)
(* Present_Value behind a priority array) and one plain object.            *)
(*                                                                         *)
(* Two threads share it without a lock around the served values and the    *)
(* mode: the background thread that answers frames (_serve), whose steps   *)
(* end where it reads or writes what the other thread may touch, and the   *)
(* test, which switches mode and failures at any time and reads what is    *)
(* served with value(), in whatever state it finds it.                     *)
(*                                                                         *)
(* External: the example, whose requests arrive in the socket's buffer.    *)
(***************************************************************************)
EXTENDS Naturals, Sequences

CONSTANTS
    Values,          \* the values an object may hold
    Null,            \* the application-tagged NULL
    RelinquishDefault,
    Slots,           \* 16 in the code; the last is PRIORITY_DEFAULT
    Priorities,      \* priorities a request may carry, 0 for none
    MaxRequests      \* bound: requests the example sends

ASSUME RelinquishDefaultAssumption == RelinquishDefault \in Values
ASSUME NullAssumption == Null \notin Values
ASSUME SlotsAssumption == Slots \in Nat \ {0}
ASSUME PrioritiesAssumption == Priorities \subseteq Nat
ASSUME MaxRequestsAssumption == MaxRequests \in Nat

Objects == {"commandable", "plain"}
Failures == {"none", "reject", "abort", "silent", "malformed"}
Answers == {"nothing", "ack", "error", "reject", "abort", "value", "malformed"}
\* Priority and value tell writes of the commandable object apart; of the
\* others it is enough to know whether the value is NULL.
Write ==
    [service : {"write"}, object : {"commandable"}, value : Values \cup {Null},
     priority : Priorities]
    \cup [service : {"write"}, object : {"plain", "unlisted"},
          value : {RelinquishDefault, Null}, priority : {0}]
ReadRequest == [service |-> "read", object |-> "commandable",
                value |-> Null, priority |-> 0]
Requests == Write \cup {ReadRequest}

VARIABLES
    mode,          \* "online", "offline" or "refusing"
    failures,      \* the failure configured for the commandable object
    values,        \* objects[...]: the value served for each
    slots,         \* priority_arrays[commandable]
    inbox,         \* the socket's receive buffer
    pc,            \* where the serving thread is
    frame,         \* the request it is serving
    failure,       \* _answer's local failure
    received,      \* the number of frames it took
    writeRequests, \* the number of writes kept in write_requests
    unanswered,    \* requests_while_offline + silent_requests
    answer,        \* the answer to this request, once it is served
    writes,        \* history: the writes it took
    failed,        \* history: the writes a configured failure ended
    switched       \* history: the mode was switched under this request

serving == <<pc, frame, failure, answer>>
history == <<writes, failed, switched>>
peerVars == <<mode, failures, values, slots, inbox, serving, received,
              writeRequests, unanswered, history>>

PeerTypeOK ==
    /\ mode \in {"online", "offline", "refusing"}
    /\ failures \in Failures
    /\ values \in [Objects -> Values \cup {Null}]
    /\ slots \in [1..Slots -> Values \cup {Null}]
    /\ inbox \in Seq(Requests)
    /\ pc \in {"idle", "answer", "log", "mode", "write", "allow", "arbitrate", "read", "dead"}
    /\ frame \in Requests
    /\ failure \in Failures
    /\ received \in 0..MaxRequests
    /\ writeRequests \in 0..received
    /\ unanswered \in Nat
    /\ answer \in Answers
    /\ writes \in 0..received /\ failed \in 0..received
    /\ switched \in BOOLEAN

PeerInit ==
    /\ mode = "online"
    /\ failures = "none"
    /\ values = [o \in Objects |-> RelinquishDefault]
    /\ slots = [p \in 1..Slots |-> Null]
    /\ inbox = <<>>
    /\ pc = "idle"
    /\ frame = ReadRequest
    /\ failure = "none"
    /\ received = 0
    /\ writeRequests = 0
    /\ unanswered = 0
    /\ answer = "nothing"
    /\ writes = 0 /\ failed = 0
    /\ switched = FALSE

-----------------------------------------------------------------------------
(* The example and the test thread                                         *)

RequestArrives(request) ==
    /\ received + Len(inbox) < MaxRequests
    /\ inbox' = Append(inbox, request)
    /\ UNCHANGED <<mode, failures, values, slots, serving, received, writeRequests,
                   unanswered, history>>

SetMode(m) ==
    /\ mode' = m
    /\ switched' = (pc # "idle")
    /\ UNCHANGED <<failures, values, slots, inbox, serving, received, writeRequests,
                   unanswered, writes, failed>>

SetFailure(f) ==
    /\ failures' = f
    /\ UNCHANGED <<mode, values, slots, inbox, serving, received, writeRequests,
                   unanswered, history>>

-----------------------------------------------------------------------------
(* The serving thread                                                      *)

IsWrite == frame.service = "write"

Reply(r) == pc' = "idle" /\ answer' = r
Continue(at) == pc' = at /\ UNCHANGED answer
NotAnswered == unanswered' = unanswered + 1 /\ Reply("nothing")
Answered(r) == UNCHANGED unanswered /\ Reply(r)

Serve ==
    /\ pc = "idle" /\ inbox # <<>>
    /\ frame' = Head(inbox)
    /\ inbox' = Tail(inbox)
    /\ received' = received + 1
    /\ failure' = "none"
    /\ pc' = "answer" /\ answer' = "nothing"
    /\ writes' = writes + (IF frame'.service = "write" THEN 1 ELSE 0)
    /\ switched' = FALSE
    /\ UNCHANGED <<mode, failures, values, slots, writeRequests, unanswered, failed>>

\* The failure configured for the object, looked at while online only.
Answer ==
    LET configured == IF mode = "online" /\ frame.object = "commandable"
                      THEN failures ELSE "none"
    IN  /\ pc = "answer"
        /\ failure' = configured
        /\ \/ configured \in {"reject", "abort"} /\ Answered(configured)
           \/ configured = "silent" /\ NotAnswered
           \/ configured \in {"none", "malformed"} /\ Continue("log") /\ UNCHANGED unanswered
        /\ failed' = failed + (IF IsWrite /\ pc' = "idle" THEN 1 ELSE 0)
        /\ UNCHANGED <<mode, failures, values, slots, inbox, frame, received,
                       writeRequests, writes, switched>>

\* Mutant: the write is kept only by a server that answers.
MutLogNotOffline ==
    /\ pc = "log"
    /\ writeRequests' = writeRequests + (IF IsWrite /\ mode # "offline" THEN 1 ELSE 0)
    /\ Continue("mode")
    /\ UNCHANGED <<mode, failures, values, slots, inbox, frame, failure, received,
                   unanswered, history>>

LogWrite ==
    /\ pc = "log"
    /\ writeRequests' = writeRequests + (IF IsWrite THEN 1 ELSE 0)
    /\ Continue("mode")
    /\ UNCHANGED <<mode, failures, values, slots, inbox, frame, failure, received,
                   unanswered, history>>

CheckOffline ==
    /\ pc = "mode"
    /\ IF mode = "offline" THEN NotAnswered ELSE Continue(frame.service) /\ UNCHANGED unanswered
    /\ UNCHANGED <<mode, failures, values, slots, inbox, frame, failure, received,
                   writeRequests, history>>

\* Mutant: cl. 19.2.1 is not followed.
MutNullKept == FALSE

\* A NULL for a property that is not commandable, while online.
NullIgnored == frame.value = Null /\ mode = "online" /\ frame.object = "plain"

\* _write, up to the second look at the mode: a NULL for the plain object is
\* acknowledged and dropped, an unlisted object refused.
StartWrite ==
    /\ pc = "write"
    /\ \/ NullIgnored /\ Answered("ack")
       \/ ~NullIgnored /\ frame.object \notin Objects /\ Answered("error")
       \/ ~NullIgnored /\ frame.object \in Objects /\ Continue("allow") /\ UNCHANGED unanswered
    /\ UNCHANGED <<mode, failures, values, slots, inbox, frame, failure, received,
                   writeRequests, history>>

\* The write is refused, by the mode or by what the test lets be written
\* (writable, check_write), or the value is stored as it came; a command is
\* arbitrated afterwards.
StoreValue ==
    /\ pc = "allow"
    /\ \/ /\ Answered("error")
          /\ UNCHANGED values
       \/ /\ mode # "refusing"
          /\ values' = [values EXCEPT ![frame.object] = frame.value]
          /\ IF frame.object = "commandable" THEN Continue("arbitrate") /\ UNCHANGED unanswered
             ELSE Answered("ack")
    /\ UNCHANGED <<mode, failures, slots, inbox, frame, failure, received,
                   writeRequests, history>>

\* Mutant: PRIORITY_DEFAULT is taken for an index.
MutDefaultPast(priority) == IF priority = 0 THEN Slots + 1 ELSE priority

\* The slot a command fills: PRIORITY_DEFAULT when it names none.
SlotOf(priority) == IF priority = 0 THEN Slots ELSE priority

\* The first filled slot, or the Relinquish_Default.
Filled(array) == {p \in 1..Slots : array[p] # Null}
\* Mutant: the last filled slot wins.
MutLastSlot(array) ==
    IF Filled(array) = {} THEN RelinquishDefault
    ELSE array[CHOOSE p \in Filled(array) : \A q \in Filled(array) : q <= p]
Winning(array) ==
    IF Filled(array) = {} THEN RelinquishDefault
    ELSE array[CHOOSE p \in Filled(array) : \A q \in Filled(array) : p <= q]

\* A priority past the last slot raises IndexError: the thread ends.
Arbitrate ==
    /\ pc = "arbitrate"
    /\ IF SlotOf(frame.priority) <= Slots
       THEN /\ slots' = [slots EXCEPT ![SlotOf(frame.priority)] = frame.value]
            /\ values' = [values EXCEPT !["commandable"] = Winning(slots')]
            /\ Answered("ack")
       ELSE Continue("dead") /\ UNCHANGED <<slots, values, unanswered>>
    /\ UNCHANGED <<mode, failures, inbox, frame, failure, received, writeRequests, history>>

AnswerRead ==
    /\ pc = "read"
    /\ Answered(IF failure = "malformed" THEN "malformed" ELSE "value")
    /\ UNCHANGED <<mode, failures, values, slots, inbox, frame, failure, received,
                   writeRequests, history>>

ServeThread ==
    \/ Serve \/ Answer \/ LogWrite \/ CheckOffline \/ StartWrite \/ StoreValue
    \/ Arbitrate \/ AnswerRead

PeerNext ==
    \/ ServeThread
    \/ \E request \in Requests : RequestArrives(request)
    \/ \E m \in {"online", "offline", "refusing"} : SetMode(m)
    \/ \E f \in Failures : SetFailure(f)

PeerSafety == PeerInit /\ [][PeerNext]_peerVars

\* Fairness: the operating system schedules the serving thread.
PeerSpec == PeerSafety /\ WF_peerVars(ServeThread)

-----------------------------------------------------------------------------
(* Properties                                                              *)

\* Outside an unfinished command, the Present_Value a read is answered with is
\* the value in the first filled slot of the priority array, and the
\* Relinquish_Default when every command was relinquished.
IsWinning ==
    /\ \A p \in 1..Slots :
         slots[p] # Null /\ (\A q \in 1..p-1 : slots[q] = Null)
           => values["commandable"] = slots[p]
    /\ (\A p \in 1..Slots : slots[p] = Null) => values["commandable"] = RelinquishDefault
ServedIsWinning == pc # "arbitrate" => IsWinning

\* peer.py:193-195: "the Present_Value served is the highest-priority non-NULL
\* slot or, with every slot NULL, the object's Relinquish_Default", also to the
\* test, which reads it with value() whenever it likes.
AlwaysWinning == pc # "dead" => IsWinning

\* However the mode is switched under it, a write that was served is in
\* write_requests, unless a failure configured for its object ended it before.
WritesAreKept == pc = "idle" => writes = writeRequests + failed

\* peer.py:174-175: write_requests holds "every WriteProperty that arrived,
\* answered or not".
EveryWriteIsKept == pc = "idle" => writes = writeRequests

\* A plain property becomes a NULL only in a request the mode was switched
\* under, whatever was done to earlier ones.
NullOnlyIfSwitched ==
    [][values'["plain"] = Null => values["plain"] = Null \/ switched]_peerVars

\* peer.py:196-197: "a NULL written to it is acknowledged and changes nothing";
\* peer.py:176: "a test may change [the mode] at any time".
NullChangesNothing == values["plain"] # Null

\* Every request that arrived is served: the thread comes back to an empty
\* socket.  peer.py:167: it "answers WriteProperty of a writable property with
\* a SimpleACK and stores the value".
EveryRequestHandled == []<>(inbox = <<>> /\ pc = "idle")
=============================================================================
