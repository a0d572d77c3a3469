------------------------------- MODULE Control -------------------------------
(***************************************************************************)
(* wiretest/control.py, SimulationControl: the wire tests' client of an    *)
(* example's loopback control channel.  Commands and answers carry no      *)
(* identifier; ask() drains the socket, sends, and takes the next datagram *)
(* that arrives for the answer, sending again after each timeout.          *)
(*                                                                         *)
(* External: the example, which answers a command with one datagram, "ok"  *)
(* or a value once it was carried out or "error <reason>", and the         *)
(* loopback network, which loses and delays datagrams and reports a port   *)
(* nobody listens on: the socket raises that in its turn among the answers *)
(* (ConnectionResetError).                                                 *)
(***************************************************************************)
EXTENDS Naturals, Sequences

CONSTANTS
    Retries,      \* SimulationControl.retries
    MaxCommands   \* bound: commands a test sends

ASSUME RetriesAssumption == Retries \in Nat
ASSUME MaxCommandsAssumption == MaxCommands \in Nat

Commands == 1..MaxCommands
Attempts == 1..Retries+1
Texts == {"ok", "error", "reset"}

\* What recvfrom gives: the text of an answer, or an exception; the command it
\* is about is known to the model only.
Received == [of : Commands, text : Texts]
None == [of |-> 0, text |-> "none"]

VARIABLES
    asking,    \* inside ask(), waiting in recvfrom
    command,   \* number of the command last asked
    attempt,   \* attempts made for it
    sent,      \* command datagrams in flight
    answers,   \* answer datagrams and ICMP errors in flight
    buffer,    \* what the socket's next calls of recvfrom give
    executed,  \* history: how often the example carried each command out
    taken,     \* what ask() returned
    settled    \* history: nothing was late when the command was asked

controlVars == <<asking, command, attempt, sent, answers, buffer, executed, taken, settled>>

\* A command datagram on the network: which command, sent by which attempt.
Datagram == [of : Commands, attempt : Attempts]
Response == [of : Commands, attempt : Attempts, text : Texts]

ControlTypeOK ==
    /\ asking \in BOOLEAN
    /\ command \in 0..MaxCommands
    /\ attempt \in 0..Retries+1
    /\ sent \subseteq Datagram
    /\ answers \subseteq Response
    /\ buffer \in Seq(Received)
    /\ executed \in [Commands -> 0..Retries+1]
    /\ taken \in Received \cup {None}
    /\ settled \in BOOLEAN

ControlInit ==
    /\ asking = FALSE
    /\ command = 0
    /\ attempt = 0
    /\ sent = {}
    /\ answers = {}
    /\ buffer = <<>>
    /\ executed = [c \in Commands |-> 0]
    /\ taken = None
    /\ settled = TRUE

-----------------------------------------------------------------------------
(* SimulationControl                                                       *)

\* Where the socket raises instead of giving an answer.
Resets == {i \in 1..Len(buffer) : buffer[i].text = "reset"}

\* Mutant: ask() without the drain.
MutNoDrain == UNCHANGED buffer

\* _drain: what the socket holds is dropped up to the first exception, which
\* an empty socket raises too.
Drain ==
    IF Resets = {} THEN buffer' = <<>>
    ELSE \E i \in Resets :
           /\ \A j \in Resets : i <= j
           /\ buffer' = SubSeq(buffer, i + 1, Len(buffer))

\* ask(): drain, then the first attempt's sendto.
Ask ==
    /\ ~asking
    /\ command < MaxCommands
    /\ asking' = TRUE
    /\ command' = command + 1
    /\ attempt' = 1
    /\ taken' = None
    /\ Drain
    /\ settled' = (sent = {} /\ answers = {} /\ Resets = {})
    /\ sent' = sent \union {[of |-> command + 1, attempt |-> 1]}
    /\ UNCHANGED <<answers, executed>>

\* recvfrom returns: whatever came first is this command's answer.
TakeAnswer ==
    /\ asking
    /\ buffer # <<>> /\ Head(buffer).text # "reset"
    /\ asking' = FALSE
    /\ taken' = Head(buffer)
    /\ buffer' = Tail(buffer)
    /\ UNCHANGED <<command, attempt, sent, answers, executed, settled>>

\* recvfrom times out on an empty socket, or raises ConnectionResetError.
Unanswered ==
    \/ buffer = <<>> /\ UNCHANGED buffer
    \/ buffer # <<>> /\ Head(buffer).text = "reset" /\ buffer' = Tail(buffer)

\* Mutant: an unanswered command is sent again without counting the attempt.
MutUncounted ==
    /\ asking /\ Unanswered
    /\ attempt <= Retries
    /\ sent' = sent \union {[of |-> command, attempt |-> attempt]}
    /\ UNCHANGED <<asking, command, attempt, answers, executed, taken, settled>>

\* [RETRY]
SendAgain ==
    /\ asking /\ Unanswered
    /\ attempt <= Retries
    /\ attempt' = attempt + 1
    /\ sent' = sent \union {[of |-> command, attempt |-> attempt + 1]}
    /\ UNCHANGED <<asking, command, answers, executed, taken, settled>>

\* The last attempt went unanswered: ask() returns None.
GiveUp ==
    /\ asking /\ Unanswered
    /\ attempt = Retries + 1
    /\ asking' = FALSE
    /\ UNCHANGED <<command, attempt, sent, answers, executed, taken, settled>>

\* Mutant: send() takes any answer for a success.
MutAnyAnswer == ~asking /\ taken # None

\* send() of the command last asked returns; it raises on None and "error".
Succeeds == ~asking /\ taken # None /\ taken.text # "error"

-----------------------------------------------------------------------------
(* The example and the loopback network                                    *)

AnswerTo(d, text) == [of |-> d.of, attempt |-> d.attempt, text |-> text]

\* The example carries the command out and answers it.
Execute(d) ==
    /\ sent' = sent \ {d}
    /\ executed' = [executed EXCEPT ![d.of] = @ + 1]
    /\ answers' = answers \union {AnswerTo(d, "ok")}
    /\ UNCHANGED <<asking, command, attempt, buffer, taken, settled>>

\* The example refuses the command, or nobody listens on its port.
Refuse(d, text) ==
    /\ sent' = sent \ {d}
    /\ answers' = answers \union {AnswerTo(d, text)}
    /\ UNCHANGED <<asking, command, attempt, buffer, executed, taken, settled>>

Deliver(d) ==
    /\ answers' = answers \ {d}
    /\ buffer' = Append(buffer, [of |-> d.of, text |-> d.text])
    /\ UNCHANGED <<asking, command, attempt, sent, executed, taken, settled>>

Lose(d) ==
    /\ sent' = sent \ {d}
    /\ answers' = answers \ {d}
    /\ UNCHANGED <<asking, command, attempt, buffer, executed, taken, settled>>

ControlNext ==
    \/ Ask \/ TakeAnswer \/ SendAgain \/ GiveUp
    \/ \E d \in sent : Execute(d)
    \/ \E d \in sent, text \in {"error", "reset"} : Refuse(d, text)
    \/ \E d \in answers : Deliver(d)
    \/ \E d \in sent \union answers : Lose(d)

\* recvfrom returns or raises; nothing is assumed of the example.
ControlFairness == WF_controlVars(TakeAnswer \/ SendAgain \/ GiveUp)

ControlSpec == ControlInit /\ [][ControlNext]_controlVars /\ ControlFairness

-----------------------------------------------------------------------------
\* control.py:42: "Drop any late answer to an earlier command, so it is not
\* taken for this one's."
AnswerIsOwn == ~asking /\ taken # None => taken.of = command

\* What the drain does ensure: when every datagram of the earlier commands had
\* arrived or was lost, and no exception was pending, ask() returns the answer
\* to its own command, and send() returns only if the command was carried out,
\* at most once per attempt.
SettledAnswerIsOwn ==
    settled /\ ~asking /\ taken # None =>
      /\ taken.of = command
      /\ Succeeds => executed[command] \in 1..attempt

\* control.py:68: whatever was late, send() never returns on the strength of a
\* command the example refused or never got: the one whose answer it returns,
\* this one or an earlier one, was carried out.
SuccessWasCarriedOut == Succeeds => taken.of <= command /\ executed[taken.of] > 0

\* ask() always returns, whatever the example and the network do.
AskReturns == asking ~> ~asking
=============================================================================
