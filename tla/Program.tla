------------------------------- MODULE Program -------------------------------
(***************************************************************************)
(* wiretest/process.py: a test starts an example, waits for texts on its   *)
(* console, counts its I-Am broadcasts on two channels and stops it, while *)
(* the example prints, broadcasts, hangs or ends whenever it likes.  The   *)
(* console is a sequence of lines and an offset the number of lines before *)
(* it; a read of the console, of the process state and of the socket are   *)
(* steps of their own.  External: the example, its console file and the    *)
(* broadcast network, where a datagram may travel after its TX line shows. *)
(***************************************************************************)
EXTENDS Naturals, Sequences, FiniteSets

CONSTANTS
    MaxLines,    \* bound: lines on the console
    MaxForeign   \* bound: I-Am broadcasts of other devices

ASSUME MaxLinesAssumption == MaxLines \in Nat
ASSUME MaxForeignAssumption == MaxForeign \in Nat

VARIABLES
    console,    \* what output() reads
    running,    \* process.poll() is None
    pc,         \* where the test is
    late,       \* its deadline has passed
    wanted,     \* the text wait_for_output() looks for
    result,     \* how the last wait_for_output() ended
    after,      \* the offset passed to wait_for_text()
    matched,    \* history: texts wait_for_text() has reported
    inFlight,   \* broadcasts printed and not yet delivered
    listener,   \* no IAmBroadcasts yet, one without a socket, one with
    frames,     \* I-Ams its socket has received since clear(), by sender
    markedAt,   \* console_offset
    shown,      \* the console count counts() is about to return
    counts,     \* what counts() returned
    sent,       \* history: broadcasts since mark() returned
    disturbed   \* history: broadcasts overlapped mark() or counts()

process == <<console, running>>
counting == <<listener, frames, markedAt, shown, counts, sent, disturbed>>
waiting == <<late, wanted, result, after, matched>>
programVars == <<process, pc, waiting, inFlight, counting>>

None == "none"
Lines == {"ready", "text", "iam"}
NoFrames == [own |-> 0, foreign |-> 0]
\* "heard" is FALSE where the code returns None for the wire; "of" is history.
NoCounts == [heard |-> FALSE, wire |-> 0, console |-> 0, of |-> 0]
Occurrences(line, from) == {i \in from+1..Len(console) : console[i] = line}

ProgramTypeOK ==
    /\ console \in Seq(Lines) /\ Len(console) <= MaxLines
    /\ running \in BOOLEAN
    /\ pc \in {"new", "read", "poll", "last", "idle", "find", "look", "mark", "count",
               "stop", "type", "await", "kill", "stopped"}
    /\ late \in BOOLEAN
    /\ wanted \in {"ready", "text"}
    /\ result \in {None, "found", "late", "ended"}
    /\ after \in 0..Len(console) /\ matched \in 0..MaxLines
    /\ inFlight \in 0..MaxLines
    /\ listener \in {None, "deaf", "bound"}
    /\ frames \in [own : 0..MaxLines, foreign : 0..MaxForeign]
    /\ markedAt \in 0..MaxLines /\ shown \in 0..MaxLines /\ sent \in 0..MaxLines
    /\ counts \in [heard : BOOLEAN, wire : 0..MaxLines, console : 0..MaxLines, of : 0..MaxLines]
    /\ disturbed \in BOOLEAN

ProgramInit ==
    /\ console = <<>> /\ running = FALSE
    /\ pc = "new" /\ late = FALSE /\ wanted = "ready" /\ result = None
    /\ after = 0 /\ matched = 0
    /\ inFlight = 0 /\ listener = None /\ frames = NoFrames
    /\ markedAt = 0 /\ shown = 0 /\ counts = NoCounts /\ sent = 0 /\ disturbed = FALSE

-----------------------------------------------------------------------------
(* The example and the network                                             *)

Prints(line) ==
    /\ running /\ Len(console) < MaxLines
    /\ line = "ready" => line \notin {console[i] : i \in 1..Len(console)}
    /\ console' = Append(console, line)
    /\ UNCHANGED running

PrintLine(line) == Prints(line) /\ UNCHANGED <<pc, waiting, inFlight, counting>>

\* A broadcast and its TX line.
Announce ==
    /\ Prints("iam")
    /\ inFlight' = inFlight + 1
    /\ sent' = sent + 1
    /\ disturbed' = (disturbed \/ pc \in {"mark", "count"})
    /\ UNCHANGED <<pc, waiting, listener, frames, markedAt, shown, counts>>

Arrive ==
    /\ inFlight > 0
    /\ inFlight' = inFlight - 1
    /\ frames' = IF listener = "bound" THEN [frames EXCEPT !.own = @ + 1] ELSE frames
    /\ UNCHANGED <<process, pc, waiting, listener, markedAt, shown, counts, sent, disturbed>>

ForeignArrives ==
    /\ listener = "bound" /\ frames.foreign < MaxForeign
    /\ frames' = [frames EXCEPT !.foreign = @ + 1]
    /\ UNCHANGED <<process, pc, waiting, inFlight, listener, markedAt, shown, counts, sent, disturbed>>

Exit ==
    /\ running
    /\ running' = FALSE
    /\ UNCHANGED <<console, pc, waiting, inFlight, counting>>

TimePasses ==
    /\ pc \in {"read", "poll", "last", "find", "look", "await"} /\ ~late
    /\ late' = TRUE
    /\ UNCHANGED <<process, pc, wanted, result, after, matched, inFlight, counting>>

-----------------------------------------------------------------------------
(* Waiting for a text                                                      *)

Start ==
    /\ pc = "new"
    /\ running' = TRUE
    /\ pc' = "read"
    /\ UNCHANGED <<console, waiting, inFlight, counting>>

WaitForOutput ==
    /\ pc = "idle"
    /\ wanted' = "text" /\ late' = FALSE /\ result' = None
    /\ pc' = "read"
    /\ UNCHANGED <<process, after, matched, inFlight, counting>>

\* start() stops an example that never got ready; any other caller goes on.
Return(how) ==
    /\ result' = how
    /\ pc' = IF wanted = "ready" /\ how # "found" THEN "stop" ELSE "idle"
    /\ UNCHANGED <<process, late, wanted, after, matched, inFlight, counting>>

Printed == Occurrences(wanted, 0) # {}

ReadOutput ==
    /\ pc = "read"
    /\ \/ late /\ Return("late")
       \/ ~late /\ Printed /\ Return("found")
       \/ /\ ~late /\ ~Printed
          /\ pc' = "poll"
          /\ UNCHANGED <<process, waiting, inFlight, counting>>

\* Mutant: as in wait_for_text, no second look at the console of a process that ended.
MutNoSecondLook ==
    /\ pc = "poll"
    /\ \/ /\ running /\ pc' = "read" /\ UNCHANGED <<process, waiting, inFlight, counting>>
       \/ ~running /\ Return("ended")
PollProcess ==
    /\ pc = "poll"
    /\ pc' = IF running THEN "read" ELSE "last"
    /\ UNCHANGED <<process, waiting, inFlight, counting>>

ReadOnceMore ==
    /\ pc = "last"
    /\ Return(IF Printed THEN "found" ELSE "ended")

WaitForText ==
    /\ pc = "idle"
    /\ late' = FALSE
    /\ pc' = "find"
    /\ UNCHANGED <<process, wanted, result, after, matched, inFlight, counting>>

\* Mutant: the offset of the text.
MutStartOfText(i) == i - 1
\* The offset just past the text in line i.
PastText(i) == i

\* output().find(text, after); the caller passes the result as its next after.
FindText ==
    /\ pc = "find"
    /\ LET found == Occurrences("text", after)
       IN  \/ /\ found # {}
              /\ after' = PastText(CHOOSE i \in found : \A j \in found : i <= j)
              /\ matched' = matched + 1
              /\ pc' = "idle"
           \/ /\ found = {}
              /\ pc' = "look"
              /\ UNCHANGED <<after, matched>>
    /\ UNCHANGED <<process, late, wanted, result, inFlight, counting>>

\* None when the time is up or the process has ended, with no second look.
LookAgain ==
    /\ pc = "look"
    /\ pc' = IF late \/ ~running THEN "idle" ELSE "find"
    /\ UNCHANGED <<process, waiting, inFlight, counting>>

-----------------------------------------------------------------------------
(* IAmBroadcasts                                                           *)

\* __init__: a socket only if the console already shows a broadcast; then mark().
WatchBroadcasts ==
    /\ pc = "idle" /\ listener # "bound"
    /\ listener' = IF Occurrences("iam", 0) = {} THEN "deaf" ELSE "bound"
    /\ markedAt' = Len(console) /\ counts' = NoCounts
    /\ disturbed' = FALSE
    /\ pc' = "mark"
    /\ UNCHANGED <<process, waiting, inFlight, frames, shown, sent>>

\* mark(): the console's length first,
MarkConsole ==
    /\ pc = "idle" /\ listener # None
    /\ markedAt' = Len(console) /\ counts' = NoCounts
    /\ disturbed' = FALSE
    /\ pc' = "mark"
    /\ UNCHANGED <<process, waiting, inFlight, listener, frames, shown, sent>>

\* Mutant: what arrived before the mark stays.
MutNotCleared == frames
\* Endpoint.clear()
Cleared == NoFrames
\* then the socket.
MarkWire ==
    /\ pc = "mark"
    /\ frames' = Cleared
    /\ sent' = 0
    /\ disturbed' = (disturbed \/ inFlight > 0)
    /\ pc' = "idle"
    /\ UNCHANGED <<process, waiting, inFlight, listener, markedAt, shown, counts>>

\* counts(): the console first, then what the socket receives in a moment.
CountConsole ==
    /\ pc = "idle" /\ listener # None
    /\ shown' = Cardinality(Occurrences("iam", markedAt))
    /\ pc' = "count"
    /\ UNCHANGED <<process, waiting, inFlight, listener, frames, markedAt, counts, sent, disturbed>>

CountWire ==
    /\ pc = "count"
    /\ counts' = [heard |-> listener = "bound", wire |-> frames.own, console |-> shown, of |-> sent]
    /\ disturbed' = (disturbed \/ inFlight > 0)
    /\ pc' = "idle"
    /\ UNCHANGED <<process, waiting, inFlight, listener, frames, markedAt, shown, sent>>

-----------------------------------------------------------------------------
(* stop()                                                                  *)

Stop ==
    /\ pc = "idle"
    /\ pc' = "stop"
    /\ UNCHANGED <<process, waiting, inFlight, counting>>

CheckRunning ==
    /\ pc = "stop"
    /\ late' = FALSE
    /\ pc' = IF running THEN "type" ELSE "stopped"
    /\ UNCHANGED <<process, wanted, result, after, matched, inFlight, counting>>

\* "q"; a process that has just ended breaks the pipe, which is an OSError.
TypeQuit ==
    /\ pc = "type"
    /\ pc' = IF running THEN "await" ELSE "kill"
    /\ UNCHANGED <<process, waiting, inFlight, counting>>

\* Mutants: no timeout, and a timeout after which the process is left alone.
MutNoTimeout == ~running /\ pc' = "stopped"
MutNoKill == (~running \/ late) /\ pc' = "stopped"
\* process.wait(timeout=5)
Awaited == \/ ~running /\ pc' = "stopped"
           \/ running /\ late /\ pc' = "kill"
Await ==
    /\ pc = "await"
    /\ Awaited
    /\ UNCHANGED <<process, waiting, inFlight, counting>>

Kill ==
    /\ pc = "kill"
    /\ running' = FALSE
    /\ pc' = "stopped"
    /\ UNCHANGED <<console, waiting, inFlight, counting>>

-----------------------------------------------------------------------------
\* A step inside a call; the test decides which call comes next, and whether.
CallStep ==
    \/ ReadOutput \/ PollProcess \/ ReadOnceMore \/ FindText \/ LookAgain
    \/ MarkWire \/ CountWire
    \/ CheckRunning \/ TypeQuit \/ Await \/ Kill

ProgramNext ==
    \/ \E line \in {"ready", "text"} : PrintLine(line)
    \/ Announce \/ Arrive \/ ForeignArrives \/ Exit \/ TimePasses
    \/ Start \/ WaitForOutput \/ WaitForText
    \/ WatchBroadcasts \/ MarkConsole \/ CountConsole \/ Stop
    \/ CallStep

\* The test's thread runs and the clock advances; nothing is assumed of the example.
ProgramFairness == WF_programVars(CallStep) /\ WF_programVars(TimePasses)

ProgramSpec == ProgramInit /\ [][ProgramNext]_programVars /\ ProgramFairness

-----------------------------------------------------------------------------
(* Properties                                                              *)

\* process.py:39-40: wait_for_output() that gives up because the process ended
\* has not missed a text, not even one printed between its look at the console
\* and the exit.
NothingMissedAtExit == result = "ended" => ~running /\ ~Printed

\* process.py:45-47: chained by its offsets, wait_for_text() reports every
\* occurrence of the text up to the offset, and each of them once.
EachTextOnce == matched = Cardinality({i \in 1..after : i <= Len(console) /\ console[i] = "text"})

\* process.py:72-93: once stop() has returned, after a start() that failed too,
\* no example is left behind, whether it quit, hung or died under stop()'s hands.
NoOrphan == pc = "stopped" => ~running

\* process.py:97-102: when no broadcast overlaps mark() or counts(), both
\* channels count the broadcasts since the mark, and no other device's.
CountsAgree ==
    ~disturbed => /\ counts.console = counts.of
                  /\ counts.heard => counts.wire = counts.of

\* A call returns although the example hangs, keeps printing or never ends.
EveryCallReturns == (pc # "idle" /\ pc # "new") ~> (pc = "idle" \/ pc = "stopped")
=============================================================================
