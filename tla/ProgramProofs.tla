---------------------------- MODULE ProgramProofs ----------------------------
(***************************************************************************)
(* What the tests rely on when they watch an example from outside, for     *)
(* consoles of any length: no text is missed or counted twice, nothing is  *)
(* left running, and the two counts of the broadcasts agree.               *)
(***************************************************************************)
EXTENDS Program, FiniteSetTheorems, WellFoundedInduction, TLAPS

\* Every step by name, or none.
LEMMA ProgramActions ==
    [ProgramNext]_programVars =>
      \/ \E line \in {"ready", "text"} : PrintLine(line)
      \/ Announce \/ Arrive \/ ForeignArrives \/ Exit \/ TimePasses
      \/ Start \/ WaitForOutput \/ WaitForText
      \/ WatchBroadcasts \/ MarkConsole \/ CountConsole \/ Stop
      \/ ReadOutput \/ PollProcess \/ ReadOnceMore \/ FindText \/ LookAgain
      \/ MarkWire \/ CountWire
      \/ CheckRunning \/ TypeQuit \/ Await \/ Kill
      \/ UNCHANGED programVars
  BY Zenon DEF ProgramNext, CallStep

-----------------------------------------------------------------------------
(* The end of the process                                                  *)

\* Nothing runs once stop() has returned, in the second look at the console, or
\* after a wait that ended with the process; and that wait missed nothing.
Ended ==
    /\ pc = "stopped" => ~running
    /\ pc = "last" => ~running
    /\ pc = "new" => result = None
    /\ result = "ended" => ~running /\ ~Printed

\* A process that has ended prints nothing and never runs again.
LEMMA EndedInductive == Ended /\ [ProgramNext]_programVars => Ended'
  <1> SUFFICES ASSUME Ended, [ProgramNext]_programVars
               PROVE  Ended'
    OBVIOUS
  <1> USE DEF Ended
  <1>1. ASSUME NEW line, Prints(line), UNCHANGED <<pc, result, wanted>>
        PROVE  Ended'
    <2>1. running /\ running' = running
      BY <1>1, Zenon DEF Prints
    <2>2. QED
      BY <1>1, <2>1
  <1>2. ASSUME UNCHANGED <<console, running, wanted, result>>,
               pc' = pc \/ pc' \notin {"stopped", "last", "new"}
        PROVE  Ended'
    <2>1. Printed' <=> Printed
      BY <1>2 DEF Printed, Occurrences
    <2>2. running' <=> running
      BY <1>2, Zenon
    <2>3. QED
      BY <1>2, <2>1, <2>2
  <1>3. CASE Exit \/ Kill
    <2>1. /\ UNCHANGED <<console, wanted, result>> /\ ~running'
          /\ pc' = pc \/ pc' = "stopped"
      BY <1>3, Zenon DEF Exit, Kill, waiting
    <2>2. Printed' <=> Printed
      BY <2>1 DEF Printed, Occurrences
    <2>3. QED
      BY <2>1, <2>2
  <1>4. CASE Start
    <2>1. pc = "new" /\ pc' = "read" /\ result' = result
      BY <1>4 DEF Start, waiting
    <2>2. QED
      BY <2>1 DEF None
  <1>5. CASE WaitForOutput
    BY <1>5 DEF WaitForOutput, None
  <1>6. CASE ReadOutput
    <2>1. /\ UNCHANGED process
          /\ pc' \in {"poll", "stop", "idle"} /\ ((result' = result /\ wanted' = wanted) \/ result' # "ended")
      BY <1>6 DEF ReadOutput, Return, waiting
    <2>2. (running' <=> running) /\ console' = console
      BY <2>1, Zenon DEF process
    <2>3. wanted' = wanted => (Printed' <=> Printed)
      BY <2>2 DEF Printed, Occurrences
    <2>4. QED
      BY <2>1, <2>2, <2>3
  <1>7. CASE PollProcess
    <2>1. pc' = "read" \/ (pc' = "last" /\ ~running)
      BY <1>7 DEF PollProcess
    <2>2. UNCHANGED <<console, wanted, result>> /\ (running' <=> running)
      BY <1>7, Zenon DEF PollProcess, process, waiting
    <2>3. Printed' <=> Printed
      BY <2>2 DEF Printed, Occurrences
    <2>4. QED
      BY <2>1, <2>2, <2>3
  <1>8. CASE ReadOnceMore
    <2>1. /\ ~running /\ pc' \in {"stop", "idle"} /\ UNCHANGED <<process, wanted>>
          /\ result' = "ended" => ~Printed
      BY <1>8 DEF ReadOnceMore, Return
    <2>2. ~running' /\ console' = console
      BY <2>1, Zenon DEF process
    <2>3. Printed' <=> Printed
      BY <2>1, <2>2 DEF Printed, Occurrences
    <2>4. QED
      BY <2>1, <2>2, <2>3
  <1>9. CASE CheckRunning \/ Await
    <2>1. pc' = "type" \/ pc' = "kill" \/ (pc' = "stopped" /\ ~running)
      BY <1>9, Zenon DEF CheckRunning, Await, Awaited
    <2>2. UNCHANGED <<process, wanted, result>>
      BY <1>9 DEF CheckRunning, Await, waiting
    <2>3. console' = console /\ (running' <=> running)
      BY <2>2, Zenon DEF process
    <2>4. Printed' <=> Printed
      BY <2>2, <2>3 DEF Printed, Occurrences
    <2>5. QED
      BY <2>1, <2>2, <2>3, <2>4
  <1>10. CASE (\E line \in {"ready", "text"} : PrintLine(line)) \/ Announce
    <2>1. \E line : Prints(line)
      BY <1>10 DEF PrintLine, Announce
    <2>2. UNCHANGED <<pc, result, wanted>>
      BY <1>10 DEF PrintLine, Announce, waiting
    <2>3. QED
      BY <1>1, <2>1, <2>2
  <1>11. CASE \/ Arrive \/ ForeignArrives \/ TimePasses \/ WaitForText \/ WatchBroadcasts
              \/ MarkConsole \/ CountConsole \/ Stop \/ FindText \/ LookAgain \/ MarkWire
              \/ CountWire \/ TypeQuit \/ UNCHANGED programVars
    <2>1. UNCHANGED <<console, running, wanted, result>>
      BY <1>11, Zenon DEF Arrive, ForeignArrives, TimePasses, WaitForText, WatchBroadcasts, MarkConsole,
         CountConsole, Stop, FindText, LookAgain, MarkWire, CountWire, TypeQuit, programVars, process, waiting
    <2>2. pc' = pc \/ pc' \notin {"stopped", "last", "new"}
      BY <1>11 DEF Arrive, ForeignArrives, TimePasses, WaitForText, WatchBroadcasts, MarkConsole,
         CountConsole, Stop, FindText, LookAgain, MarkWire, CountWire, TypeQuit, programVars
    <2>3. QED
      BY <1>2, <2>1, <2>2
  <1>12. QED
    BY <1>3, <1>4, <1>5, <1>6, <1>7, <1>8, <1>9, <1>10, <1>11, ProgramActions

\* process.py:39-40: wait_for_output() does not miss a text that the process prints
\* between the look at its console and its end.
THEOREM LastTextIsSeen == ProgramSpec => []NothingMissedAtExit
  <1>1. ProgramInit => Ended
    BY DEF ProgramInit, Ended, None
  <1>2. Ended => NothingMissedAtExit
    BY Zenon DEF Ended, NothingMissedAtExit
  <1>3. QED
    BY <1>1, <1>2, EndedInductive, PTL DEF ProgramSpec

\* process.py:72-93: stop() leaves no process behind, on any of its paths.
THEOREM StopLeavesNothing == ProgramSpec => []NoOrphan
  <1>1. ProgramInit => Ended
    BY DEF ProgramInit, Ended, None
  <1>2. Ended => NoOrphan
    BY Zenon DEF Ended, NoOrphan
  <1>3. QED
    BY <1>1, <1>2, EndedInductive, PTL DEF ProgramSpec

-----------------------------------------------------------------------------
(* Chained waits for a text                                                *)

Texts(seq, n) == {i \in 1..n : seq[i] = "text"}

\* The offset is one of the console's, and as many texts were reported as there
\* are before it.
Reported ==
    /\ console \in Seq(Lines)
    /\ after \in 0..Len(console)
    /\ matched = Cardinality(Texts(console, after))

\* A set of numbers that is not empty has a smallest one.
LEMMA First ==
    ASSUME NEW T, T \subseteq Nat, T # {}
    PROVE  \E i \in T : \A j \in T : i <= j
  <1> DEFINE R == OpToRel(<, Nat)
  <1>1. IsWellFoundedOn(R, Nat)
    BY NatLessThanWellFounded
  <1> HIDE DEF R
  <1>2. PICK i \in T : \A j \in T : ~(<<j, i>> \in R)
    BY <1>1, WFMin
  <1>3. \A j \in T : ~(j < i)
    BY <1>2 DEF R, OpToRel
  <1>4. QED
    BY <1>3

\* Some of the first lines are finitely many, and no more than those.
LEMMA FewLines ==
    ASSUME NEW n \in Nat, NEW T, T \subseteq 1..n
    PROVE  IsFiniteSet(T) /\ Cardinality(T) \in Nat /\ Cardinality(T) <= n
  <1>1. IsFiniteSet(1..n) /\ Cardinality(1..n) = n
    BY FS_Interval
  <1>2. QED
    BY <1>1, FS_Subset, FS_CardinalityType

\* FindText finds the first text past the offset.
LEMMA FoundFirst ==
    ASSUME Reported, FindText, Occurrences("text", after) # {}
    PROVE  /\ after' \in after+1..Len(console) /\ console[after'] = "text"
           /\ \A i \in after+1..Len(console) : console[i] = "text" => after' <= i
           /\ matched' = matched + 1
  <1> DEFINE found == Occurrences("text", after)
  <1>1. found \subseteq Nat /\ found # {}
    BY DEF Occurrences, Reported
  <1>2. \E i \in found : \A j \in found : i <= j
    <2> HIDE DEF found
    <2>1. QED
      BY <1>1, First, Zenon
  <1>3. /\ after' = CHOOSE i \in found : \A j \in found : i <= j
        /\ matched' = matched + 1
    BY <1>1 DEF FindText, PastText
  <1>4. after' \in found /\ \A j \in found : after' <= j
    <2> HIDE DEF found
    <2>1. QED
      BY <1>2, <1>3
  <1>5. QED
    BY <1>3, <1>4 DEF Occurrences

\* Only FindText moves the offset, past exactly one text.
LEMMA ReportedInductive == Reported /\ [ProgramNext]_programVars => Reported'
  <1> SUFFICES ASSUME Reported, [ProgramNext]_programVars
               PROVE  Reported'
    OBVIOUS
  <1>1. console \in Seq(Lines) /\ after \in 0..Len(console) /\ Len(console) \in Nat
    BY DEF Reported
  <1>2. matched = Cardinality(Texts(console, after))
    BY DEF Reported
  <1>3. ASSUME NEW line \in Lines, Prints(line), UNCHANGED <<after, matched>>
        PROVE  Reported'
    <2>1. console' = Append(console, line)
      BY <1>3 DEF Prints
    <2>2. console' \in Seq(Lines) /\ Len(console') = Len(console) + 1
      BY <1>1, <2>1
    <2>3. Texts(console', after) = Texts(console, after)
      BY <1>1, <2>1 DEF Texts
    <2>4. matched' = Cardinality(Texts(console', after'))
      BY <1>2, <1>3, <2>3, Zenon
    <2>5. after' \in 0..Len(console')
      BY <1>1, <1>3, <2>2
    <2>6. QED
      BY <2>2, <2>4, <2>5 DEF Reported
  <1>4. CASE FindText /\ Occurrences("text", after) # {}
    <2>1. console' = console
      BY <1>4 DEF FindText, process
    <2>2. /\ after' \in after+1..Len(console) /\ console[after'] = "text"
          /\ \A i \in after+1..Len(console) : console[i] = "text" => after' <= i
          /\ matched' = matched + 1
      BY <1>4, FoundFirst
    <2>3. Texts(console, after') = Texts(console, after) \cup {after'}
      BY <1>1, <2>2 DEF Texts
    <2>4. after' \notin Texts(console, after)
      BY <1>1, <2>2 DEF Texts
    <2>5. IsFiniteSet(Texts(console, after))
      BY <1>1, FewLines DEF Texts
    <2>6. Cardinality(Texts(console, after) \cup {after'}) = matched + 1
      BY <1>2, <2>4, <2>5, FS_AddElement
    <2>7. matched' = Cardinality(Texts(console', after'))
      BY <2>1, <2>2, <2>3, <2>6, Zenon
    <2>8. after' \in 0..Len(console')
      BY <1>1, <2>1, <2>2
    <2>9. QED
      BY <1>1, <2>1, <2>7, <2>8 DEF Reported
  <1>5. CASE UNCHANGED <<console, after, matched>>
    BY <1>5, Zenon DEF Reported
  <1>6. \/ \E line \in Lines : Prints(line) /\ UNCHANGED <<after, matched>>
        \/ FindText /\ Occurrences("text", after) # {}
        \/ UNCHANGED <<console, after, matched>>
    BY ProgramActions DEF programVars, process, waiting, Lines, PrintLine, Announce, Arrive,
       ForeignArrives, Exit, TimePasses, Start, WaitForOutput, WaitForText, WatchBroadcasts,
       MarkConsole, CountConsole, Stop, ReadOutput, Return, PollProcess, ReadOnceMore, FindText,
       LookAgain, MarkWire, CountWire, CheckRunning, TypeQuit, Await, Kill
  <1>7. QED
    BY <1>3, <1>4, <1>5, <1>6

\* process.py:45-47: wait_for_text(), called again from the offset it returned,
\* reports every occurrence of the text once, however the output comes in.
THEOREM TextsReportedOnce == ProgramSpec => []EachTextOnce
  <1>1. ProgramInit => Reported
    <2> SUFFICES ASSUME ProgramInit PROVE Reported
      OBVIOUS
    <2>1. Texts(console, after) = {}
      BY DEF ProgramInit, Texts
    <2>2. Cardinality(Texts(console, after)) = 0
      BY <2>1, FS_EmptySet, Zenon
    <2>3. QED
      BY <2>2 DEF ProgramInit, Reported
  <1>2. Reported => EachTextOnce
    <2> SUFFICES ASSUME Reported PROVE EachTextOnce
      OBVIOUS
    <2>1. {i \in 1..after : i <= Len(console) /\ console[i] = "text"} = Texts(console, after)
      BY DEF Reported, Texts
    <2>2. QED
      BY <2>1, Zenon DEF Reported, EachTextOnce
  <1>3. QED
    BY <1>1, <1>2, ReportedInductive, PTL DEF ProgramSpec

-----------------------------------------------------------------------------
(* The two channels of IAmBroadcasts                                       *)

Iams(seq, from) == {i \in from+1..Len(seq) : seq[i] = "iam"}
IamCount == Cardinality(Iams(console, markedAt))

\* Until a broadcast overlaps mark() or counts(): what was sent since mark()
\* returned is on the console, and has arrived or is in flight to a bound socket.
Tallied ==
    /\ pc = "mark" => IamCount = 0
    /\ pc # "mark" /\ listener # None => sent = IamCount
    /\ pc # "mark" /\ listener = "bound" => frames.own + inFlight = sent
    /\ pc = "count" => shown = sent
    /\ counts.console = counts.of
    /\ counts.heard => counts.wire = counts.of
Agrees ==
    /\ console \in Seq(Lines) /\ markedAt \in 0..Len(console)
    /\ frames = [own |-> frames.own, foreign |-> frames.foreign]
    /\ frames.own \in Nat /\ inFlight \in Nat /\ sent \in Nat
    /\ pc \in {"mark", "count"} => listener # None
    /\ ~disturbed => Tallied

\* A line more on the console is one more I-Am or none.
LEMMA IamsAppended ==
    ASSUME NEW seq \in Seq(Lines), NEW from \in 0..Len(seq), NEW line \in Lines
    PROVE  Cardinality(Iams(Append(seq, line), from)) =
             Cardinality(Iams(seq, from)) + IF line = "iam" THEN 1 ELSE 0
  <1>1. Len(seq) \in Nat
    OBVIOUS
  <1>2. IsFiniteSet(Iams(seq, from)) /\ Cardinality(Iams(seq, from)) \in Nat
    <2>1. Iams(seq, from) \subseteq 1..Len(seq)
      BY <1>1 DEF Iams
    <2>2. QED
      BY <1>1, <2>1, FewLines
  <1>3. CASE line = "iam"
    <2>1. /\ Iams(Append(seq, line), from) = Iams(seq, from) \cup {Len(seq) + 1}
          /\ Len(seq) + 1 \notin Iams(seq, from)
      BY <1>3 DEF Iams
    <2>2. Cardinality(Iams(seq, from) \cup {Len(seq) + 1}) = Cardinality(Iams(seq, from)) + 1
      BY <1>2, <2>1, FS_AddElement
    <2>3. Cardinality(Iams(Append(seq, line), from)) = Cardinality(Iams(seq, from)) + 1
      BY <2>1, <2>2, Zenon
    <2>4. QED
      BY <1>3, <2>3
  <1>4. CASE line # "iam"
    <2>1. Iams(Append(seq, line), from) = Iams(seq, from)
      BY <1>4 DEF Iams
    <2>2. Cardinality(Iams(Append(seq, line), from)) = Cardinality(Iams(seq, from))
      BY <2>1, Zenon
    <2>3. QED
      BY <1>2, <1>4, <2>2
  <1>5. QED
    BY <1>3, <1>4

\* Nothing follows the end of the console.
LEMMA NoIams ==
    ASSUME NEW seq \in Seq(Lines)
    PROVE  Cardinality(Iams(seq, Len(seq))) = 0
  <1>1. Iams(seq, Len(seq)) = {}
    BY DEF Iams
  <1>2. QED
    BY <1>1, FS_EmptySet, Zenon

\* Agrees is inductive: each channel is read in one step, and what comes between
\* the two is either seen by both or counts as an overlap.
LEMMA AgreesInductive == Agrees /\ [ProgramNext]_programVars => Agrees'
  <1> SUFFICES ASSUME Agrees, [ProgramNext]_programVars
               PROVE  Agrees'
    OBVIOUS
  <1>1. /\ console \in Seq(Lines) /\ markedAt \in 0..Len(console) /\ Len(console) \in Nat
        /\ frames = [own |-> frames.own, foreign |-> frames.foreign]
        /\ frames.own \in Nat /\ inFlight \in Nat /\ sent \in Nat
        /\ pc \in {"mark", "count"} => listener # None
    BY DEF Agrees
  <1>2. ~disturbed => Tallied
    BY Zenon DEF Agrees
  <1>3. ASSUME NEW line \in {"ready", "text"}, PrintLine(line)
        PROVE  Agrees'
    <2>1. /\ console' = Append(console, line) /\ line \in Lines /\ line # "iam"
          /\ UNCHANGED <<pc, inFlight, listener, frames, markedAt, shown, counts, sent>>
      BY <1>3 DEF PrintLine, Prints, counting, Lines
    <2>2. disturbed' <=> disturbed
      BY <1>3, Zenon DEF PrintLine, counting
    <2>3. console' \in Seq(Lines) /\ Len(console') = Len(console) + 1
      BY <1>1, <2>1
    <2>4. Cardinality(Iams(console, markedAt)) \in Nat
      BY <1>1, FewLines DEF Iams
    <2>5. IamCount' = IamCount
      BY <1>1, <2>1, <2>4, IamsAppended DEF IamCount
    <2>6. Tallied => Tallied'
      BY <2>1, <2>5 DEF Tallied
    <2>7. markedAt' \in 0..Len(console')
      BY <1>1, <2>1, <2>3
    <2>8. ~disturbed' => Tallied'
      BY <1>2, <2>2, <2>6, Zenon
    <2>9. QED
      BY <1>1, <2>1, <2>3, <2>7, <2>8 DEF Agrees
  <1>4. CASE Announce
    <2>1. /\ console' = Append(console, "iam") /\ "iam" \in Lines
          /\ inFlight' = inFlight + 1 /\ sent' = sent + 1
          /\ UNCHANGED <<pc, listener, frames, markedAt, shown, counts>>
      BY <1>4 DEF Announce, Prints, Lines
    <2>2. ~disturbed' => ~disturbed /\ pc \notin {"mark", "count"}
      BY <1>4, Zenon DEF Announce
    <2>3. console' \in Seq(Lines) /\ Len(console') = Len(console) + 1
      BY <1>1, <2>1
    <2>4. IamCount' = IamCount + 1
      BY <1>1, <2>1, IamsAppended DEF IamCount
    <2>5. Tallied /\ pc \notin {"mark", "count"} => Tallied'
      BY <1>1, <2>1, <2>4 DEF Tallied
    <2>6. ~disturbed' => Tallied'
      BY <1>2, <2>2, <2>5, Zenon
    <2>7. markedAt' \in 0..Len(console') /\ inFlight' \in Nat /\ sent' \in Nat
      BY <1>1, <2>1, <2>3
    <2>8. QED
      BY <1>1, <2>1, <2>3, <2>6, <2>7 DEF Agrees
  <1>5. CASE Arrive \/ ForeignArrives
    <2>1. /\ UNCHANGED <<console, pc, listener, markedAt, shown, counts, sent>>
          /\ inFlight' \in Nat
          /\ frames' = [own |-> frames'.own, foreign |-> frames'.foreign] /\ frames'.own \in Nat
          /\ listener = "bound" => frames'.own + inFlight' = frames.own + inFlight
      BY <1>1, <1>5 DEF Arrive, ForeignArrives, process
    <2>2. disturbed' = disturbed
      BY <1>5 DEF Arrive, ForeignArrives
    <2>3. IamCount' = IamCount
      BY <2>1 DEF IamCount
    <2>4. Tallied => Tallied'
      BY <2>1, <2>3 DEF Tallied
    <2>5. ~disturbed' => Tallied'
      BY <1>2, <2>2, <2>4, Zenon
    <2>6. QED
      BY <1>1, <2>1, <2>5 DEF Agrees
  <1>6. CASE WatchBroadcasts \/ MarkConsole
    <2>1. /\ UNCHANGED <<console, inFlight, frames, shown, sent>>
          /\ pc' = "mark" /\ listener' # None /\ markedAt' = Len(console) /\ counts' = NoCounts
      BY <1>6 DEF WatchBroadcasts, MarkConsole, process, None
    <2>2. IamCount' = 0
      BY <1>1, <2>1, NoIams DEF IamCount
    <2>3. Tallied'
      BY <2>1, <2>2 DEF Tallied, NoCounts
    <2>4. QED
      BY <1>1, <2>1, <2>3 DEF Agrees
  <1>7. CASE MarkWire
    <2>1. /\ UNCHANGED <<console, inFlight, listener, markedAt, shown, counts>>
          /\ pc = "mark" /\ pc' = "idle" /\ frames' = NoFrames /\ sent' = 0
      BY <1>7 DEF MarkWire, Cleared, process
    <2>2. ~disturbed' => ~disturbed /\ ~(inFlight > 0)
      BY <1>7, Zenon DEF MarkWire
    <2>3. IamCount' = IamCount
      BY <2>1 DEF IamCount
    <2>4. Tallied /\ ~(inFlight > 0) => Tallied'
      BY <1>1, <2>1, <2>3 DEF Tallied, NoFrames
    <2>5. ~disturbed' => Tallied'
      BY <1>2, <2>2, <2>4, Zenon
    <2>6. QED
      BY <1>1, <2>1, <2>5 DEF Agrees, NoFrames
  <1>8. CASE CountConsole
    <2>1. /\ UNCHANGED <<console, inFlight, listener, frames, markedAt, counts, sent>>
          /\ pc = "idle" /\ pc' = "count" /\ listener # None
          /\ shown' = Cardinality(Occurrences("iam", markedAt))
      BY <1>8 DEF CountConsole, process
    <2>2. disturbed' <=> disturbed
      BY <1>8, Zenon DEF CountConsole
    <2>3. shown' = IamCount
      BY <2>1, Zenon DEF IamCount, Iams, Occurrences
    <2>4. IamCount' = IamCount
      BY <2>1 DEF IamCount
    <2>5. Tallied => Tallied'
      BY <2>1, <2>3, <2>4 DEF Tallied
    <2>6. ~disturbed' => Tallied'
      BY <1>2, <2>2, <2>5, Zenon
    <2>7. QED
      BY <1>1, <2>1, <2>6 DEF Agrees
  <1>9. CASE CountWire
    <2>1. /\ UNCHANGED <<console, inFlight, listener, frames, markedAt, shown, sent>>
          /\ pc = "count" /\ pc' = "idle"
          /\ counts' = [heard |-> listener = "bound", wire |-> frames.own, console |-> shown, of |-> sent]
      BY <1>9 DEF CountWire, process
    <2>2. ~disturbed' => ~disturbed /\ ~(inFlight > 0)
      BY <1>9, Zenon DEF CountWire
    <2>3. IamCount' = IamCount
      BY <2>1 DEF IamCount
    <2>4. counts'.heard <=> listener = "bound"
      BY <2>1, Zenon
    <2>5. counts'.wire = frames.own /\ counts'.console = shown /\ counts'.of = sent
      BY <2>1
    <2>6. Tallied /\ ~(inFlight > 0) => Tallied'
      <3> SUFFICES ASSUME Tallied, ~(inFlight > 0) PROVE Tallied'
        OBVIOUS
      <3>1. counts'.heard => counts'.wire = counts'.of
        BY <1>1, <2>1, <2>4, <2>5 DEF Tallied
      <3>2. counts'.console = counts'.of
        BY <2>1, <2>5 DEF Tallied
      <3>3. /\ listener # None => sent = IamCount
            /\ listener = "bound" => frames.own + inFlight = sent
        BY <2>1 DEF Tallied
      <3>4. QED
        BY <2>1, <2>3, <3>1, <3>2, <3>3 DEF Tallied
    <2>7. ~disturbed' => Tallied'
      BY <1>2, <2>2, <2>6, Zenon
    <2>8. QED
      BY <1>1, <2>1, <2>7 DEF Agrees
  <1>10. ASSUME UNCHANGED <<console, inFlight, listener, frames, markedAt, shown, counts, sent>>,
                disturbed' <=> disturbed,
                pc' = pc \/ (pc # "mark" /\ pc' \notin {"mark", "count"})
         PROVE  Agrees'
    <2>1. IamCount' = IamCount
      BY <1>10 DEF IamCount
    <2>2. Tallied => Tallied'
      BY <1>10, <2>1 DEF Tallied
    <2>3. ~disturbed' => Tallied'
      BY <1>2, <1>10, <2>2, Zenon
    <2>4. QED
      BY <1>1, <1>10, <2>3 DEF Agrees
  <1>11. CASE \/ Exit \/ TimePasses \/ Start \/ WaitForOutput \/ WaitForText \/ Stop \/ ReadOutput
              \/ PollProcess \/ ReadOnceMore \/ FindText \/ LookAgain \/ CheckRunning \/ TypeQuit
              \/ Await \/ Kill \/ UNCHANGED programVars
    <2>1. UNCHANGED <<console, inFlight, counting>>
      BY <1>11, Zenon DEF Exit, TimePasses, Start, WaitForOutput, WaitForText, Stop, ReadOutput, Return,
         PollProcess, ReadOnceMore, FindText, LookAgain, CheckRunning, TypeQuit, Await, Kill,
         programVars, process
    <2>2. /\ UNCHANGED <<console, inFlight, listener, frames, markedAt, shown, counts, sent>>
          /\ disturbed' <=> disturbed
      BY <2>1, Zenon DEF counting
    <2>3. pc' = pc \/ (pc # "mark" /\ pc' \notin {"mark", "count"})
      BY <1>11 DEF Exit, TimePasses, Start, WaitForOutput, WaitForText, Stop, ReadOutput, Return,
         PollProcess, ReadOnceMore, FindText, LookAgain, CheckRunning, TypeQuit, Await, Awaited, Kill,
         programVars
    <2>4. QED
      BY <1>10, <2>2, <2>3
  <1>12. QED
    BY <1>3, <1>4, <1>5, <1>6, <1>7, <1>8, <1>9, <1>11, ProgramActions

\* process.py:97-102: the console and the wire count the same broadcasts, those
\* since the mark, unless one overlaps mark() or counts().
THEOREM ChannelsAgree == ProgramSpec => []CountsAgree
  <1>1. ProgramInit => Agrees
    <2> SUFFICES ASSUME ProgramInit PROVE Agrees
      OBVIOUS
    <2>1. Tallied
      BY DEF ProgramInit, Tallied, NoCounts, None
    <2>2. QED
      BY <2>1 DEF ProgramInit, Agrees, NoFrames
  <1>2. Agrees => CountsAgree
    BY Zenon DEF Agrees, Tallied, CountsAgree
  <1>3. QED
    BY <1>1, <1>2, AgreesInductive, PTL DEF ProgramSpec

-----------------------------------------------------------------------------
(* Types                                                                   *)

Flags == running \in BOOLEAN /\ late \in BOOLEAN /\ disturbed \in BOOLEAN

Waits ==
    /\ pc \in {"new", "read", "poll", "last", "idle", "find", "look", "mark", "count",
               "stop", "type", "await", "kill", "stopped"}
    /\ wanted \in {"ready", "text"}
    /\ result \in {None, "found", "late", "ended"}
    /\ listener \in {None, "deaf", "bound"}

\* Every number counts lines of the console.
Bounded ==
    /\ console \in Seq(Lines) /\ Len(console) <= MaxLines
    /\ after \in 0..Len(console) /\ matched \in 0..after
    /\ frames \in [own : 0..MaxLines, foreign : 0..MaxForeign] /\ inFlight \in Nat
    /\ frames.own + inFlight <= Len(console)
    /\ sent \in 0..Len(console)
    /\ markedAt \in 0..MaxLines /\ shown \in 0..MaxLines
    /\ counts \in [heard : BOOLEAN, wire : 0..MaxLines, console : 0..MaxLines, of : 0..MaxLines]

\* The flags and the places in the code are closed under every step.
LEMMA FlagsInductive == Flags /\ Waits /\ [ProgramNext]_programVars => Flags' /\ Waits'
  <1> SUFFICES ASSUME Flags, Waits, [ProgramNext]_programVars
               PROVE  Flags' /\ Waits'
    OBVIOUS
  <1> USE DEF process, waiting, counting, PrintLine, Prints, Announce, Arrive, ForeignArrives, Exit,
       TimePasses, Start, WaitForOutput, WaitForText, WatchBroadcasts, MarkConsole, CountConsole, Stop,
       ReadOutput, Return, PollProcess, ReadOnceMore, FindText, LookAgain, MarkWire, CountWire,
       CheckRunning, TypeQuit, Await, Awaited, Kill, programVars
  <1>1. running' \in BOOLEAN
    BY ProgramActions, Zenon DEF Flags
  <1>2. late' \in BOOLEAN
    BY ProgramActions, Zenon DEF Flags
  <1>3. disturbed' \in BOOLEAN
    BY ProgramActions, Zenon DEF Flags
  <1>4. Waits'
    BY ProgramActions DEF Waits
  <1>5. QED
    BY <1>1, <1>2, <1>3, <1>4 DEF Flags

\* No number outgrows the console.
LEMMA BoundedInductive == Bounded /\ Waits /\ [ProgramNext]_programVars => Bounded'
  <1> SUFFICES ASSUME Bounded, Waits, [ProgramNext]_programVars
               PROVE  Bounded'
    OBVIOUS
  <1> USE MaxLinesAssumption, MaxForeignAssumption DEF Bounded
  <1>1. Len(console) \in Nat
    OBVIOUS
  <1>2. ASSUME NEW line \in {"ready", "text"}, PrintLine(line)
        PROVE  Bounded'
    <2>1. /\ console' = Append(console, line) /\ line \in Lines /\ Len(console) < MaxLines
          /\ UNCHANGED <<inFlight, after, matched, frames, markedAt, shown, counts, sent>>
      BY <1>2 DEF PrintLine, Prints, counting, waiting, Lines
    <2>2. console' \in Seq(Lines) /\ Len(console') = Len(console) + 1
      BY <2>1
    <2>3. QED
      BY <1>1, <2>1, <2>2
  <1>3. CASE Announce
    <2>1. /\ console' = Append(console, "iam") /\ "iam" \in Lines /\ Len(console) < MaxLines
          /\ inFlight' = inFlight + 1 /\ sent' = sent + 1
          /\ UNCHANGED <<after, matched, frames, markedAt, shown, counts>>
      BY <1>3 DEF Announce, Prints, waiting, Lines
    <2>2. console' \in Seq(Lines) /\ Len(console') = Len(console) + 1
      BY <2>1
    <2>3. QED
      BY <1>1, <2>1, <2>2
  <1>4. CASE Arrive \/ ForeignArrives
    <2>1. UNCHANGED <<console, after, matched, markedAt, shown, counts, sent>>
      BY <1>4 DEF Arrive, ForeignArrives, process, waiting
    <2>2. /\ frames.own \in Nat /\ frames.own <= MaxLines
          /\ frames.foreign \in Nat /\ frames.foreign <= MaxForeign
      OBVIOUS
    <2>3. CASE Arrive
      <3>1. inFlight > 0 /\ inFlight' = inFlight - 1
            /\ frames' \in {frames, [frames EXCEPT !.own = frames.own + 1]}
        BY <2>3 DEF Arrive
      <3>2. frames.own + 1 \in 0..MaxLines
        BY <1>1, <2>2, <3>1
      <3>3. /\ frames' \in [own : 0..MaxLines, foreign : 0..MaxForeign]
            /\ frames'.own <= frames.own + 1
        BY <2>2, <3>1, <3>2
      <3>4. inFlight' \in Nat /\ frames'.own + inFlight' <= Len(console)
        <4>1. frames'.own \in Nat
          BY <3>3
        <4>2. inFlight \in Nat /\ frames.own + inFlight <= Len(console)
          OBVIOUS
        <4> HIDE DEF Bounded
        <4>3. QED
          BY <1>1, <2>2, <3>1, <3>3, <4>1, <4>2
      <3>5. QED
        BY <2>1, <3>3, <3>4
    <2>4. CASE ForeignArrives
      <3>1. frames' = [frames EXCEPT !.foreign = frames.foreign + 1] /\ inFlight' = inFlight
            /\ frames.foreign + 1 \in 0..MaxForeign
        BY <2>2, <2>4 DEF ForeignArrives
      <3>2. QED
        BY <2>1, <3>1
    <2>5. QED
      BY <1>4, <2>3, <2>4
  <1>5. CASE WatchBroadcasts \/ MarkConsole
    <2>1. /\ UNCHANGED <<console, after, matched, inFlight, frames, shown, sent>>
          /\ markedAt' = Len(console) /\ counts' = NoCounts
      BY <1>5 DEF WatchBroadcasts, MarkConsole, process, waiting
    <2>2. NoCounts \in [heard : BOOLEAN, wire : 0..MaxLines, console : 0..MaxLines, of : 0..MaxLines]
      <3>1. 0 \in 0..MaxLines
        OBVIOUS
      <3>2. QED
        BY <3>1, Zenon DEF NoCounts
    <2>3. QED
      BY <1>1, <2>1, <2>2
  <1>6. CASE MarkWire
    BY <1>1, <1>6 DEF MarkWire, Cleared, NoFrames, process, waiting
  <1>7. CASE CountConsole
    <2>1. Occurrences("iam", markedAt) \subseteq 1..Len(console)
      BY DEF Occurrences
    <2>2. Cardinality(Occurrences("iam", markedAt)) \in 0..MaxLines
      BY <1>1, <2>1, FewLines
    <2>3. QED
      BY <1>7, <2>2 DEF CountConsole, process, waiting
  <1>8. CASE CountWire
    <2>1. UNCHANGED <<console, after, matched, inFlight, frames, markedAt, shown, sent>>
      BY <1>8 DEF CountWire, process, waiting
    <2>2. frames.own \in 0..MaxLines /\ shown \in 0..MaxLines /\ sent \in 0..MaxLines
      BY <1>1
    <2>3. (listener = "bound") \in BOOLEAN
      BY Zenon
    <2>4. counts' \in [heard : BOOLEAN, wire : 0..MaxLines, console : 0..MaxLines, of : 0..MaxLines]
      BY <1>8, <2>2, <2>3, Zenon DEF CountWire
    <2>5. QED
      BY <2>1, <2>4
  <1>9. CASE FindText /\ Occurrences("text", after) # {}
    <2>1. UNCHANGED <<console, inFlight, frames, markedAt, shown, counts, sent>>
      BY <1>9 DEF FindText, process, counting
    <2>2. after' \in after+1..Len(console) /\ matched' = matched + 1
      <3> DEFINE found == Occurrences("text", after)
      <3>1. found \subseteq Nat /\ found # {}
        BY <1>9 DEF Occurrences
      <3>2. \E i \in found : \A j \in found : i <= j
        <4> HIDE DEF found
        <4>1. QED
          BY <3>1, First, Zenon
      <3>3. /\ after' = CHOOSE i \in found : \A j \in found : i <= j
            /\ matched' = matched + 1
        BY <1>9 DEF FindText, PastText
      <3>4. after' \in found
        <4> HIDE DEF found
        <4>1. QED
          BY <3>2, <3>3
      <3>5. QED
        BY <3>3, <3>4 DEF Occurrences
    <2>3. QED
      BY <1>1, <2>1, <2>2
  <1>10. CASE UNCHANGED <<console, after, matched, inFlight, counting>>
    <2>1. UNCHANGED <<console, after, matched, inFlight, frames, markedAt, shown, counts, sent>>
      BY <1>10, Zenon DEF counting
    <2>2. QED
      BY <2>1
  <1>11. \/ \E line \in {"ready", "text"} : PrintLine(line)
         \/ Announce \/ Arrive \/ ForeignArrives \/ WatchBroadcasts \/ MarkConsole \/ CountConsole
         \/ MarkWire \/ CountWire
         \/ FindText /\ Occurrences("text", after) # {}
         \/ UNCHANGED <<console, after, matched, inFlight, counting>>
    BY ProgramActions DEF programVars, process, waiting, Exit, TimePasses, Start, WaitForOutput,
       WaitForText, Stop, ReadOutput, Return, PollProcess, ReadOnceMore, FindText, LookAgain,
       CheckRunning, TypeQuit, Await, Kill
  <1>12. QED
    BY <1>2, <1>3, <1>4, <1>5, <1>6, <1>7, <1>8, <1>9, <1>10, <1>11

\* The variables of the test that watches an example keep their types.
THEOREM ProgramTypeCorrect == ProgramSpec => []ProgramTypeOK
  <1>1. ProgramInit => Flags /\ Waits /\ Bounded
    <2> SUFFICES ASSUME ProgramInit PROVE Flags /\ Waits /\ Bounded
      OBVIOUS
    <2>1. Flags
      BY Zenon DEF ProgramInit, Flags
    <2>2. Waits /\ Bounded
      BY MaxLinesAssumption, MaxForeignAssumption
         DEF ProgramInit, Waits, Bounded, NoFrames, NoCounts
    <2>3. QED
      BY <2>1, <2>2
  <1>2. Flags /\ Waits /\ Bounded => ProgramTypeOK
    <2> SUFFICES ASSUME Flags, Waits, Bounded PROVE ProgramTypeOK
      OBVIOUS
    <2>1. /\ after \in 0..Len(console) /\ matched \in 0..MaxLines
          /\ inFlight \in 0..MaxLines /\ sent \in 0..MaxLines
      BY MaxLinesAssumption DEF Bounded
    <2>2. QED
      BY <2>1, Zenon DEF Flags, Waits, Bounded, ProgramTypeOK
  <1>3. QED
    BY <1>1, <1>2, FlagsInductive, BoundedInductive, PTL DEF ProgramSpec
=============================================================================
