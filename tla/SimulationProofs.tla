-------------------------- MODULE SimulationProofs --------------------------
(***************************************************************************)
(* The two sides of the simulation.  SimulationControl.ask() returns its   *)
(* own command's answer once no earlier one is under way, for any number   *)
(* of commands and retries; and SimulatedServer serves the winning value   *)
(* and keeps the writes it takes, for every priority array and set of      *)
(* values.                                                                 *)
(***************************************************************************)
EXTENDS Control, PeerServer, FiniteSetTheorems, WellFoundedInduction, TLAPS

-----------------------------------------------------------------------------
(* SimulationControl: a command and its answer                             *)

\* Every entry of one buffer is an entry of another.
Among(s, t) == \A i \in 1..Len(s) : \E j \in 1..Len(t) : s[i] = t[j]

\* An empty receive buffer holds nobody's answer.
LEMMA EmptyBuffer == \A S : << >> \in Seq(S) /\ Len(<< >>) = 0
  OBVIOUS

\* The drain, a timeout and a pending exception take from the buffer and add nothing.
LEMMA BufferShrinks ==
    ASSUME buffer \in Seq(Received), Drain \/ Unanswered
    PROVE  buffer' \in Seq(Received) /\ Among(buffer', buffer)
  <1>1. CASE buffer' = << >>
    BY <1>1 DEF Among
  <1>2. CASE buffer' = buffer
    BY <1>2 DEF Among
  <1>3. ASSUME buffer # << >>, buffer' = Tail(buffer)
        PROVE  buffer' \in Seq(Received) /\ Among(buffer', buffer)
    <2>1. /\ Tail(buffer) \in Seq(Received)
          /\ \A i \in 1..Len(Tail(buffer)) : i + 1 \in 1..Len(buffer) /\ Tail(buffer)[i] = buffer[i + 1]
      BY <1>3
    <2>2. QED
      BY <1>3, <2>1 DEF Among
  <1>4. ASSUME NEW k \in 1..Len(buffer), buffer' = SubSeq(buffer, k + 1, Len(buffer))
        PROVE  buffer' \in Seq(Received) /\ Among(buffer', buffer)
    <2> DEFINE rest == SubSeq(buffer, k + 1, Len(buffer))
    <2>1. /\ rest \in Seq(Received) /\ Len(rest) = Len(buffer) - k
          /\ \A i \in 1..Len(rest) : i + k \in 1..Len(buffer) /\ rest[i] = buffer[i + k]
      OBVIOUS
    <2>2. QED
      BY <1>4, <2>1 DEF Among
  <1>5. QED
    BY <1>1, <1>2, <1>3, <1>4 DEF Drain, Unanswered, Resets

\* A command asked when nothing was late: what is on the network, in the buffer
\* or was returned since belongs to it.
OnlyCurrent ==
    settled =>
      /\ \A d \in sent \union answers : d.of = command
      /\ \A i \in 1..Len(buffer) : buffer[i].of = command
      /\ taken # None => taken.of = command

\* Every step of ask(), the example and the network keeps it so.
LEMMA OnlyCurrentInductive ==
    buffer \in Seq(Received) /\ OnlyCurrent /\ [ControlNext]_controlVars => OnlyCurrent'
  <1> SUFFICES ASSUME buffer \in Seq(Received), OnlyCurrent, [ControlNext]_controlVars, settled'
               PROVE  OnlyCurrent'
    BY DEF OnlyCurrent
  <1> USE DEF OnlyCurrent
  <1>1. CASE Ask
    <2>1. sent = {} /\ answers = {} /\ Resets = {}
      BY <1>1, Zenon DEF Ask
    <2>2. /\ command' = command + 1 /\ buffer' = << >> /\ taken' = None
          /\ sent' = {[of |-> command + 1, attempt |-> 1]} /\ answers' = {}
      BY <1>1, <2>1 DEF Ask, Drain
    <2>3. QED
      BY <2>2, EmptyBuffer
  <1>2. CASE TakeAnswer
    <2>1. /\ taken' = Head(buffer) /\ buffer' = Tail(buffer) /\ buffer # << >>
          /\ UNCHANGED <<command, sent, answers, settled>>
      BY <1>2 DEF TakeAnswer
    <2>2. /\ Head(buffer) = buffer[1] /\ 1 \in 1..Len(buffer)
          /\ \A i \in 1..Len(Tail(buffer)) : i + 1 \in 1..Len(buffer) /\ Tail(buffer)[i] = buffer[i + 1]
      BY <2>1
    <2>3. QED
      BY <2>1, <2>2
  <1>3. CASE SendAgain \/ GiveUp
    <2>1. Among(buffer', buffer) /\ Unanswered
      BY <1>3, BufferShrinks DEF SendAgain, GiveUp
    <2>2. UNCHANGED <<command, answers, taken, settled>>
      BY <1>3 DEF SendAgain, GiveUp
    <2>3. sent' = sent \/ sent' = sent \union {[of |-> command, attempt |-> attempt + 1]}
      BY <1>3 DEF SendAgain, GiveUp
    <2>4. QED
      BY <2>1, <2>2, <2>3 DEF Among
  <1>4. ASSUME NEW d \in sent, NEW text, Execute(d) \/ Refuse(d, text)
        PROVE  OnlyCurrent'
    <2>1. \E t : answers' = answers \union {AnswerTo(d, t)}
      BY <1>4 DEF Execute, Refuse
    <2>2. /\ sent' = sent \ {d}
          /\ UNCHANGED <<command, buffer, taken, settled>>
      BY <1>4 DEF Execute, Refuse
    <2>3. \A t : AnswerTo(d, t).of = d.of
      BY DEF AnswerTo
    <2>4. QED
      BY <2>1, <2>2, <2>3
  <1>5. ASSUME NEW d \in answers, Deliver(d)
        PROVE  OnlyCurrent'
    <2> DEFINE entry == [of |-> d.of, text |-> d.text]
    <2>1. /\ buffer' = Append(buffer, entry) /\ answers' = answers \ {d}
          /\ UNCHANGED <<command, sent, taken, settled>>
      BY <1>5 DEF Deliver
    <2>2. \A i \in 1..Len(buffer') : buffer'[i] = entry \/ (i \in 1..Len(buffer) /\ buffer'[i] = buffer[i])
      BY <2>1
    <2>3. d.of = command /\ entry.of = d.of
      BY <2>1
    <2>4. QED
      BY <2>1, <2>2, <2>3
  <1>6. ASSUME NEW d \in sent \union answers, Lose(d)
        PROVE  OnlyCurrent'
    BY <1>6 DEF Lose
  <1>7. CASE UNCHANGED controlVars
    BY <1>7 DEF controlVars
  <1>8. QED
    BY <1>1, <1>2, <1>3, <1>4, <1>5, <1>6, <1>7 DEF ControlNext

-----------------------------------------------------------------------------
(* How often a command is carried out                                      *)

Of(datagrams, c) == {d \in datagrams : d.of = c}

\* One more datagram on the network is at most one more of its command.
LEMMA OfAdded ==
    ASSUME NEW S, IsFiniteSet(S), NEW x, NEW c
    PROVE  /\ Cardinality(Of(S, c)) \in Nat /\ Cardinality(Of(S \union {x}, c)) \in Nat
           /\ Cardinality(Of(S \union {x}, c)) <= Cardinality(Of(S, c)) + 1
           /\ x.of # c => Cardinality(Of(S \union {x}, c)) = Cardinality(Of(S, c))
  <1>1. IsFiniteSet(Of(S, c))
    BY FS_Subset, Of(S, c) \in SUBSET S DEF Of
  <1>2. CASE x.of = c
    <2>1. Of(S \union {x}, c) = Of(S, c) \union {x}
      BY <1>2 DEF Of
    <2>2. /\ IsFiniteSet(Of(S, c) \union {x})
          /\ Cardinality(Of(S, c) \union {x}) =
               IF x \in Of(S, c) THEN Cardinality(Of(S, c)) ELSE Cardinality(Of(S, c)) + 1
      BY <1>1, FS_AddElement
    <2>3. Cardinality(Of(S, c)) \in Nat
      BY <1>1, FS_CardinalityType
    <2>4. Cardinality(Of(S \union {x}, c)) = Cardinality(Of(S, c) \union {x})
      BY <2>1, Zenon
    <2>5. QED
      BY <1>2, <2>2, <2>3, <2>4
  <1>3. CASE x.of # c
    <2>1. Of(S \union {x}, c) = Of(S, c)
      BY <1>3 DEF Of
    <2>2. QED
      BY <1>1, <1>3, <2>1, FS_CardinalityType
  <1>4. QED
    BY <1>2, <1>3

\* One datagram less is one less of its command.
LEMMA OfRemoved ==
    ASSUME NEW S, IsFiniteSet(S), NEW x \in S, NEW c
    PROVE  /\ IsFiniteSet(S \ {x})
           /\ Cardinality(Of(S, c)) \in Nat /\ Cardinality(Of(S \ {x}, c)) \in Nat
           /\ Cardinality(Of(S \ {x}, c)) + (IF x.of = c THEN 1 ELSE 0) = Cardinality(Of(S, c))
  <1>1. IsFiniteSet(Of(S, c)) /\ IsFiniteSet(S \ {x})
    BY FS_Subset, FS_RemoveElement, Of(S, c) \in SUBSET S DEF Of
  <1>2. CASE x.of = c
    <2>1. Of(S \ {x}, c) = Of(S, c) \ {x} /\ x \in Of(S, c)
      BY <1>2 DEF Of
    <2>2. IsFiniteSet(Of(S, c) \ {x}) /\ Cardinality(Of(S, c) \ {x}) = Cardinality(Of(S, c)) - 1
      BY <1>1, <2>1, FS_RemoveElement
    <2>3. Cardinality(Of(S, c)) \in Nat
      BY <1>1, FS_CardinalityType
    <2>4. Cardinality(Of(S, c) \ {x}) \in Nat
      BY <2>2, FS_CardinalityType
    <2>5. Cardinality(Of(S \ {x}, c)) = Cardinality(Of(S, c) \ {x})
      BY <2>1, Zenon
    <2>6. QED
      BY <1>1, <1>2, <2>2, <2>3, <2>4, <2>5
  <1>3. CASE x.of # c
    <2>1. Of(S \ {x}, c) = Of(S, c)
      BY <1>3 DEF Of
    <2>2. QED
      BY <1>1, <1>3, <2>1, FS_CardinalityType
  <1>4. QED
    BY <1>2, <1>3

\* The attempts ask() has made for a command.
AttemptsMade(c) == IF c < command THEN Retries + 1 ELSE IF c = command THEN attempt ELSE 0

\* A success belongs to a command that was carried out.
Backed(a) == a.text = "ok" => executed[a.of] > 0

\* What the example did and may still do for a command is no more than was sent,
\* and every success, under way, received or returned, is backed.
Counted ==
    /\ command \in 0..MaxCommands /\ attempt \in 0..Retries+1
    /\ taken \in Received \cup {None} /\ taken.text # "reset"
    /\ asking => command > 0
    /\ sent \subseteq Datagram /\ IsFiniteSet(sent)
    /\ answers \subseteq Response
    /\ buffer \in Seq(Received)
    /\ executed \in [Commands -> Nat]
    /\ \A c \in Commands : executed[c] + Cardinality(Of(sent, c)) <= AttemptsMade(c)
    /\ \A d \in answers : Backed(d)
    /\ \A i \in 1..Len(buffer) : Backed(buffer[i])
    /\ Backed(taken)

\* Every step of ask(), the example and the network keeps the counts.
LEMMA CountedInductive == Counted /\ [ControlNext]_controlVars => Counted'
  <1> SUFFICES ASSUME Counted, [ControlNext]_controlVars
               PROVE  Counted'
    OBVIOUS
  <1> USE RetriesAssumption, MaxCommandsAssumption DEF Counted, Commands, Attempts
  <1>1. CASE Ask
    <2> DEFINE new == [of |-> command + 1, attempt |-> 1]
    <2>1. /\ command' = command + 1 /\ attempt' = 1 /\ taken' = None
          /\ sent' = sent \union {new} /\ answers' = answers /\ executed' = executed
          /\ command < MaxCommands
      BY <1>1 DEF Ask
    <2>2. new \in Datagram /\ new.of = command + 1
      BY <2>1 DEF Datagram
    <2>3. IsFiniteSet(sent')
      BY <2>1, FS_AddElement
    <2>4. ASSUME NEW c \in Commands
          PROVE  executed'[c] + Cardinality(Of(sent', c)) <= AttemptsMade(c)'
      <3>1. /\ Cardinality(Of(sent, c)) \in Nat /\ Cardinality(Of(sent', c)) \in Nat
            /\ Cardinality(Of(sent', c)) <= Cardinality(Of(sent, c)) + 1
            /\ c # command + 1 => Cardinality(Of(sent', c)) = Cardinality(Of(sent, c))
        BY <2>1, <2>2, OfAdded
      <3>2. executed[c] + Cardinality(Of(sent, c)) <= AttemptsMade(c)
        OBVIOUS
      <3>3. QED
        BY <2>1, <3>1, <3>2 DEF AttemptsMade
    <2>5. sent' \subseteq Datagram /\ (asking' => command' > 0)
      BY <2>1, <2>2
    <2>6. buffer' \in Seq(Received) /\ Among(buffer', buffer)
      BY <1>1, BufferShrinks DEF Ask
    <2>7. (\A i \in 1..Len(buffer) : Backed(buffer[i]))'
      BY <2>1, <2>6 DEF Among, Backed
    <2>8. /\ command' \in 0..MaxCommands /\ attempt' \in 0..Retries+1
          /\ taken' = None /\ None.text # "reset" /\ Backed(taken)'
      BY <2>1 DEF None, Backed
    <2>9. /\ answers' \subseteq Response /\ executed' \in [Commands -> Nat]
          /\ (\A d \in answers : Backed(d))'
      BY <2>1 DEF Backed
    <2>10. QED
      BY <2>3, <2>4, <2>5, <2>6, <2>7, <2>8, <2>9
  <1>2. CASE TakeAnswer
    <2>1. /\ taken' = Head(buffer) /\ buffer' = Tail(buffer) /\ buffer # << >>
          /\ Head(buffer).text # "reset"
          /\ UNCHANGED <<command, attempt, sent, answers, executed>>
      BY <1>2 DEF TakeAnswer
    <2>2. ~asking'
      BY <1>2, Zenon DEF TakeAnswer
    <2>3. /\ Head(buffer) = buffer[1] /\ buffer[1] \in Received /\ Backed(buffer[1])
          /\ Tail(buffer) \in Seq(Received)
          /\ \A i \in 1..Len(Tail(buffer)) : i + 1 \in 1..Len(buffer) /\ Tail(buffer)[i] = buffer[i + 1]
      BY <2>1
    <2>4. /\ (\A i \in 1..Len(buffer) : Backed(buffer[i]))'
          /\ (\A d \in answers : Backed(d))'
          /\ Backed(taken)'
      BY <2>1, <2>3 DEF Backed
    <2>5. \A c \in Commands : AttemptsMade(c)' = AttemptsMade(c)
      BY <2>1 DEF AttemptsMade
    <2>6. QED
      BY <2>1, <2>2, <2>3, <2>4, <2>5
  <1>3. CASE SendAgain
    <2> DEFINE new == [of |-> command, attempt |-> attempt + 1]
    <2>1. /\ attempt' = attempt + 1 /\ attempt <= Retries /\ sent' = sent \union {new}
          /\ UNCHANGED <<asking, command, answers, executed, taken>> /\ command > 0
      BY <1>3 DEF SendAgain
    <2>2. new \in Datagram /\ new.of = command
      BY <2>1 DEF Datagram
    <2>3. IsFiniteSet(sent')
      BY <2>1, FS_AddElement
    <2>4. ASSUME NEW c \in Commands
          PROVE  executed'[c] + Cardinality(Of(sent', c)) <= AttemptsMade(c)'
      <3>1. /\ Cardinality(Of(sent, c)) \in Nat /\ Cardinality(Of(sent', c)) \in Nat
            /\ Cardinality(Of(sent', c)) <= Cardinality(Of(sent, c)) + 1
            /\ c # command => Cardinality(Of(sent', c)) = Cardinality(Of(sent, c))
        BY <2>1, <2>2, OfAdded
      <3>2. executed[c] + Cardinality(Of(sent, c)) <= AttemptsMade(c)
        OBVIOUS
      <3>3. QED
        BY <2>1, <3>1, <3>2 DEF AttemptsMade
    <2>5. /\ sent' \subseteq Datagram /\ attempt' \in 0..Retries+1
          /\ (asking' => command' > 0)
      BY <2>1, <2>2
    <2>6. buffer' \in Seq(Received) /\ Among(buffer', buffer)
      BY <1>3, BufferShrinks DEF SendAgain
    <2>7. /\ (\A i \in 1..Len(buffer) : Backed(buffer[i]))'
          /\ (\A d \in answers : Backed(d))'
          /\ Backed(taken)'
      BY <2>1, <2>6 DEF Among, Backed
    <2>8. QED
      BY <2>1, <2>3, <2>4, <2>5, <2>6, <2>7
  <1>4. CASE GiveUp
    <2>1. UNCHANGED <<command, attempt, sent, answers, executed, taken>>
      BY <1>4 DEF GiveUp
    <2>2. ~asking'
      BY <1>4, Zenon DEF GiveUp
    <2>3. \A c \in Commands : AttemptsMade(c)' = AttemptsMade(c)
      BY <2>1 DEF AttemptsMade
    <2>4. buffer' \in Seq(Received) /\ Among(buffer', buffer)
      BY <1>4, BufferShrinks DEF GiveUp
    <2>5. /\ (\A i \in 1..Len(buffer) : Backed(buffer[i]))'
          /\ (\A d \in answers : Backed(d))'
          /\ Backed(taken)'
      BY <2>1, <2>4 DEF Among, Backed
    <2>6. QED
      BY <2>1, <2>2, <2>3, <2>4, <2>5
  <1>5. ASSUME NEW d \in sent, Execute(d)
        PROVE  Counted'
    <2>1. /\ sent' = sent \ {d} /\ executed' = [executed EXCEPT ![d.of] = @ + 1]
          /\ answers' = answers \union {AnswerTo(d, "ok")}
          /\ UNCHANGED <<asking, command, attempt, buffer, taken>>
      BY <1>5 DEF Execute
    <2>2. /\ d \in Datagram /\ d.of \in Commands
          /\ AnswerTo(d, "ok") \in Response /\ AnswerTo(d, "ok").of = d.of
      BY DEF Datagram, Response, Texts, AnswerTo
    <2>3. /\ executed' \in [Commands -> Nat] /\ executed'[d.of] = executed[d.of] + 1
          /\ \A c \in Commands : executed'[c] >= executed[c] /\ (c # d.of => executed'[c] = executed[c])
      BY <2>1, <2>2
    <2>4. ASSUME NEW c \in Commands
          PROVE  executed'[c] + Cardinality(Of(sent', c)) <= AttemptsMade(c)'
      <3>1. /\ Cardinality(Of(sent, c)) \in Nat /\ Cardinality(Of(sent', c)) \in Nat
            /\ Cardinality(Of(sent', c)) + (IF d.of = c THEN 1 ELSE 0) = Cardinality(Of(sent, c))
        BY <2>1, OfRemoved
      <3>2. executed[c] + Cardinality(Of(sent, c)) <= AttemptsMade(c)
        OBVIOUS
      <3>3. AttemptsMade(c)' = AttemptsMade(c) /\ AttemptsMade(c) \in Nat
        BY <2>1 DEF AttemptsMade
      <3>4. executed[c] \in Nat /\ executed'[c] \in Nat
        BY <2>3
      <3>5. QED
        <4>1. CASE d.of = c
          BY <2>3, <3>1, <3>2, <3>3, <3>4, <4>1
        <4>2. CASE d.of # c
          BY <2>3, <3>1, <3>2, <3>3, <3>4, <4>2
        <4>3. QED
          BY <4>1, <4>2
    <2>5. IsFiniteSet(sent')
      BY <2>1, OfRemoved
    <2>6. (\A e \in answers : Backed(e))'
      BY <2>1, <2>2, <2>3 DEF Response, Backed
    <2>7. (\A i \in 1..Len(buffer) : Backed(buffer[i]))'
      <3>1. \A i \in 1..Len(buffer) : buffer[i] \in Received
        OBVIOUS
      <3>2. QED
        BY <2>1, <2>3, <3>1 DEF Received, Backed
    <2>8. Backed(taken)'
      BY <2>1, <2>3 DEF Received, None, Backed
    <2>9. QED
      BY <2>1, <2>2, <2>3, <2>4, <2>5, <2>6, <2>7, <2>8
  <1>10. ASSUME NEW d \in sent, NEW text \in {"error", "reset"}, Refuse(d, text)
         PROVE  Counted'
    <2>1. /\ sent' = sent \ {d} /\ answers' = answers \union {AnswerTo(d, text)}
          /\ UNCHANGED <<asking, command, attempt, buffer, executed, taken>>
      BY <1>10 DEF Refuse
    <2>2. AnswerTo(d, text) \in Response /\ Backed(AnswerTo(d, text))
      BY DEF Datagram, Response, Texts, AnswerTo, Backed
    <2>3. ASSUME NEW c \in Commands
          PROVE  executed'[c] + Cardinality(Of(sent', c)) <= AttemptsMade(c)'
      <3>1. /\ Cardinality(Of(sent, c)) \in Nat /\ Cardinality(Of(sent', c)) \in Nat
            /\ Cardinality(Of(sent', c)) + (IF d.of = c THEN 1 ELSE 0) = Cardinality(Of(sent, c))
        BY <2>1, OfRemoved
      <3>2. executed[c] \in Nat /\ executed[c] + Cardinality(Of(sent, c)) <= AttemptsMade(c)
        OBVIOUS
      <3>3. AttemptsMade(c)' = AttemptsMade(c) /\ AttemptsMade(c) \in Nat
        BY <2>1 DEF AttemptsMade
      <3>4. Cardinality(Of(sent', c)) <= Cardinality(Of(sent, c))
        BY <3>1
      <3>5. QED
        BY <2>1, <3>1, <3>2, <3>3, <3>4
    <2>4. IsFiniteSet(sent')
      BY <2>1, OfRemoved
    <2>5. /\ (\A e \in answers : Backed(e))'
          /\ (\A i \in 1..Len(buffer) : Backed(buffer[i]))'
          /\ Backed(taken)'
      BY <2>1, <2>2 DEF Backed
    <2>6. QED
      BY <2>1, <2>2, <2>3, <2>4, <2>5
  <1>6. ASSUME NEW d \in answers, Deliver(d)
        PROVE  Counted'
    <2> DEFINE entry == [of |-> d.of, text |-> d.text]
    <2>1. /\ answers' = answers \ {d} /\ buffer' = Append(buffer, entry)
          /\ UNCHANGED <<asking, command, attempt, sent, executed, taken>>
      BY <1>6 DEF Deliver
    <2>2. entry \in Received /\ Backed(entry)
      BY DEF Response, Received, Backed
    <2>3. /\ buffer' \in Seq(Received)
          /\ \A i \in 1..Len(buffer') : buffer'[i] = entry \/ (i \in 1..Len(buffer) /\ buffer'[i] = buffer[i])
      BY <2>1, <2>2
    <2>4. \A c \in Commands : AttemptsMade(c)' = AttemptsMade(c)
      BY <2>1 DEF AttemptsMade
    <2>5. /\ (\A e \in answers : Backed(e))'
          /\ (\A i \in 1..Len(buffer) : Backed(buffer[i]))'
          /\ Backed(taken)'
      BY <2>1, <2>2, <2>3 DEF Backed
    <2>6. QED
      BY <2>1, <2>3, <2>4, <2>5
  <1>7. ASSUME NEW d \in sent \union answers, Lose(d)
        PROVE  Counted'
    <2>1. /\ sent' = sent \ {d} /\ answers' = answers \ {d}
          /\ UNCHANGED <<asking, command, attempt, buffer, executed, taken>>
      BY <1>7 DEF Lose
    <2>2. \A c \in Commands : AttemptsMade(c)' = AttemptsMade(c) /\ AttemptsMade(c) \in Nat
      BY <2>1 DEF AttemptsMade
    <2>6. /\ (\A e \in answers : Backed(e))'
           /\ (\A i \in 1..Len(buffer) : Backed(buffer[i]))'
           /\ Backed(taken)'
      BY <2>1 DEF Backed
    <2>3. CASE d \in sent
      <3>1. ASSUME NEW c \in Commands
            PROVE  executed'[c] + Cardinality(Of(sent', c)) <= AttemptsMade(c)'
        <4>1. /\ Cardinality(Of(sent, c)) \in Nat /\ Cardinality(Of(sent', c)) \in Nat
              /\ Cardinality(Of(sent', c)) <= Cardinality(Of(sent, c))
          <5>1. Cardinality(Of(sent', c)) + (IF d.of = c THEN 1 ELSE 0) = Cardinality(Of(sent, c))
            BY <2>1, <2>3, OfRemoved
          <5>2. Cardinality(Of(sent, c)) \in Nat /\ Cardinality(Of(sent', c)) \in Nat
            BY <2>1, <2>3, OfRemoved
          <5>3. QED
            BY <5>1, <5>2
        <4>2. executed[c] \in Nat /\ executed[c] + Cardinality(Of(sent, c)) <= AttemptsMade(c)
          OBVIOUS
        <4>3. QED
          BY <2>1, <2>2, <4>1, <4>2
      <3>2. IsFiniteSet(sent')
        BY <2>1, <2>3, OfRemoved
      <3>3. QED
        BY <2>1, <2>6, <3>1, <3>2
    <2>4. CASE d \notin sent
      <3>1. sent' = sent
        BY <2>1, <2>4
      <3>2. QED
        BY <2>1, <2>2, <2>6, <3>1
    <2>5. QED
      BY <2>3, <2>4
  <1>8. CASE UNCHANGED controlVars
    BY <1>8 DEF controlVars, AttemptsMade, Backed
  <1>9. QED
    BY <1>1, <1>2, <1>3, <1>4, <1>5, <1>10, <1>6, <1>7, <1>8 DEF ControlNext

\* The counts hold of every behaviour.
LEMMA CountedInvariant == ControlSpec => []Counted
  <1>1. ControlInit => Counted
    <2> SUFFICES ASSUME ControlInit PROVE Counted
      OBVIOUS
    <2>1. /\ command = 0 /\ attempt = 0 /\ taken = None /\ sent = {} /\ answers = {} /\ buffer = << >>
          /\ executed = [c \in Commands |-> 0]
      BY DEF ControlInit
    <2>2. ~asking
      BY DEF ControlInit
    <2>3. IsFiniteSet(sent)
      BY <2>1, FS_EmptySet
    <2>4. ASSUME NEW c \in Commands
          PROVE  executed[c] + Cardinality(Of(sent, c)) <= AttemptsMade(c)
      <3>1. Of(sent, c) = {}
        BY <2>1 DEF Of
      <3>2. Cardinality(Of(sent, c)) = 0
        BY <3>1, FS_EmptySet, Zenon
      <3>3. executed[c] = 0 /\ c > 0
        BY <2>1, MaxCommandsAssumption DEF Commands
      <3>4. AttemptsMade(c) = 0
        BY <2>1, <3>3 DEF AttemptsMade, Commands
      <3>5. QED
        BY <3>2, <3>3, <3>4
    <2>5. buffer \in Seq(Received) /\ \A i \in 1..Len(buffer) : FALSE
      BY <2>1, EmptyBuffer
    <2>6. /\ command \in 0..MaxCommands /\ attempt \in 0..Retries+1
          /\ executed \in [Commands -> Nat]
          /\ taken = None /\ taken.text # "reset" /\ Backed(taken)
          /\ sent \subseteq Datagram /\ answers \subseteq Response /\ \A d \in answers : FALSE
      BY <2>1, RetriesAssumption, MaxCommandsAssumption DEF None, Backed
    <2>7. QED
      BY <2>2, <2>3, <2>4, <2>5, <2>6, Zenon DEF Counted
  <1>2. QED
    BY <1>1, CountedInductive, PTL DEF ControlSpec

\* The variables keep their types: the example carries no command out more often
\* than ask() has attempts, whatever the network does.
THEOREM ControlTypeCorrect == ControlSpec => []ControlTypeOK
  <1> DEFINE Flag == asking \in BOOLEAN /\ settled \in BOOLEAN
  <1>1. ControlInit => Flag
    BY DEF ControlInit
  <1>2. Flag /\ [ControlNext]_controlVars => Flag'
    BY Zenon DEF ControlNext, controlVars, Ask, TakeAnswer, SendAgain, GiveUp, Execute, Refuse, Deliver, Lose
  <1>3. Counted => executed \in [Commands -> 0..Retries+1]
    <2> SUFFICES ASSUME Counted PROVE executed \in [Commands -> 0..Retries+1]
      OBVIOUS
    <2>1. ASSUME NEW c \in Commands
          PROVE  executed[c] \in 0..Retries+1
      <3>1. executed[c] \in Nat /\ executed[c] + Cardinality(Of(sent, c)) <= AttemptsMade(c)
        BY DEF Counted
      <3>2. Cardinality(Of(sent, c)) \in Nat
        <4>1. IsFiniteSet(sent)
          BY DEF Counted
        <4>2. QED
          BY <4>1, OfAdded
      <3>3. AttemptsMade(c) \in 0..Retries+1
        <4>1. attempt \in 0..Retries+1
          BY DEF Counted
        <4>2. QED
          BY ONLY <4>1, RetriesAssumption DEF AttemptsMade
      <3>4. QED
        BY <3>1, <3>2, <3>3, RetriesAssumption
    <2>2. QED
      BY <2>1 DEF Counted
  <1>4. Counted /\ Flag => ControlTypeOK
    BY <1>3, Zenon DEF Counted, ControlTypeOK
  <1>5. QED
    BY <1>1, <1>2, <1>4, CountedInvariant, PTL DEF ControlSpec

\* What the drain is worth (control.py:41-54): for any number of commands and
\* retries, a command asked when nothing was late gets its own answer, and is
\* reported done only if it was carried out, at most once per attempt.
THEOREM SettledAnswersAreOwn == ControlSpec => []SettledAnswerIsOwn
  <1>1. ControlInit => OnlyCurrent
    BY EmptyBuffer DEF ControlInit, OnlyCurrent
  <1>2. OnlyCurrent /\ Counted => SettledAnswerIsOwn
    <2> SUFFICES ASSUME OnlyCurrent, Counted, settled, taken # None
                 PROVE  taken.of = command /\ (Succeeds => executed[command] \in 1..attempt)
      BY DEF SettledAnswerIsOwn
    <2>1. taken.of = command /\ taken \in Received
      BY DEF OnlyCurrent, Counted
    <2>2. ASSUME Succeeds
          PROVE  executed[command] \in 1..attempt
      <3>1. taken.text = "ok"
        BY <2>1, <2>2 DEF Received, Texts, Succeeds, Counted
      <3>2. command \in Commands /\ executed[command] > 0
        BY <2>1, <3>1 DEF Counted, Received, Backed
      <3>3. /\ executed[command] \in Nat
            /\ executed[command] + Cardinality(Of(sent, command)) <= attempt
        BY <3>2, MaxCommandsAssumption DEF Counted, AttemptsMade, Commands
      <3>4. Cardinality(Of(sent, command)) \in Nat
        BY OfAdded DEF Counted
      <3>5. attempt \in Nat
        BY RetriesAssumption DEF Counted
      <3>6. QED
        BY <3>2, <3>3, <3>4, <3>5
    <2>3. QED
      BY <2>1, <2>2
  <1>3. Counted => buffer \in Seq(Received)
    BY DEF Counted
  <1>4. QED
    BY <1>1, <1>2, <1>3, OnlyCurrentInductive, CountedInvariant, PTL DEF ControlSpec

\* control.py:68-73: whatever the network delays, send() returns only on the
\* answer of a command that was carried out, this one or an earlier one.
THEOREM SuccessesWereCarriedOut == ControlSpec => []SuccessWasCarriedOut
  <1>1. Counted => SuccessWasCarriedOut
    <2> SUFFICES ASSUME Counted, Succeeds
                 PROVE  taken.of <= command /\ executed[taken.of] > 0
      BY DEF SuccessWasCarriedOut
    <2>1. taken \in Received /\ taken.text = "ok" /\ taken.of \in Commands
      BY DEF Received, Texts, Succeeds, Counted
    <2>2. executed[taken.of] > 0 /\ executed[taken.of] \in Nat
      BY <2>1 DEF Counted, Backed
    <2>3. executed[taken.of] + Cardinality(Of(sent, taken.of)) <= AttemptsMade(taken.of)
      BY <2>1 DEF Counted
    <2>4. Cardinality(Of(sent, taken.of)) \in Nat
      BY OfAdded DEF Counted
    <2>5. AttemptsMade(taken.of) # 0
      <3>1. AttemptsMade(taken.of) \in Nat
        BY <2>1, RetriesAssumption DEF AttemptsMade, Counted
      <3>2. QED
        BY <2>2, <2>3, <2>4, <3>1
    <2>6. QED
      BY <2>1, <2>2, <2>5, MaxCommandsAssumption DEF AttemptsMade, Counted, Commands
  <1>2. QED
    BY <1>1, CountedInvariant, PTL

-----------------------------------------------------------------------------
(* SimulatedServer: types, priorities and the write log                    *)

PeerInv ==
    /\ inbox \in Seq(Requests)
    /\ frame \in Requests
    /\ slots \in [1..Slots -> Values \cup {Null}]
    /\ values = [o \in Objects |-> values[o]]
    /\ ServedIsWinning

\* The value served is the one of the first filled slot of an array.
Serves(v, array) ==
    /\ \A p \in 1..Slots :
         array[p] # Null /\ (\A q \in 1..p-1 : array[q] = Null) => v = array[p]
    /\ (\A p \in 1..Slots : array[p] = Null) => v = RelinquishDefault

-----------------------------------------------------------------------------
\* A frame is a read or a write, with a value and a priority of Priorities or
\* none.
LEMMA FrameFields ==
    ASSUME NEW f \in Requests
    PROVE  /\ f.service \in {"read", "write"}
           /\ f.value \in Values \cup {Null}
           /\ f.priority \in Priorities \cup {0}
BY RelinquishDefaultAssumption DEF Requests, Write, ReadRequest

\* Winning picks the value of the first filled slot.
LEMMA WinningServes ==
    ASSUME NEW array \in [1..Slots -> Values \cup {Null}]
    PROVE  Serves(Winning(array), array)
<1>1. ASSUME NEW p \in 1..Slots, array[p] # Null, \A q \in 1..p-1 : array[q] = Null
      PROVE  Winning(array) = array[p]
  <2>1. p \in Filled(array)
    BY <1>1 DEF Filled
  <2>2. ASSUME NEW q \in Filled(array)
        PROVE  p <= q
    <3>1. q \in 1..Slots /\ array[q] # Null
      BY <2>2 DEF Filled
    <3>2. ~(q \in 1..p-1)
      BY <1>1, <3>1
    <3> QED
      BY <3>1, <3>2, SlotsAssumption
  <2>3. \A r \in Filled(array) : (\A q \in Filled(array) : r <= q) => r = p
    <3> SUFFICES ASSUME NEW r \in Filled(array), \A q \in Filled(array) : r <= q
                 PROVE  r = p
      OBVIOUS
    <3>1. r <= p /\ p <= r
      BY <2>1, <2>2
    <3>2. r \in Nat /\ p \in Nat
      BY SlotsAssumption DEF Filled
    <3> QED
      BY <3>1, <3>2
  <2>4. (CHOOSE r \in Filled(array) : \A q \in Filled(array) : r <= q) = p
    BY <2>1, <2>2, <2>3
  <2> QED
    BY <2>1, <2>4 DEF Winning
<1>2. ASSUME \A p \in 1..Slots : array[p] = Null
      PROVE  Winning(array) = RelinquishDefault
  BY <1>2 DEF Winning, Filled
<1> QED
  BY <1>1, <1>2 DEF Serves

\* PeerInv is inductive when no request names a slot the array lacks.
LEMMA PeerInvInductive ==
    ASSUME Priorities \subseteq 0..Slots, PeerInv, [PeerNext]_peerVars
    PROVE  PeerInv'
<1> USE DEF PeerInv, serving, history, IsWinning
<1>1. CASE \E request \in Requests : RequestArrives(request)
  BY <1>1 DEF RequestArrives, ServedIsWinning
<1>2. CASE \/ \E m \in {"online", "offline", "refusing"} : SetMode(m)
           \/ \E f \in Failures : SetFailure(f)
  BY <1>2 DEF SetMode, SetFailure, ServedIsWinning
<1>3. CASE Serve
  <2>1. Head(inbox) \in Requests /\ Tail(inbox) \in Seq(Requests)
    BY <1>3 DEF Serve
  <2> QED
    BY <1>3, <2>1 DEF Serve, Continue, ServedIsWinning
<1>4. CASE Answer \/ LogWrite \/ CheckOffline \/ StartWrite \/ AnswerRead
  <2>1. pc # "arbitrate"
    BY <1>4 DEF Answer, LogWrite, CheckOffline, StartWrite, AnswerRead
  <2>2. UNCHANGED <<inbox, frame, slots, values>>
    BY <1>4 DEF Answer, LogWrite, CheckOffline, StartWrite, AnswerRead
  <2> QED
    BY <2>1, <2>2 DEF ServedIsWinning
<1>5. CASE StoreValue
  <2>1. pc = "allow" /\ UNCHANGED <<inbox, frame, slots>>
    BY <1>5 DEF StoreValue
  <2>2. values' = [o \in Objects |-> values'[o]]
    BY <1>5 DEF StoreValue
  <2>3. pc' # "arbitrate" => values'["commandable"] = values["commandable"]
    BY <1>5 DEF StoreValue, Continue, Answered, Reply, Objects
  <2> QED
    BY <2>1, <2>2, <2>3 DEF ServedIsWinning
<1>6. CASE Arbitrate
  <2>1. SlotOf(frame.priority) \in 1..Slots /\ frame.value \in Values \cup {Null}
    BY FrameFields, SlotsAssumption DEF SlotOf
  <2>2. /\ slots' = [slots EXCEPT ![SlotOf(frame.priority)] = frame.value]
        /\ values' = [values EXCEPT !["commandable"] = Winning(slots')]
        /\ UNCHANGED <<inbox, frame>>
    BY <1>6, <2>1 DEF Arbitrate
  <2>3. slots' \in [1..Slots -> Values \cup {Null}]
    BY <2>1, <2>2
  <2>4. Serves(Winning(slots'), slots')
    <3>1. \A array \in [1..Slots -> Values \cup {Null}] : Serves(Winning(array), array)
      BY WinningServes
    <3> QED
      BY <2>3, <3>1
  <2>5. values'["commandable"] = Winning(slots')
    BY <2>2 DEF Objects
  <2>6. values' = [o \in Objects |-> values'[o]]
    BY <2>2
  <2> QED
    BY <2>2, <2>3, <2>4, <2>5, <2>6 DEF Serves, ServedIsWinning
<1>7. CASE UNCHANGED peerVars
  BY <1>7 DEF peerVars, ServedIsWinning
<1> QED
  BY <1>1, <1>2, <1>3, <1>4, <1>5, <1>6, <1>7 DEF PeerNext, ServeThread

\* With priorities the array has slots for, the Present_Value served is the
\* first filled slot's in every reachable state outside an unfinished command,
\* for every number of slots and every set of values; the test may switch the
\* mode and the failures at any time.
THEOREM PeerServesWinning ==
    ASSUME Priorities \subseteq 0..Slots
    PROVE  PeerSafety => []ServedIsWinning
<1>1. PeerInit => PeerInv
  BY RelinquishDefaultAssumption
     DEF PeerInit, PeerInv, ServedIsWinning, IsWinning, Requests, Write, ReadRequest, Objects
<1>2. PeerInv /\ [PeerNext]_peerVars => PeerInv'
  BY PeerInvInductive
<1>3. PeerInv => ServedIsWinning
  BY DEF PeerInv
<1> QED
  BY <1>1, <1>2, <1>3, PTL DEF PeerSafety

-----------------------------------------------------------------------------
\* Why a plain property keeps its value: past the look at "offline" the mode is
\* another one, and a NULL gets past the first look of _write only while the
\* server refuses, unless the mode is switched in between.
NullInv ==
    /\ inbox \in Seq(Requests)
    /\ frame \in Requests
    /\ mode \in {"online", "offline", "refusing"}
    /\ values = [o \in Objects |-> values[o]]
    /\ ~switched =>
         /\ pc = "write" => mode # "offline"
         /\ pc = "allow" /\ frame.object = "plain" /\ frame.value = Null
              => mode = "refusing"

\* NullInv is inductive.
LEMMA NullInvInductive ==
    ASSUME NullInv, [PeerNext]_peerVars
    PROVE  NullInv'
<1> USE DEF NullInv, serving, history
<1>1. CASE \E request \in Requests : RequestArrives(request)
  BY <1>1 DEF RequestArrives
<1>2. CASE \E m \in {"online", "offline", "refusing"} : SetMode(m)
  BY <1>2 DEF SetMode
<1>3. CASE \E f \in Failures : SetFailure(f)
  BY <1>3 DEF SetFailure
<1>4. CASE Serve
  <2>1. Head(inbox) \in Requests /\ Tail(inbox) \in Seq(Requests)
    BY <1>4 DEF Serve
  <2> QED
    BY <1>4, <2>1 DEF Serve, Continue
<1>5. CASE Answer
  BY <1>5 DEF Answer, Continue, Answered, NotAnswered, Reply
<1>6. CASE LogWrite
  BY <1>6 DEF LogWrite, Continue
<1>7. CASE CheckOffline
  BY <1>7, FrameFields DEF CheckOffline, Continue, NotAnswered, Reply
<1>8. CASE StartWrite
  BY <1>8 DEF StartWrite, NullIgnored, Continue, Answered, Reply
<1>9. CASE StoreValue
  <2>1. /\ pc' \in {"arbitrate", "idle"}
        /\ values' \in {values, [values EXCEPT ![frame.object] = frame.value]}
        /\ UNCHANGED <<mode, inbox, frame, switched>>
    BY <1>9 DEF StoreValue, Continue, Answered, Reply
  <2>2. values' = [o \in Objects |-> values'[o]]
    BY <2>1
  <2> QED
    BY <2>1, <2>2
<1>10. CASE Arbitrate
  <2>1. /\ UNCHANGED <<mode, switched, inbox, frame>> /\ pc' \in {"idle", "dead"}
        /\ \/ values' = [values EXCEPT !["commandable"] = Winning(slots')]
           \/ values' = values
    BY <1>10 DEF Arbitrate, Continue, Answered, Reply
  <2>2. values' = [o \in Objects |-> values'[o]]
    BY <2>1
  <2> QED
    BY <2>1, <2>2
<1>11. CASE AnswerRead
  BY <1>11 DEF AnswerRead, Answered, Reply
<1>12. CASE UNCHANGED peerVars
  BY <1>12 DEF peerVars
<1> QED
  BY <1>1, <1>2, <1>3, <1>4, <1>5, <1>6, <1>7, <1>8, <1>9, <1>10, <1>11, <1>12
     DEF PeerNext, ServeThread

\* Only StoreValue makes a plain property a NULL, and only under a switch.
LEMMA NullUnderSwitch ==
    ASSUME NullInv, [PeerNext]_peerVars, values'["plain"] = Null
    PROVE  values["plain"] = Null \/ switched
<1> USE DEF serving, history
<1>1. CASE StoreValue
  <2>1. CASE values' = values
    BY <2>1
  <2>2. CASE values' # values
    <3>1. /\ pc = "allow" /\ mode # "refusing"
          /\ values' = [values EXCEPT ![frame.object] = frame.value]
      BY <1>1, <2>2 DEF StoreValue
    <3>2. CASE frame.object = "plain"
      <4>1. "plain" \in DOMAIN values
        BY DEF NullInv, Objects
      <4>2. frame.value = Null
        BY <3>1, <3>2, <4>1
      <4> QED
        BY <3>1, <3>2, <4>2 DEF NullInv
    <3>3. CASE frame.object # "plain"
      BY <3>1, <3>3 DEF NullInv, Objects
    <3> QED
      BY <3>2, <3>3
  <2> QED
    BY <2>1, <2>2
<1>2. CASE Arbitrate
  <2>1. \/ values' = [values EXCEPT !["commandable"] = Winning(slots')]
        \/ values' = values
    BY <1>2 DEF Arbitrate
  <2> QED
    BY <2>1 DEF NullInv, Objects
<1>3. CASE ~StoreValue /\ ~Arbitrate
  <2>1. values' = values
    BY <1>3 DEF PeerNext, ServeThread, peerVars, Serve, Answer, LogWrite, CheckOffline,
                StartWrite, AnswerRead, RequestArrives, SetMode, SetFailure
  <2> QED
    BY <2>1
<1> QED
  BY <1>1, <1>2, <1>3

\* peer.py:196-197: a NULL written to a property that is not commandable changes
\* nothing, for every set of values and priorities, unless the test switches the
\* mode between the two looks _write takes at it.
THEOREM NullsOnlyIfSwitched == PeerSafety => NullOnlyIfSwitched
<1>1. PeerInit => NullInv
  BY RelinquishDefaultAssumption
     DEF PeerInit, NullInv, Objects, Requests, Write, ReadRequest
<1>2. NullInv /\ [PeerNext]_peerVars => NullInv'
  BY NullInvInductive
<1>3. NullInv /\ [PeerNext]_peerVars
        => [values'["plain"] = Null => values["plain"] = Null \/ switched]_peerVars
  BY NullUnderSwitch
<1> QED
  BY <1>1, <1>2, <1>3, PTL DEF PeerSafety, NullOnlyIfSwitched

-----------------------------------------------------------------------------
(* Types, and the log of writes                                            *)

\* The write being served, until it is logged.
Unlogged == IF pc \in {"answer", "log"} /\ IsWrite THEN 1 ELSE 0

\* Every write taken is in the log, or a failure ended it, or it is on its way.
LogInv ==
    /\ inbox \in Seq(Requests) /\ frame \in Requests
    /\ pc \in {"idle", "answer", "log", "mode", "write", "allow", "arbitrate", "read", "dead"}
    /\ received \in Nat /\ writeRequests \in Nat /\ unanswered \in Nat
    /\ writes \in Nat /\ failed \in Nat
    /\ received + Len(inbox) <= MaxRequests
    /\ writes <= received
    /\ writes = writeRequests + failed + Unlogged

\* Every step of the serving thread, the example and the test keeps the log.
LEMMA LogInvInductive == LogInv /\ [PeerNext]_peerVars => LogInv'
<1> SUFFICES ASSUME LogInv, [PeerNext]_peerVars PROVE LogInv'
  OBVIOUS
<1> USE MaxRequestsAssumption
    DEF LogInv, Unlogged, IsWrite, serving, history, Continue, Answered, NotAnswered, Reply
<1>1. frame.service \in {"read", "write"}
  BY FrameFields
<1>2. CASE \E request \in Requests : RequestArrives(request)
  BY <1>2 DEF RequestArrives
<1>3. CASE \/ \E m \in {"online", "offline", "refusing"} : SetMode(m)
           \/ \E f \in Failures : SetFailure(f)
  BY <1>3 DEF SetMode, SetFailure
<1>4. CASE Serve
  <2>1. Head(inbox) \in Requests /\ Tail(inbox) \in Seq(Requests) /\ Len(Tail(inbox)) = Len(inbox) - 1
        /\ Len(inbox) \in Nat
    BY <1>4 DEF Serve
  <2>2. /\ frame' = Head(inbox) /\ inbox' = Tail(inbox) /\ received' = received + 1
        /\ pc = "idle" /\ pc' = "answer"
        /\ writes' = writes + (IF frame'.service = "write" THEN 1 ELSE 0)
        /\ UNCHANGED <<writeRequests, unanswered, failed>>
    BY <1>4 DEF Serve
  <2> QED
    BY <2>1, <2>2
<1>5. CASE Answer
  <2>1. /\ pc = "answer" /\ pc' \in {"idle", "log"} /\ unanswered' \in {unanswered, unanswered + 1}
        /\ failed' = failed + (IF frame.service = "write" /\ pc' = "idle" THEN 1 ELSE 0)
        /\ UNCHANGED <<inbox, frame, received, writeRequests, writes>>
    BY <1>5 DEF Answer
  <2> QED
    BY <2>1
<1>6. CASE LogWrite
  BY <1>1, <1>6 DEF LogWrite
<1>7. CASE CheckOffline
  <2>1. /\ pc = "mode" /\ pc' \in {"idle", frame.service} /\ unanswered' \in {unanswered, unanswered + 1}
        /\ UNCHANGED <<inbox, frame, received, writeRequests, writes, failed>>
    BY <1>7 DEF CheckOffline
  <2> QED
    BY <1>1, <2>1
<1>8. CASE StartWrite \/ StoreValue \/ Arbitrate \/ AnswerRead
  <2>1. /\ pc \in {"write", "allow", "arbitrate", "read"}
        /\ pc' \in {"idle", "allow", "arbitrate", "dead"} /\ unanswered' = unanswered
        /\ UNCHANGED <<inbox, frame, received, writeRequests, writes, failed>>
    BY <1>8 DEF StartWrite, StoreValue, Arbitrate, AnswerRead
  <2> QED
    BY <2>1
<1>9. CASE UNCHANGED peerVars
  BY <1>9 DEF peerVars
<1> QED
  BY <1>2, <1>3, <1>4, <1>5, <1>6, <1>7, <1>8, <1>9 DEF PeerNext, ServeThread

\* In every reachable state the writes taken are accounted for.
LEMMA LogInvariant == PeerSafety => []LogInv
<1>1. PeerInit => LogInv
  <2> SUFFICES ASSUME PeerInit PROVE LogInv
    OBVIOUS
  <2>1. /\ inbox = << >> /\ frame = ReadRequest /\ pc = "idle"
        /\ received = 0 /\ writeRequests = 0 /\ unanswered = 0 /\ writes = 0 /\ failed = 0
    BY DEF PeerInit
  <2>2. inbox \in Seq(Requests) /\ Len(inbox) = 0
    BY <2>1
  <2>3. frame \in Requests
    BY <2>1 DEF Requests
  <2> QED
    BY <2>1, <2>2, <2>3, MaxRequestsAssumption DEF LogInv, Unlogged
<1> QED
  BY <1>1, LogInvInductive, PTL DEF PeerSafety

\* peer.py:280-292: a write that was served is in write_requests or was ended by
\* a configured failure, whatever the test does to mode and failures meanwhile,
\* for any number of requests.
THEOREM WritesAreAllKept == PeerSafety => []WritesAreKept
<1>1. LogInv => WritesAreKept
  BY DEF LogInv, Unlogged, WritesAreKept
<1> QED
  BY <1>1, LogInvariant, PTL

\* What is served and what is commanded are values, whatever priorities come.
ServedTyped ==
    /\ values \in [Objects -> Values \cup {Null}]
    /\ slots \in [1..Slots -> Values \cup {Null}]
    /\ mode \in {"online", "offline", "refusing"} /\ failures \in Failures /\ failure \in Failures

\* Among slots there is a first one.
LEMMA SmallestOf ==
    ASSUME NEW T, T \subseteq Nat, T # {}
    PROVE  \E p \in T : \A q \in T : p <= q
<1> DEFINE R == OpToRel(<, Nat)
<1>1. IsWellFoundedOn(R, Nat)
  BY NatLessThanWellFounded
<1> HIDE DEF R
<1>2. PICK p \in T : \A q \in T : ~(<<q, p>> \in R)
  BY <1>1, WFMin
<1>3. \A q \in T : ~(q < p)
  BY <1>2 DEF R, OpToRel
<1> QED
  BY <1>3

\* What is stored and served is a value the test or a client wrote.
LEMMA ServedTypedInductive == LogInv /\ ServedTyped /\ [PeerNext]_peerVars => ServedTyped'
<1> SUFFICES ASSUME LogInv, ServedTyped, [PeerNext]_peerVars PROVE ServedTyped'
  OBVIOUS
<1> USE DEF ServedTyped, serving, history
<1>1. frame.value \in Values \cup {Null} /\ frame.priority \in Nat
  <2>1. frame \in Requests
    BY DEF LogInv
  <2>2. frame.value \in Values \cup {Null} /\ frame.priority \in Priorities \cup {0}
    BY <2>1, FrameFields
  <2>3. Priorities \cup {0} \subseteq Nat
    BY PrioritiesAssumption
  <2> QED
    BY <2>2, <2>3, Zenon
<1>2. CASE \E request \in Requests : RequestArrives(request)
  BY <1>2 DEF RequestArrives
<1>3. CASE \/ \E m \in {"online", "offline", "refusing"} : SetMode(m)
           \/ \E f \in Failures : SetFailure(f)
  BY <1>3 DEF SetMode, SetFailure
<1>4. CASE Serve
  BY <1>4 DEF Serve, Failures
<1>5. CASE Answer
  BY <1>5 DEF Answer, Failures
<1>6. CASE LogWrite \/ CheckOffline \/ StartWrite \/ AnswerRead
  BY <1>6 DEF LogWrite, CheckOffline, StartWrite, AnswerRead
<1>7. CASE StoreValue
  <2>1. values' \in {values, [values EXCEPT ![frame.object] = frame.value]}
        /\ UNCHANGED <<mode, failures, slots, failure>>
    BY <1>7 DEF StoreValue
  <2> QED
    BY <1>1, <2>1
<1>8. CASE Arbitrate
  <2>1. UNCHANGED <<mode, failures, failure>>
    BY <1>8 DEF Arbitrate
  <2>2. CASE SlotOf(frame.priority) <= Slots
    <3>1. slots' = [slots EXCEPT ![SlotOf(frame.priority)] = frame.value]
          /\ values' = [values EXCEPT !["commandable"] = Winning(slots')]
      BY <1>8, <2>2 DEF Arbitrate
    <3>2. slots' \in [1..Slots -> Values \cup {Null}]
      BY <1>1, <3>1
    <3>3. Winning(slots') \in Values \cup {Null}
      <4>1. CASE Filled(slots') = {}
        BY <4>1, RelinquishDefaultAssumption DEF Winning
      <4>2. CASE \E p \in Filled(slots') : \A q \in Filled(slots') : p <= q
        <5>1. (CHOOSE p \in Filled(slots') : \A q \in Filled(slots') : p <= q) \in 1..Slots
          BY <4>2 DEF Filled
        <5> QED
          BY <3>2, <4>2, <5>1 DEF Winning
      <4>3. Filled(slots') # {} => \E p \in Filled(slots') : \A q \in Filled(slots') : p <= q
        <5> SUFFICES ASSUME NEW n \in Filled(slots')
                     PROVE  \E p \in Filled(slots') : \A q \in Filled(slots') : p <= q
          OBVIOUS
        <5>1. Filled(slots') \subseteq Nat
          BY SlotsAssumption DEF Filled
        <5> QED
          BY <5>1, SmallestOf, Zenon
      <4> QED
        BY <4>1, <4>2, <4>3
    <3> QED
      BY <2>1, <3>1, <3>2, <3>3 DEF Objects
  <2>3. CASE ~(SlotOf(frame.priority) <= Slots)
    BY <1>8, <2>1, <2>3 DEF Arbitrate
  <2> QED
    BY <2>2, <2>3
<1>9. CASE UNCHANGED peerVars
  BY <1>9 DEF peerVars
<1> QED
  BY <1>2, <1>3, <1>4, <1>5, <1>6, <1>7, <1>8, <1>9 DEF PeerNext, ServeThread

\* The variables of the simulated server keep their types, also in the thread that a
\* priority without a slot has ended.
THEOREM PeerTypeCorrect == PeerSafety => []PeerTypeOK
<1> DEFINE Flags == answer \in Answers /\ switched \in BOOLEAN
<1>1. PeerInit => ServedTyped /\ Flags
  BY RelinquishDefaultAssumption DEF PeerInit, ServedTyped, Failures, Answers
<1>2. Flags /\ [PeerNext]_peerVars => Flags'
  <2> SUFFICES ASSUME Flags, [PeerNext]_peerVars PROVE Flags'
    OBVIOUS
  <2>1. switched' \in BOOLEAN
    BY Zenon DEF PeerNext, ServeThread, peerVars, history, Serve, Answer, LogWrite, CheckOffline,
           StartWrite, StoreValue, Arbitrate, AnswerRead, RequestArrives, SetMode, SetFailure
  <2>2. answer' \in Answers
    BY DEF PeerNext, ServeThread, peerVars, serving, Serve, Answer, LogWrite, CheckOffline, StartWrite,
           StoreValue, Arbitrate, AnswerRead, RequestArrives, SetMode, SetFailure, Continue, Answered,
           NotAnswered, Reply, Answers
  <2> QED
    BY <2>1, <2>2
<1>3. LogInv => /\ received \in 0..MaxRequests /\ writeRequests \in 0..received
                /\ writes \in 0..received /\ failed \in 0..received
  BY MaxRequestsAssumption DEF LogInv, Unlogged
<1>4. LogInv /\ ServedTyped /\ Flags => PeerTypeOK
  BY <1>3, Zenon DEF LogInv, ServedTyped, PeerTypeOK
<1> QED
  BY <1>1, <1>2, <1>4, LogInvariant, ServedTypedInductive, PTL DEF PeerSafety
=============================================================================
