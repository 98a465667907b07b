--------------------------- MODULE KeepAliveProofs ---------------------------
(***************************************************************************)
(* Theorems about KeepAlive, for every number of missed answers DeadAfter  *)
(* and every number of frames in transit.                                  *)
(*                                                                         *)
(* The three invariants hold together: a round adds one to quiet and to    *)
(* missed, an answer clears both, and a dead handler changes no more, so   *)
(* missed cannot pass DeadAfter.                                           *)
(***************************************************************************)
EXTENDS ReceiveLoop, ConnectionFacts

Inv == TypeOK /\ CountersExact /\ DeathJustified

LEMMA InitInv == Init => Inv
  <1> SUFFICES ASSUME Init PROVE Inv
    OBVIOUS
  <1> USE DEF Init
  <1>1. TypeOK
    <2>1. {asked, coming} \subseteq 0 .. MaxFlight /\ errors \in 0 .. MaxErrors
      BY MaxFlightAssumption
    <2>2. quiet \in Nat /\ link \in Connections
      BY NewConnectionFacts
    <2>3. {rebooted, silent, frame} \subseteq BOOLEAN
      BY Zenon
    <2> QED
      BY <2>1, <2>2, <2>3 DEF TypeOK
  <1>2. CountersExact
    BY NewConnectionFacts DEF CountersExact
  <1>3. DeathJustified
    BY NewConnectionFacts, ConnectionAssumption DEF DeathJustified
  <1> QED
    BY <1>1, <1>2, <1>3 DEF Inv

LEMMA RoundInv == Inv /\ Round => Inv'
  <1> SUFFICES ASSUME Inv, Round PROVE Inv'
    OBVIOUS
  <1> USE ConnectionAssumption, MaxFlightAssumption
  <1>1. /\ link \in Connections /\ ~link.dead /\ ~rebooted
        /\ quiet \in 0 .. DeadAfter
        /\ link' = KeepAliveRequest(link) /\ quiet' = quiet + 1
    BY DEF Inv, TypeOK, DeathJustified, Round, Polled
  <1>2. link.answered \/ link.missed < DeadAfter
    BY <1>1 DEF Inv, CountersExact, Connections
  <1>3. TypeOK'
    BY <1>1, <1>2, RequestType DEF Inv, TypeOK, Round, socket
  <1>4. quiet' \in Nat /\ quiet' # 0 /\ rebooted' = rebooted
    BY <1>1 DEF Round
  <1>5. ~link'.answered
    BY <1>1, RequestAfterAnswer, RequestAfterSilence
  <1>6. CASE link.answered
    <2>1. quiet = 0 /\ link.missed = 0 /\ ~link.lost
      BY <1>6 DEF Inv, CountersExact
    <2>2. link'.missed = 0 /\ ~link'.lost /\ ~link'.dead
      BY <1>1, <1>6, <2>1, RequestAfterAnswer
    <2>3. CountersExact'
      BY <1>1, <1>5, <2>1, <2>2 DEF CountersExact
    <2>4. DeathJustified'
      BY <1>1, <1>4, <2>1, <2>2 DEF DeathJustified
    <2> QED
      BY <1>3, <2>3, <2>4 DEF Inv
  <1>7. CASE ~link.answered
    <2>1. quiet # 0 /\ link.missed = quiet - 1
      BY <1>7 DEF Inv, CountersExact
    <2>2. /\ link'.missed = quiet /\ link'.lost
          /\ link'.dead <=> quiet = DeadAfter
      <3>1. link.missed + 1 = quiet
        BY <1>1, <2>1
      <3> QED
        BY <1>1, <1>7, <3>1, RequestAfterSilence
    <2>3. CountersExact'
      BY <1>1, <1>5, <2>1, <2>2 DEF CountersExact
    <2>4. DeathJustified'
      BY <1>1, <1>4, <2>1, <2>2 DEF DeathJustified
    <2> QED
      BY <1>3, <2>3, <2>4 DEF Inv
  <1> QED
    BY <1>6, <1>7 DEF Inv, TypeOK, Connections

(* An answer is handled alike whether it is read once or twice. *)
LEMMA HandleInv ==
  ASSUME Inv, Handle, UNCHANGED rebooted, asked' \in 0 .. MaxFlight,
         coming' \in 0 .. MaxFlight, silent' \in BOOLEAN, frame' \in BOOLEAN,
         errors' \in 0 .. MaxErrors
  PROVE  Inv'
  <1> USE ConnectionAssumption DEF Inv, TypeOK, CountersExact, DeathJustified
  <1>1. CASE ~link.dead
    <2>1. PICK wake \in BOOLEAN : link' = KeepAliveAnswer(link, wake)
      BY <1>1 DEF Handle
    <2>2. quiet' = 0 /\ ~rebooted
      BY <1>1 DEF Handle
    <2> HIDE DEF Inv, TypeOK, CountersExact, DeathJustified
    <2>3. link \in Connections
      BY DEF Inv, TypeOK
    <2>4. /\ link' \in Connections /\ link'.answered /\ ~link'.lost
          /\ link'.missed = 0 /\ ~link'.dead
      BY <1>1, <2>1, <2>3, AnswerFacts
    <2>5. TypeOK' /\ CountersExact' /\ DeathJustified'
      BY <2>2, <2>4 DEF TypeOK, CountersExact, DeathJustified, Inv
    <2> QED
      BY <2>5 DEF Inv
  <1>2. CASE link.dead
    BY <1>2 DEF Handle
  <1> QED
    BY <1>1, <1>2

LEMMA NextInv == Inv /\ [Next]_vars => Inv'
  <1> SUFFICES ASSUME Inv, [Next]_vars PROVE Inv'
    OBVIOUS
  <1> USE ConnectionAssumption, MaxFlightAssumption
          DEF Inv, TypeOK, CountersExact, DeathJustified, socket
  <1>1. CASE LearnName
    BY <1>1, DescribedFacts DEF LearnName
  <1>2. CASE Round
    BY <1>2, RoundInv
  <1>3. CASE LoseRequest \/ LoseAnswer
    BY <1>3 DEF LoseRequest, LoseAnswer
  <1>4. CASE OrderReboot
    BY <1>4, RebootFacts DEF OrderReboot
  <1>5. CASE FallSilent
    BY <1>5 DEF FallSilent
  <1>6. CASE BoardAnswers
    BY <1>6 DEF BoardAnswers
  <1>7. CASE ReceiveAnswer
    BY <1>7, HandleInv DEF ReceiveAnswer
  <1>8. CASE ReceiveOther
    BY <1>8 DEF ReceiveOther
  <1>9. CASE ReadAgain
    BY <1>9, HandleInv DEF ReadAgain
  <1>10. CASE UNCHANGED vars
    BY <1>10 DEF vars
  <1> QED
    BY <1>1, <1>2, <1>3, <1>4, <1>5, <1>6, <1>7, <1>8, <1>9, <1>10 DEF Next

LEMMA Invariance == Spec => []Inv
  BY InitInv, NextInv, PTL DEF Spec

(* The state stays of its type; missed, in particular, stays in its range   *)
(* although the code only ever adds to it and compares it with ==.          *)
THEOREM TypeCorrect == Spec => []TypeOK
  BY Invariance, PTL DEF Inv

(* The flags answered and lost and the counter missed are exactly the       *)
(* history of the rounds since the last processed answer.                   *)
THEOREM CountersAreExact == Spec => []CountersExact
  BY Invariance, PTL DEF Inv

(* A board is declared dead by DeadAfter unanswered keep-alives in a row or *)
(* by a reboot order, and at once when that is so.                          *)
THEOREM DeathIsJustified == Spec => []DeathJustified
  BY Invariance, PTL DEF Inv

(* No step of the board, the bus or the server changes a dead handler.      *)
THEOREM DeathStays == Spec => DeathIsFinal
  <1>1. [Next]_vars => [link.dead => link' = link]_vars
    <2> SUFFICES ASSUME Next, link.dead PROVE link' = link
      OBVIOUS
    <2> QED
      BY DEF Next, LearnName, Round, LoseRequest, OrderReboot, FallSilent,
             BoardAnswers, LoseAnswer, ReceiveAnswer, ReceiveOther, ReadAgain,
             Handle, Polled
  <1> QED
    BY <1>1, PTL DEF Spec, DeathIsFinal

-----------------------------------------------------------------------------
(***************************************************************************)
(* The main loop is an implementation of KeepAlive: whatever the order and *)
(* the length of its turns, what it does to a connection is a step of      *)
(* KeepAlive or none, so every safety theorem about KeepAlive is one about *)
(* the loop.  How late an answer may be read, and so how many rounds a     *)
(* healthy board may miss, is a fact about the loop alone.                 *)
(***************************************************************************)

(* The steps that change the connection or its frames are steps of          *)
(* KeepAlive, under guards of the loop.                                     *)
LEMMA WorkSteps ==
  StartRound \/ DrainAnswer \/ DrainAgain \/ DrainName \/ Callback \/ Answer => Next
BY DEF StartRound, DrainAnswer, DrainAgain, DrainName, Callback, Answer, Next

LEMMA OtherSteps == DrainOther \/ Loss => [Next]_vars
  <1>1. DrainOther => [Next]_vars
    BY DEF DrainOther, Next
  <1>2. Loss => [Next]_vars
    BY DEF Loss, Next
  <1> QED
    BY <1>1, <1>2

(* The rest is the thread moving on, the bus and the time. *)
LEMMA IdleSteps ==
  TakeTime \/ SkipLink \/ NoRound \/ Sent \/ EndDrain \/ OthersTalk \/ Tick
    => UNCHANGED vars
BY DEF TakeTime, SkipLink, NoRound, Sent, EndDrain, OthersTalk, Tick

LEMMA LoopStep == [LoopNext]_loopVars => [Next]_vars
  <1>1. LoopNext => [Next]_vars
    BY WorkSteps, OtherSteps, IdleSteps DEF LoopNext, Turn, Meanwhile
  <1>2. UNCHANGED loopVars => UNCHANGED vars
    BY DEF loopVars
  <1> QED
    BY <1>1, <1>2

(* The loop of main, Tick and SocketCan implements KeepAlive, its fairness  *)
(* aside: every behaviour of the program is one of the abstract connection. *)
THEOREM LoopImplementsKeepAlive == LoopSpec => Spec
  <1>1. LoopInit => Init
    BY DEF LoopInit
  <1> QED
    BY <1>1, LoopStep, PTL DEF LoopSpec, Spec

(* However long a turn takes, and whatever recvmsg hands on again, the      *)
(* counters of the handler say how many rounds went unanswered.             *)
THEOREM LoopCountsExactly == LoopSpec => []CountersExact
BY LoopImplementsKeepAlive, CountersAreExact, PTL

(* A slow loop, a blocked Send or a busy bus never makes a board dead:      *)
(* DeadAfter rounds without an answer do, or an order.                      *)
THEOREM LoopKillsJustly == LoopSpec => []DeathJustified
BY LoopImplementsKeepAlive, DeathIsJustified, PTL

(* A dead connection is dropped by every later turn of the loop.            *)
THEOREM LoopNeverRevives == LoopSpec => DeathIsFinal
BY LoopImplementsKeepAlive, DeathStays, PTL
-----------------------------------------------------------------------------
(* How many rounds a board that answers in time may miss.                  *)

LoopTypes ==
  /\ stage \in Stages /\ excused \in BOOLEAN
  /\ age \in Nat /\ since \in Nat /\ waited \in Nat

(* While nothing is lost or late, as many answers are owed or coming as     *)
(* rounds went by, ...                                                     *)
AnswersOwed == quiet <= asked + coming

(* ... the first of them comes before the second round is over: after one  *)
(* round the board has owed it since this turn began,                      *)
FirstOwed ==
  stage = "before" /\ quiet = 1 =>
    /\ coming = 0 => waited >= age
    /\ age > 0 => waited <= AnswerTime

(* after two since the turn of the second,                                 *)
SecondOwed ==
  quiet = 2 => /\ coming = 0 => waited >= since
               /\ since > 0 => waited <= AnswerTime

(* and after three it has come and is read before the turn ends.            *)
ThirdRead == quiet = 3 => coming > 0 /\ stage \in {"send", "drain"}

Served == AnswersOwed /\ FirstOwed /\ SecondOwed /\ ThirdRead

CauseInv ==
  /\ LoopTypes
  /\ quiet > 0 => link.desc # NoPointer
  /\ ~excused => quiet <= 3
  /\ ~excused /\ ~link.dead => Served

LEMMA LoopInitCause == LoopInit => CauseInv
  <1> SUFFICES ASSUME LoopInit
               PROVE  CauseInv
    OBVIOUS
  <1>1. quiet = 0 /\ asked = 0 /\ coming = 0
    BY DEF LoopInit, Init
  <1>2. LoopTypes
    <2>1. excused \in BOOLEAN
      BY Zenon DEF LoopInit
    <2> QED
      BY <2>1, LoopAssumption DEF LoopInit, LoopTypes, Stages
  <1> QED
    BY <1>1, <1>2 DEF CauseInv, Served, AnswersOwed, FirstOwed, SecondOwed, ThirdRead

(* What the steps of the loop do to the clocks keeps them numbers. *)
LEMMA LoopTypeSteps == LoopTypes /\ Inv /\ [LoopNext]_loopVars => LoopTypes'
  <1> SUFFICES ASSUME LoopTypes, Inv, [LoopNext]_loopVars
               PROVE  LoopTypes'
    OBVIOUS
  <1>1. CASE Tick
    BY <1>1, LoopAssumption DEF Tick, LoopTypes, Smaller
  <1>2. excused' \in BOOLEAN
    BY DEF LoopNext, Turn, Meanwhile, loopVars, loop, clock, TakeTime, StartRound, SkipLink,
        NoRound, Sent, DrainName, DrainAnswer, DrainOther, DrainAgain, EndDrain, Callback,
        Answer, Loss, OthersTalk, Tick, LoopTypes
  <1>3. CASE ~Tick
    BY <1>2, <1>3
    DEF LoopNext, Turn, Meanwhile, loopVars, loop, clock, TakeTime, StartRound, SkipLink,
        NoRound, Sent, DrainName, DrainAnswer, DrainOther, DrainAgain, EndDrain, Callback,
        Answer, Loss, OthersTalk, LoopTypes, Stages, SetLastKeepalive
  <1> QED
    BY <1>1, <1>3

(* A processed answer settles everything. *)
LEMMA QuietCause ==
  ASSUME LoopTypes', Inv', quiet' = 0
  PROVE  CauseInv'
  <1>1. TypeOK'
    BY DEF Inv
  <1>2. asked' \in Nat /\ coming' \in Nat
    BY <1>1, MaxFlightAssumption DEF TypeOK
  <1>3. \A m, n \in Nat : 0 <= m + n
    OBVIOUS
  <1>4. 0 <= asked' + coming'
    BY <1>2, <1>3
  <1> QED
    BY <1>4 DEF CauseInv, Served, AnswersOwed, FirstOwed, SecondOwed, ThirdRead

(* What is lost or late excuses. *)
LEMMA ExcusedCause ==
  ASSUME CauseInv, LoopTypes', link' = link, quiet' = quiet, excused'
  PROVE  CauseInv'
  BY DEF CauseInv

LEMMA CauseSteps ==
  ASSUME AnswerTime < Second, Inv, Inv', CauseInv, [LoopNext]_loopVars
  PROVE  CauseInv'
  <1> USE DEF CauseInv
  <1>0. /\ LoopTypes /\ LoopTypes' /\ link \in Connections /\ link' \in Connections
        /\ asked \in Nat /\ coming \in Nat /\ quiet \in Nat
        /\ asked' \in Nat /\ coming' \in Nat /\ quiet' \in Nat
        /\ Second \in Nat \ {0} /\ AnswerTime \in Nat \ {0} /\ MaxTurn \in Nat
    BY LoopTypeSteps, LoopAssumption DEF Inv, TypeOK
  <1>1. CASE TakeTime
    BY <1>0, <1>1
    DEF TakeTime, vars, Served, AnswersOwed, FirstOwed, SecondOwed, ThirdRead, LoopTypes
  <1>2. CASE StartRound
    <2>1. /\ Polled(link) /\ ~link.dead /\ link.desc # NoPointer
          /\ link' = KeepAliveRequest(link) /\ quiet' = quiet + 1 /\ coming' = coming
          /\ stage = "before" /\ stage' = "send" /\ since' = age
          /\ age' = age /\ waited' = waited /\ since - age >= Second
      BY <1>2 DEF StartRound, Round, Polled, Due, SetLastKeepalive
    <2>2. link'.desc = link.desc
      BY <1>0, <2>1 DEF KeepAliveRequest, Connections
    <2>3. ASSUME ~excused'
          PROVE  ~excused /\ asked' = asked + 1
      <3>1. excused' = (excused \/ asked = MaxFlight)
        BY <1>2 DEF StartRound
      <3>2. ~excused /\ asked # MaxFlight
        BY <2>3, <3>1
      <3>3. asked < MaxFlight
        BY <3>2, MaxFlightAssumption DEF Inv, TypeOK
      <3>4. asked' = IF asked < MaxFlight THEN asked + 1 ELSE asked
        BY <1>2 DEF StartRound, Round
      <3> QED
        BY <3>2, <3>3, <3>4
    <2>4. ASSUME ~excused'
          PROVE  quiet # 3 /\ (quiet = 2 => coming > 0)
      <3>1. Served
        BY <2>1, <2>3, <2>4
      <3>2. quiet # 3
        BY <2>1, <3>1 DEF Served, ThirdRead
      <3>3. ~(quiet = 2 /\ coming = 0)
        BY <1>0, <2>1, <3>1 DEF Served, SecondOwed, LoopTypes
      <3> QED
        BY <1>0, <3>2, <3>3
    <2>5. ASSUME ~excused'
          PROVE  quiet' <= 3 /\ Served'
      <3>1. Served /\ ~excused /\ quiet <= 3 /\ asked' = asked + 1
        BY <2>1, <2>3, <2>5
      <3>2. AnswersOwed'
        BY <1>0, <2>1, <3>1 DEF Served, AnswersOwed
      <3>3. FirstOwed'
        BY <2>1 DEF FirstOwed
      <3>4. SecondOwed'
        BY <1>0, <2>1, <3>1 DEF Served, FirstOwed, SecondOwed, LoopTypes
      <3>5. ThirdRead' /\ quiet' <= 3
        BY <1>0, <2>1, <2>4, <2>5, <3>1 DEF ThirdRead
      <3> QED
        BY <3>2, <3>3, <3>4, <3>5 DEF Served
    <2> QED
      BY <1>0, <2>1, <2>2, <2>5
  <1>3. CASE SkipLink
    <2>1. /\ quiet > 0 => link.dead
          /\ UNCHANGED <<link, quiet, excused>>
      BY <1>3 DEF SkipLink, vars, Polled
    <2> QED
      BY <1>0, <1>3, <2>1, QuietCause
  <1>4. CASE NoRound \/ Sent \/ OthersTalk
    BY <1>0, <1>4
    DEF NoRound, Sent, OthersTalk, vars, clock,
        Served, AnswersOwed, FirstOwed, SecondOwed, ThirdRead
  <1>5. CASE EndDrain
    BY <1>0, <1>5
    DEF EndDrain, vars, clock, Served, AnswersOwed, FirstOwed, SecondOwed, ThirdRead
  <1>6. CASE DrainAnswer
    <2>1. \/ quiet' = 0
          \/ link.dead /\ link' = link /\ quiet' = quiet
      BY <1>6 DEF DrainAnswer, ReceiveAnswer, Handle
    <2>2. link.dead => excused' = excused
      BY <1>0, <1>6 DEF DrainAnswer, LoopTypes
    <2> QED
      BY <1>0, <2>1, <2>2, QuietCause
  <1>7. CASE DrainAgain
    <2>1. \/ quiet' = 0
          \/ link.dead /\ link' = link /\ quiet' = quiet
      BY <1>7 DEF DrainAgain, ReadAgain, Handle
    <2> QED
      BY <1>0, <1>7, <2>1, QuietCause DEF DrainAgain, loop
  <1>8. CASE DrainOther
    <2>1. UNCHANGED <<link, asked, coming, quiet, stage, age, since, waited, excused>>
      BY <1>8 DEF DrainOther, ReceiveOther, vars, clock
    <2> QED
      BY <1>0, <2>1 DEF Served, AnswersOwed, FirstOwed, SecondOwed, ThirdRead
  <1>9. CASE DrainName
    <2>1. /\ quiet = 0 /\ quiet' = 0
      BY <1>0, <1>9 DEF DrainName, LearnName
    <2> QED
      BY <1>0, <2>1, QuietCause
  <1>10. CASE Callback
    <2>1. /\ link'.dead /\ link'.desc = link.desc /\ quiet' = quiet /\ excused' = excused
      BY <1>0, <1>10 DEF Callback, OrderReboot, CommandReboot, Connections, loop
    <2> QED
      BY <1>0, <2>1
  <1>11. CASE Answer
    <2>1. /\ asked' = asked - 1 /\ coming' = coming + 1 /\ waited' = 0
          /\ UNCHANGED <<link, quiet, stage, age, since, excused>>
      BY <1>11 DEF Answer, BoardAnswers
    <2> QED
      BY <1>0, <2>1 DEF Served, AnswersOwed, FirstOwed, SecondOwed, ThirdRead
  <1>12. CASE Loss
    <2>1. link' = link /\ quiet' = quiet /\ excused'
      BY <1>12 DEF Loss, LoseRequest, LoseAnswer, FallSilent
    <2> QED
      BY <1>0, <2>1, ExcusedCause
  <1>13. CASE Tick
    <2>1. /\ UNCHANGED <<link, asked, coming, quiet, stage>> /\ age' = age + 1
          /\ since' = Smaller(since + 1, Second + MaxTurn)
          /\ waited' = IF OnBus > 0 THEN Smaller(waited + 1, AnswerTime + 1) ELSE 0
          /\ excused' = (excused \/ waited' > AnswerTime)
      BY <1>13 DEF Tick, vars
    <2>2. CASE excused'
      BY <1>0, <2>1, <2>2, ExcusedCause
    <2>3. CASE ~excused'
      <3>5. ~excused /\ ~(waited' > AnswerTime)
        BY <2>1, <2>3
      <3>1. ~excused /\ waited' <= AnswerTime
        BY <1>0, <3>5 DEF LoopTypes
      <3>2. since' <= since + 1
        BY <1>0, <2>1 DEF Smaller, LoopTypes
      <3>3. OnBus > 0 => waited' = waited + 1
        BY <1>0, <2>1, <3>1 DEF Smaller, LoopTypes
      <3>4. ASSUME Served
            PROVE  Served'
        <4>1. coming = 0 /\ (quiet = 2 \/ (quiet = 1 /\ stage = "before")) => OnBus > 0
          BY <1>0, <3>4 DEF OnBus, Served, AnswersOwed
        <4>2. FirstOwed'
          BY <1>0, <2>1, <3>1, <3>3, <3>4, <4>1 DEF Served, FirstOwed, LoopTypes
        <4>3. SecondOwed'
          BY <1>0, <2>1, <3>1, <3>2, <3>3, <3>4, <4>1 DEF Served, SecondOwed, LoopTypes
        <4>4. AnswersOwed' /\ ThirdRead'
          BY <2>1, <3>4 DEF Served, AnswersOwed, ThirdRead
        <4> QED
          BY <4>2, <4>3, <4>4 DEF Served
      <3> QED
        BY <1>0, <2>1, <3>1, <3>4
    <2> QED
      BY <2>2, <2>3
  <1>14. CASE UNCHANGED loopVars
    BY <1>0, <1>14
    DEF loopVars, loop, vars, Served, AnswersOwed, FirstOwed, SecondOwed, ThirdRead
  <1> QED
    BY <1>1, <1>2, <1>3, <1>4, <1>5, <1>6, <1>7, <1>8, <1>9, <1>10, <1>11, <1>12,
       <1>13, <1>14 DEF LoopNext, Turn, Meanwhile

(* A board that answers within a second and whose frames arrive misses two  *)
(* rounds in a row at most, never the five that would make it dead, however *)
(* long the turns of main take: a slow turn starts at most one round (Tick  *)
(* sets last_keepalive to the reading of the turn), and every turn reads    *)
(* what has come by its end.                                               *)
THEOREM MissesHaveCause ==
  ASSUME AnswerTime < Second
  PROVE  LoopSpec => []MissesNeedCause
  <1>1. Inv /\ CauseInv => MissesNeedCause
    BY DEF Inv, TypeOK, CountersExact, CauseInv, MissesNeedCause
  <1>2. Inv /\ Inv' /\ CauseInv /\ [LoopNext]_loopVars => CauseInv'
    BY CauseSteps
  <1>3. LoopInit => Inv
    BY InitInv DEF LoopInit
  <1>4. Inv /\ [LoopNext]_loopVars => Inv'
    BY LoopStep, NextInv
  <1> QED
    BY <1>1, <1>2, <1>3, <1>4, LoopInitCause, PTL DEF LoopSpec
=============================================================================
