----------------------------- MODULE ReceiveLoop -----------------------------
(***************************************************************************)
(* KeepAlive, driven by the loop of main: the program has one thread,      *)
(* reads the clock once per turn, and in every turn gives each bus a Tick, *)
(* which starts a round if a second has passed, sends the requests, and    *)
(* then receives until the bus is silent for a millisecond; the ROS        *)
(* callbacks come last.  SocketCan::Send spins until the bus takes the     *)
(* frame.  Every one of these steps may take long, and meanwhile boards    *)
(* answer and other boards talk.                                           *)
(*                                                                         *)
(* Time passes in ticks.  The clock readings the code keeps are modelled   *)
(* by their age, up to the age from which more makes no difference.        *)
(***************************************************************************)
EXTENDS KeepAlive

CONSTANTS
  Second,       \* the ticks of a second, the time between two rounds
  AnswerTime,   \* ticks in which a board answers, or is late
  MaxTurn       \* bound: ticks that one turn of the loop takes

ASSUME LoopAssumption ==
  /\ Second \in Nat \ {0} /\ AnswerTime \in Nat \ {0} /\ MaxTurn \in Nat

VARIABLES
  stage,    \* where the thread is in its turn, as the bus of the link sees it
  age,      \* of time, the clock reading of this turn
  since,    \* of last_keepalive
  waited,   \* how long the board has owed the answer to a request
  noise,    \* a frame of another board is in the receive queue
  excused   \* since the last processed answer something was lost or late

loop  == <<stage, age, since, waited, noise, excused>>
clock == <<age, since, waited>>

Stages == {"before", "send", "drain", "after"}

Smaller(a, b) == IF a < b THEN a ELSE b

(* last_keepalive starts at the epoch. *)
LoopInit ==
  /\ Init
  /\ stage = "after"
  /\ age = 0 /\ since = Second + MaxTurn /\ waited = 0
  /\ noise = FALSE /\ excused = FALSE
-----------------------------------------------------------------------------
(* The loop.                                                               *)

(* A turn begins: main reads the clock, and serves the buses before ours.   *)
TakeTime ==
  /\ stage = "after"
  /\ stage' = "before"
  /\ age' = 0
  /\ UNCHANGED <<vars, since, waited, noise, excused>>

Due == since - age >= Second

CatchUp == since - Second   \* mutation: last_keepalive += 1 s

(* last_keepalive = time *)
SetLastKeepalive == age

(* A round: the request is made, and handed to Send. *)
StartRound ==
  /\ stage = "before" /\ Due
  /\ Round
  /\ stage' = "send"
  /\ since' = SetLastKeepalive
  /\ excused' = (excused \/ asked = MaxFlight)
  /\ UNCHANGED <<age, waited, noise>>

(* A round that does not poll this link. *)
SkipLink ==
  /\ stage = "before" /\ Due /\ ~Polled(link)
  /\ stage' = "drain"
  /\ since' = SetLastKeepalive
  /\ UNCHANGED <<vars, age, waited, noise, excused>>

NoRoundNoted ==   \* mutation: last_keepalive is set in every turn
  /\ stage = "before" /\ ~Due
  /\ stage' = "drain"
  /\ since' = SetLastKeepalive
  /\ UNCHANGED <<vars, age, waited, noise, excused>>

NoRound ==
  /\ stage = "before" /\ ~Due
  /\ stage' = "drain"
  /\ UNCHANGED <<vars, clock, noise, excused>>

(* The bus takes the frame, and Send returns. *)
Sent ==
  /\ stage = "send"
  /\ stage' = "drain"
  /\ UNCHANGED <<vars, clock, noise, excused>>

DrainAnswer ==
  /\ stage = "drain"
  /\ ReceiveAnswer
  /\ excused' = (excused /\ link.dead)
  /\ UNCHANGED <<stage, clock, noise>>

DrainOther ==
  /\ stage = "drain" /\ noise
  /\ noise' = FALSE
  /\ ReceiveOther \/ (~frame /\ UNCHANGED vars)
  /\ UNCHANGED <<stage, clock, excused>>

DrainAgain ==
  /\ stage = "drain"
  /\ ReadAgain
  /\ UNCHANGED loop

(* The name is the first frame of the handshake that matters here. *)
DrainName ==
  /\ stage = "drain"
  /\ LearnName
  /\ UNCHANGED loop

(* Receive(1) comes back with nothing. *)
EndDrain ==
  /\ stage = "drain"
  /\ ~noise /\ coming = 0
  /\ stage' = "after"
  /\ UNCHANGED <<vars, clock, noise, excused>>

(* A callback, from frontend->Spin(). *)
Callback ==
  /\ stage = "after"
  /\ OrderReboot
  /\ UNCHANGED loop
-----------------------------------------------------------------------------
(* Meanwhile: boards, the bus, the time.                                   *)

(* Requests that are on the bus, not still in the hands of Send. *)
OnBus == asked - (IF stage = "send" /\ asked > 0 THEN 1 ELSE 0)

Answer ==
  /\ OnBus > 0
  /\ BoardAnswers
  /\ waited' = 0
  /\ UNCHANGED <<stage, age, since, noise, excused>>

Loss ==
  /\ \/ OnBus > 0 /\ LoseRequest
     \/ LoseAnswer
     \/ FallSilent
  /\ excused' = TRUE
  /\ UNCHANGED <<stage, clock, noise>>

(* A frame that comes before the drain makes no difference to it.           *)
OthersTalk ==
  /\ stage = "drain" /\ ~noise
  /\ noise' = TRUE
  /\ UNCHANGED <<vars, stage, clock, excused>>

Tick ==
  /\ age < MaxTurn
  /\ age' = age + 1
  /\ since' = Smaller(since + 1, Second + MaxTurn)
  /\ waited' = IF OnBus > 0 THEN Smaller(waited + 1, AnswerTime + 1) ELSE 0
  /\ excused' = (excused \/ waited' > AnswerTime)
  /\ UNCHANGED <<vars, stage, noise>>

Turn ==
  \/ TakeTime \/ StartRound \/ SkipLink \/ NoRound \/ Sent
  \/ DrainName \/ DrainAnswer \/ DrainOther \/ DrainAgain \/ EndDrain
  \/ Callback

Meanwhile ==
  Answer \/ Loss \/ OthersTalk \/ Tick

LoopNext == Turn \/ Meanwhile

loopVars == <<vars, loop>>

(* The thread runs, time passes, the bus takes what is sent to it at some   *)
(* time, and what is in a queue is received.  That a drain ends needs more: *)
(* the other boards leave the bus silent for a millisecond again and again. *)
LoopSpec ==
  /\ LoopInit /\ [][LoopNext]_loopVars
  /\ WF_loopVars(TakeTime) /\ WF_loopVars(StartRound)
  /\ WF_loopVars(SkipLink \/ NoRound) /\ WF_loopVars(Sent)
  /\ WF_loopVars(DrainOther) /\ WF_loopVars(DrainAnswer)
  /\ SF_loopVars(EndDrain)
  /\ WF_loopVars(Tick)
-----------------------------------------------------------------------------
(* The loop does what KeepAlive says, the fairness that KeepAlive assumes   *)
(* included: rounds go on, and answers are processed.                       *)
ImplementsKeepAlive == FairSpec

(* A board that answers in time is taken for lost for a moment at most:     *)
(* more than two misses in a row need a lost frame or a board that is late  *)
(* or silent, however long the turns of the loop take.                      *)
MissesNeedCause == ~excused => link.missed <= 2
=============================================================================
