------------------------------ MODULE KeepAlive ------------------------------
(***************************************************************************)
(* One handler, its keep-alive rounds and its board.  CanHandler::Tick     *)
(* starts a round at most once a second; the request travels to the board, *)
(* the answer travels back, and either may be lost, late, or overtaken by  *)
(* further rounds (requests carry no number: "TODO keep-alive id").        *)
(*                                                                         *)
(* SocketCan::Receive keeps the last frame in a member and does not look at *)
(* the result of recvmsg: after an error the frame is handed on once more.  *)
(*                                                                         *)
(* quiet is a history variable: the rounds that polled this handler since  *)
(* its last answer was processed.                                          *)
(***************************************************************************)
EXTENDS Connection

CONSTANTS
  MaxFlight,     \* bound on the requests, and on the answers, in transit
  MaxErrors      \* bound: failing calls of recvmsg

ASSUME MaxFlightAssumption == MaxFlight \in Nat \ {0} /\ MaxErrors \in Nat

VARIABLES
  link,      \* the handler
  asked,     \* requests on their way to the board
  coming,    \* answers on their way to the server
  rebooted,  \* an operator ordered a reboot
  silent,    \* the board has stopped answering for good
  frame,     \* SocketCan::frame is an answer of this board
  errors,    \* recvmsg failed so often
  quiet

socket == <<frame, errors>>
vars   == <<link, asked, coming, rebooted, silent, socket, quiet>>

Init ==
  /\ link = NewConnection
  /\ asked = 0
  /\ coming = 0
  /\ rebooted = FALSE
  /\ silent = FALSE
  /\ frame = FALSE /\ errors = 0
  /\ quiet = 0

(* The board's name arrives: from now on the handler is polled. *)
LearnName ==
  /\ link.desc = NoPointer /\ ~link.dead
  /\ \E h \in Handlers : link' = Described(h, link)
  /\ UNCHANGED <<asked, coming, rebooted, silent, socket, quiet>>

(* A second has passed: the round of CanHandler::Tick, for this handler. *)
Round ==
  /\ Polled(link)
  /\ link' = KeepAliveRequest(link)
  /\ asked' = IF asked < MaxFlight THEN asked + 1 ELSE asked
  /\ quiet' = quiet + 1
  /\ UNCHANGED <<coming, rebooted, silent, socket>>

BoardAnswers ==
  /\ ~silent
  /\ asked > 0 /\ coming < MaxFlight
  /\ asked' = asked - 1
  /\ coming' = coming + 1
  /\ UNCHANGED <<link, rebooted, silent, socket, quiet>>

(* The bus or the receive buffer loses a request or an answer. *)
LoseRequest ==
  /\ asked > 0
  /\ asked' = asked - 1
  /\ UNCHANGED <<link, coming, rebooted, silent, socket, quiet>>

LoseAnswer ==
  /\ coming > 0
  /\ coming' = coming - 1
  /\ UNCHANGED <<link, asked, rebooted, silent, socket, quiet>>

HandleAnyway ==   \* mutation: a dead board's frames are processed
  /\ \E wake \in BOOLEAN : link' = KeepAliveAnswer(link, wake)
  /\ quiet' = 0

(* What Tick does with an answer, which tells whether the board is awake;   *)
(* the frames of a dead board are dropped.                                  *)
Handle ==
  \/ /\ ~link.dead
     /\ \E wake \in BOOLEAN : link' = KeepAliveAnswer(link, wake)
     /\ quiet' = 0
  \/ /\ link.dead
     /\ UNCHANGED <<link, quiet>>

ReceiveAnswer ==
  /\ coming > 0
  /\ coming' = coming - 1
  /\ frame' = TRUE
  /\ Handle
  /\ UNCHANGED <<asked, rebooted, silent, errors>>

(* A frame of another board, for other handlers. *)
ReceiveOther ==
  /\ frame
  /\ frame' = FALSE
  /\ UNCHANGED <<link, asked, coming, rebooted, silent, errors, quiet>>

(* recvmsg fails: the last frame is handled again. *)
ReadAgain ==
  /\ frame /\ errors < MaxErrors
  /\ errors' = errors + 1
  /\ Handle
  /\ UNCHANGED <<asked, coming, rebooted, silent, frame>>

(* The ROS reboot topic, on a handler BackendReady let through. *)
OrderReboot ==
  /\ ~link.dead /\ ~link.lost
  /\ link' = CommandReboot(link)
  /\ rebooted' = TRUE
  /\ UNCHANGED <<asked, coming, silent, socket, quiet>>

(* The board hangs, is unplugged or loses power. *)
FallSilent ==
  /\ ~silent
  /\ silent' = TRUE
  /\ UNCHANGED <<link, asked, coming, rebooted, socket, quiet>>

Next ==
  \/ LearnName \/ Round \/ BoardAnswers \/ LoseRequest \/ LoseAnswer
  \/ ReceiveAnswer \/ ReceiveOther \/ ReadAgain \/ OrderReboot \/ FallSilent

Spec == Init /\ [][Next]_vars

(* The main loop turns for ever, so rounds go on and received frames are    *)
(* processed; nothing is assumed of the board, the bus or the operator.     *)
(* ReceiveLoop derives both from the loop itself.                           *)
FairSpec ==
  /\ Spec
  /\ WF_vars(Round)
  /\ WF_vars(ReceiveAnswer)
-----------------------------------------------------------------------------
TypeOK ==
  /\ link \in Connections
  /\ asked \in 0 .. MaxFlight
  /\ coming \in 0 .. MaxFlight
  /\ rebooted \in BOOLEAN
  /\ silent \in BOOLEAN
  /\ frame \in BOOLEAN
  /\ errors \in 0 .. MaxErrors
  /\ quiet \in Nat

(* The counters and flags of the code agree with the history: answered,     *)
(* lost and missed say exactly how many rounds have passed since the last   *)
(* processed answer, across late, lost and surplus answers.                 *)
CountersExact ==
  /\ link.answered <=> quiet = 0
  /\ link.lost <=> quiet > 1
  /\ link.missed = IF quiet = 0 THEN 0 ELSE quiet - 1

(* A board is dead only after DeadAfter rounds in a row went unanswered, or *)
(* by order of an operator; and it is never left undead beyond that.        *)
DeathJustified ==
  /\ link.dead <=> (rebooted \/ quiet = DeadAfter + 1)
  /\ quiet <= DeadAfter + 1

(* Death is final: no late answer, however many are still in transit,       *)
(* revives a dead board or makes it look reachable again.                   *)
DeathIsFinal == [][link.dead => link' = link]_vars

(* A board that has a name and stops answering is eventually dead: the      *)
(* answers still in transit only put it off.                                *)
SilenceIsNoticed == (silent /\ link.desc # NoPointer) ~> link.dead
=============================================================================
