----------------------------- MODULE Connection -----------------------------
(***************************************************************************)
(* The state of one BoardCommunicationHandler (src/src/communication.cpp)  *)
(* and what its methods do to it, as operators on a record.  The modules   *)
(* KeepAlive (one handler and its board) and RubiServer (all of them)      *)
(* build their actions from these operators.                               *)
(*                                                                         *)
(* A handler is created when an address is given away (CanHandler::        *)
(* NewBoard).  It is never destroyed: the address pool keeps it for the    *)
(* life of the process, so a handler is identified with its slot, the pair *)
(* of a CAN bus and a node id.  A handler makes a BoardDescriptor when it  *)
(* receives a name and has none, which happens at most once before and     *)
(* once after ConfirmAddress, so a pointer to a descriptor is identified   *)
(* with the handler and the value of addressed when it was made.           *)
(***************************************************************************)
EXTENDS Naturals

CONSTANTS
  Cans,       \* the CAN buses given to BoardManager::Init
  NodeIds,    \* the slots of each address pool, 0 .. max_boards_count - 1
  DeadAfter,  \* unanswered keep-alives that make a board dead (5 in the code)
  Ids,        \* instance ids, the optional RUBI_INFO_BOARD_ID
  NoId,       \* boost::none
  NoHandler,  \* a null handler pointer
  NoPointer   \* a null descriptor pointer

Handlers == Cans \X NodeIds
Pointers == Handlers \X BOOLEAN

ASSUME ConnectionAssumption ==
  /\ NodeIds \subseteq Nat
  /\ DeadAfter \in Nat \ {0, 1}
  /\ NoId \notin Ids
  /\ NoHandler \notin Handlers
  /\ NoPointer \notin Pointers

Connections ==
  [addressed : BOOLEAN,                      \* the board confirmed its address
   dead      : BOOLEAN,
   lost      : BOOLEAN,
   wake      : BOOLEAN,                      \* as of the last keep-alive
   answered  : BOOLEAN,                      \* keep_alive_received
   missed    : 0 .. DeadAfter,               \* keep_alives_missed
   desc      : Pointers \cup {NoPointer},    \* inst.descriptor
   id        : Ids \cup {NoId},              \* inst.id
   frontend  : Nat]                          \* its place in RosModule, 0: null

NewConnection ==
  [addressed |-> FALSE, dead |-> FALSE, lost |-> FALSE, wake |-> FALSE,
   answered |-> TRUE, missed |-> 0,
   desc |-> NoPointer, id |-> NoId, frontend |-> 0]

(* ConfirmAddress: inst is overwritten, with it whatever was described. *)
Confirmed(r) == [r EXCEPT !.addressed = TRUE, !.desc = NoPointer, !.id = NoId]

(* DescriptionDataInbound makes the descriptor the first INFO needs ...    *)
DescriptorOf(h, r) == IF r.desc = NoPointer THEN <<h, r.addressed>> ELSE r.desc

Described(h, r)  == [r EXCEPT !.desc = DescriptorOf(h, r)]

(* ... and keeps the instance id beside it. *)
Identified(r, i) == [r EXCEPT !.id = i]

(***************************************************************************)
(* CanHandler::Tick polls a handler that is not dead and whose descriptor  *)
(* exists; KeepAliveRequest first settles the previous request: if that    *)
(* one is still unanswered the board is lost, and dead when it is the      *)
(* DeadAfter-th in a row.                                                  *)
(***************************************************************************)
PolledWhileReachable(r) ==   \* mutation: a lost board is not polled again
  ~r.dead /\ ~r.lost /\ r.desc # NoPointer

Polled(r) == ~r.dead /\ r.desc # NoPointer

KeepAliveRequestLate(r) ==   \* mutation: one miss more is allowed
  LET missed == IF r.answered THEN r.missed ELSE r.missed + 1
  IN  [r EXCEPT !.missed   = missed,
                !.lost     = @ \/ ~r.answered,
                !.dead     = @ \/ (~r.answered /\ missed = DeadAfter + 1),
                !.answered = FALSE]

KeepAliveRequest(r) ==
  LET missed == IF r.answered THEN r.missed ELSE r.missed + 1
  IN  [r EXCEPT !.missed   = missed,
                !.lost     = @ \/ ~r.answered,
                !.dead     = @ \/ (~r.answered /\ missed = DeadAfter),
                !.answered = FALSE]

KeepAliveAnswerCounted(r, wake) ==   \* mutation: missed is not cleared
  [r EXCEPT !.wake = wake, !.answered = TRUE, !.lost = FALSE]

(* CommandInbound: a keep-alive answer, with the board's wake flag. *)
KeepAliveAnswer(r, wake) ==
  [r EXCEPT !.wake = wake, !.answered = TRUE, !.lost = FALSE, !.missed = 0]

(* CommandReboot: the handler gives its board up before the board obeys. *)
CommandReboot(r) == [r EXCEPT !.dead = TRUE]

Launch(r, f) == [r EXCEPT !.frontend = f]
=============================================================================
