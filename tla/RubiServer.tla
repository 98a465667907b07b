----------------------------- MODULE RubiServer -----------------------------
(***************************************************************************)
(* The server and the boards it manages: CanHandler (one per bus: address  *)
(* pool, dispatch of frames, keep-alive rounds), BoardManager (descriptor  *)
(* map, registry of handlers, handlers on hold), the part of RosModule and *)
(* RosBoardHandler that picks a backend for a ROS call, and, around them,  *)
(* the boards, the receive queues, failures and restarts.                  *)
(*                                                                         *)
(* The program has one thread: the handling of one frame, one keep-alive   *)
(* round and one ROS callback are atomic.  Frames arrive at any time, each *)
(* bus keeps its own clock and callbacks come from outside, so the order   *)
(* of these steps is free and no program counter is kept.                  *)
(*                                                                         *)
(* A failed ASSERT throws out of main, a null pointer that is followed     *)
(* kills the process: both are a Crash, with the reason in fault.          *)
(***************************************************************************)
EXTENDS Connection, Sequences, FiniteSets

CONSTANTS
  Devices,       \* the physical boards
  BusOf,         \* the bus each is plugged in
  NameOf,        \* what each says of itself: its name,
  BodyOf,        \* the rest of its description (version, driver, fields)
  IdOf,          \* and its instance id, if it has one
  Names, Bodies,
  NoName, NoBody,
  NoNode,        \* a board without an address
  Chatter,       \* what boards send unasked: a subset of {"data", "event"}
  EarlyFrames,   \* boards are heard before they are told to reboot, see Bind
  Timely,        \* boards answer a keep-alive before the next round starts
  QueueLimit,    \* bound: frames in one receive queue
  MaxFailures,   \* bound: power failures, ordered reboots, repeated entries
                 \* in the lottery and lost frames
  MaxLost,       \* bound: lost frames among them
  MaxPanics      \* bound: messages to /rubi/panic

ASSUME ServerAssumption ==
  /\ BusOf \in [Devices -> Cans]
  /\ NameOf \in [Devices -> Names] /\ BodyOf \in [Devices -> Bodies]
  /\ IdOf \in [Devices -> Ids \cup {NoId}]
  /\ NoName \notin Names /\ NoBody \notin Bodies /\ NoNode \notin NodeIds
  /\ Chatter \subseteq {"data", "event"}
  /\ EarlyFrames \in BOOLEAN /\ Timely \in BOOLEAN
  /\ QueueLimit \in Nat \ {0} /\ MaxFailures \in Nat
  /\ MaxLost \in Nat /\ MaxPanics \in Nat

VARIABLES
  can,             \* each bus: "closed", "bound" (socket open) or "invited"
  fault,           \* why the process last died
  pool,            \* CanHandler::address_pool: the slots in use
  conn,            \* the handler in each slot
  heap,            \* the BoardDescriptor objects
  descriptor_map,  \* BoardManager: name -> descriptor
  handlers,        \* BoardManager: descriptor -> its instances
  holden,          \* BoardManager::holden_handlers
  boards,          \* RosModule::boards, the board of each RosBoardHandler
  sock,            \* the receive queue of each bus
  device,          \* the boards themselves
  failures,        \* what the world did so far: power failures, lost frames
  panics

registry == <<descriptor_map, handlers, holden, boards>>
process  == <<fault, pool, conn, heap, registry>>
world    == <<can, sock, device, failures, panics>>
vars     == <<process, world>>
-----------------------------------------------------------------------------
(* Data.                                                                   *)

Kinds == {"lottery", "confirm", "name", "body", "id", "init",
          "alive", "data", "event"}

(* What a frame says is fixed by who sent it.  A lottery frame has no       *)
(* address: its CAN id is the sender's lottery id.                          *)
Frames == [kind : Kinds, from : Devices, node : NodeIds \cup {NoNode}]

Descriptors == [name : Names \cup {NoName}, body : Bodies \cup {NoBody}]

Blank == [name |-> NoName, body |-> NoBody]

Backends == Handlers \cup {NoHandler}

(* BoardInstance, as it is kept in the registry and in a RosBoardHandler    *)
Instances == [desc : Pointers, id : Ids \cup {NoId}, backend : Backends]

Phases == {"off", "lottery", "joining", "waiting", "operational"}

(* told: how much of its script a board has sent; asked: it owes an answer  *)
DeviceStates ==
  [phase : Phases, node : NodeIds \cup {NoNode}, told : 0 .. 5, asked : BOOLEAN]

Without(phase) ==
  [phase |-> phase, node |-> NoNode, told |-> 0, asked |-> FALSE]

(* What a board sends once it has an address. *)
Script(d) ==
  <<"confirm", "name", "body">>
    \o (IF IdOf[d] = NoId THEN <<>> ELSE <<"id">>) \o <<"init">>

Failures == [power : 0 .. MaxFailures, lost : 0 .. MaxLost]

Slot(d) == <<BusOf[d], device[d].node>>

Up == \A c \in Cans : can[c] = "invited"

Init ==
  /\ can = [c \in Cans |-> "closed"]
  /\ fault = "none"
  /\ pool = {}
  /\ conn = [h \in Handlers |-> NewConnection]
  /\ heap = [p \in Pointers |-> Blank]
  /\ descriptor_map = [n \in Names |-> NoPointer]
  /\ handlers = [p \in Pointers |-> <<>>]
  /\ holden = {}
  /\ boards = <<>>
  /\ sock = [c \in Cans |-> <<>>]
  /\ device = [d \in Devices |-> Without("off")]
  /\ failures = [power |-> 0, lost |-> 0]
  /\ panics = 0
-----------------------------------------------------------------------------
(* The boards and the buses.                                               *)

Listening(c) == can[c] = "invited" \/ (can[c] = "bound" /\ EarlyFrames)

PowerMayFail == failures.power + failures.lost < MaxFailures

PowerFailed == [failures EXCEPT !.power = @ + 1]

(* A frame is lost, in a step that leaves failures as spent otherwise. *)
FrameIsLost(spent) ==
  /\ spent.lost < MaxLost /\ spent.power + spent.lost < MaxFailures
  /\ failures' = [spent EXCEPT !.lost = @ + 1]

(* A frame on its way to the server is queued if the server listens, unless *)
(* it is lost; a full queue makes senders wait (the bound on the model).    *)
Deliver(c, frame, spent) ==
  \/ /\ ~Listening(c)
     /\ failures' = spent /\ UNCHANGED sock
  \/ /\ Listening(c) /\ Len(sock[c]) < QueueLimit
     /\ sock' = [sock EXCEPT ![c] = Append(@, frame)]
     /\ failures' = spent
  \/ Listening(c) /\ FrameIsLost(spent) /\ UNCHANGED sock

Send(d, kind, spent) ==
  Deliver(BusOf[d], [kind |-> kind, from |-> d, node |-> device[d].node], spent)

PowerOn(d) ==
  /\ device[d].phase = "off"
  /\ device' = [device EXCEPT ![d] = Without("lottery")]
  /\ UNCHANGED <<process, can, sock, failures, panics>>

PowerOff(d) ==
  /\ device[d].phase # "off"
  /\ PowerMayFail /\ failures' = PowerFailed
  /\ device' = [device EXCEPT ![d] = Without("off")]
  /\ UNCHANGED <<process, can, sock, panics>>

(* It is in the lottery, and the server has not read it yet. *)
Entered(d) ==
  \E i \in DOMAIN sock[BusOf[d]] :
    sock[BusOf[d]][i].kind = "lottery" /\ sock[BusOf[d]][i].from = d

(* A board without an address enters the lottery, again if nobody answers:  *)
(* a slow server gives it a slot for each time.                             *)
Enter(d) ==
  /\ device[d].phase = "lottery"
  /\ Entered(d) => PowerMayFail
  /\ Send(d, "lottery", IF Entered(d) THEN PowerFailed ELSE failures)
  /\ UNCHANGED <<process, can, device, panics>>

(* It confirms its address and describes itself, frame by frame. *)
Speak(d) ==
  LET told == device[d].told + 1
  IN  /\ device[d].phase = "joining"
      /\ Send(d, Script(d)[told], failures)
      /\ device' = [device EXCEPT ![d].told = told,
                      ![d].phase = IF told = Len(Script(d)) THEN "waiting" ELSE @]
      /\ UNCHANGED <<process, can, panics>>

Answer(d) ==
  /\ device[d].asked
  /\ Send(d, "alive", failures)
  /\ device' = [device EXCEPT ![d].asked = FALSE]
  /\ UNCHANGED <<process, can, panics>>

(* Field data is sent by operational boards, events by any with an address. *)
Talk(d, kind) ==
  /\ kind \in Chatter
  /\ device[d].node # NoNode
  /\ kind = "data" => device[d].phase = "operational"
  /\ Send(d, kind, failures)
  /\ UNCHANGED <<process, can, device, panics>>

(* What a board does when a command of the server reaches it. *)
Obeyed(r, command) ==
  CASE command = "REBOOT" /\ r.phase # "off" -> Without("lottery")
    [] command = "OPERATIONAL" /\ r.phase = "waiting" ->
         [r EXCEPT !.phase = "operational"]
    [] command = "HOLD" /\ r.phase = "operational" -> [r EXCEPT !.phase = "waiting"]
    [] OTHER -> r

(* Commands on their way to boards: who misses one goes on as before, and   *)
(* nothing tells the server.                                                *)
Orders(given, spent) ==
  \E heard \in SUBSET DOMAIN given :
    /\ device' = [d \in Devices |-> IF d \in heard THEN Obeyed(device[d], given[d])
                                    ELSE device[d]]
    /\ IF heard = DOMAIN given THEN failures' = spent ELSE FrameIsLost(spent)

(* A command is sent to the address of a handler. *)
Command(h, command, spent) ==
  Orders([d \in {e \in Devices : Slot(e) = h} |-> command], spent)

StartUntold(h) == UNCHANGED <<device, failures>>   \* mutation: no OPERATIONAL

(* The command of Launch. *)
Start(h) == Command(h, "OPERATIONAL", failures)
-----------------------------------------------------------------------------
(* The process: start, crash, panic.                                       *)

InviteToLottery(c) ==   \* mutation: the order to reboot is left out
  /\ can[c] = "bound"
  /\ can' = [can EXCEPT ![c] = "invited"]
  /\ UNCHANGED <<process, sock, device, failures, panics>>

(* CanHandler::CanHandler binds the socket, and then tells all boards on    *)
(* the bus to reboot; what they sent in between is in the queue.            *)
Bind(c) ==
  /\ can[c] = "closed"
  /\ \A e \in Cans : can[e] # "bound"
  /\ can' = [can EXCEPT ![c] = "bound"]
  /\ fault' = "none"
  /\ UNCHANGED <<pool, conn, heap, registry, sock, device, failures, panics>>

Invite(c) ==
  /\ can[c] = "bound"
  /\ can' = [can EXCEPT ![c] = "invited"]
  /\ Orders([d \in {e \in Devices : BusOf[e] = c /\ device[e].phase # "off"}
               |-> "REBOOT"], failures)
  /\ UNCHANGED <<process, sock, panics>>

(* The process dies; nothing of it survives, the boards do not notice. *)
Crash(why) ==
  /\ can' = [c \in Cans |-> "closed"]
  /\ fault' = why
  /\ pool' = {}
  /\ conn' = [h \in Handlers |-> NewConnection]
  /\ heap' = [p \in Pointers |-> Blank]
  /\ descriptor_map' = [n \in Names |-> NoPointer]
  /\ handlers' = [p \in Pointers |-> <<>>]
  /\ holden' = {}
  /\ boards' = <<>>
  /\ sock' = [c \in Cans |-> <<>>]

(* PanicHandler: ASSERT(0). *)
Panic ==
  /\ Up /\ panics < MaxPanics
  /\ panics' = panics + 1
  /\ Crash("panic")
  /\ UNCHANGED <<device, failures>>
-----------------------------------------------------------------------------
(* CanHandler::Tick: the keep-alive round.                                 *)

(* No board owes an answer and none is in the queue. *)
Settled(c) ==
  /\ \A d \in Devices : BusOf[d] = c => ~device[d].asked
  /\ \A i \in DOMAIN sock[c] : sock[c][i].kind # "alive"

ToPoll(c) == {h \in pool : h[1] = c /\ Polled(conn[h])}

KeepAliveRound(c) ==
  /\ Up /\ (Timely => Settled(c))
  /\ ToPoll(c) # {}
  /\ conn' = [h \in Handlers |->
                IF h \in ToPoll(c) THEN KeepAliveRequest(conn[h]) ELSE conn[h]]
  /\ device' = [d \in Devices |->
                  IF Slot(d) \in ToPoll(c) THEN [device[d] EXCEPT !.asked = TRUE]
                  ELSE device[d]]
  /\ UNCHANGED <<fault, pool, heap, registry, can, sock, failures, panics>>
-----------------------------------------------------------------------------
(* CanHandler::Tick: one received frame.                                   *)

Received(c, kind) == Up /\ sock[c] # <<>> /\ Head(sock[c]).kind = kind

Consume(c) ==
  /\ sock' = [sock EXCEPT ![c] = Tail(@)]
  /\ UNCHANGED <<can, panics>>

(* The handler the frame at the head of a queue is addressed to. *)
Addressee(c) == <<c, Head(sock[c]).node>>

(* It is handed over if that handler exists and is not dead. *)
Accepted(c, kind) ==
  /\ Received(c, kind)
  /\ Addressee(c) \in pool /\ ~conn[Addressee(c)].dead

FreeSlots(c) == {n \in NodeIds : <<c, n>> \notin pool}

ReceiveLotterySilently(c) ==   \* mutation: the board is not told its address
  /\ Received(c, "lottery")
  /\ \E n \in FreeSlots(c) : /\ \A m \in FreeSlots(c) : n <= m
                             /\ pool' = pool \cup {<<c, n>>}
  /\ Consume(c)
  /\ UNCHANGED <<fault, conn, heap, registry, device, failures>>

ReceiveLotteryUnmarked(c) ==   \* mutation: the slot is not taken
  LET d == Head(sock[c]).from
  IN  /\ Received(c, "lottery")
      /\ \E n \in FreeSlots(c) :
           /\ \A m \in FreeSlots(c) : n <= m
           /\ device' = IF device[d].phase # "lottery" THEN device
                        ELSE [device EXCEPT ![d] = [Without("joining") EXCEPT !.node = n]]
      /\ Consume(c)
      /\ UNCHANGED <<fault, pool, conn, heap, registry, failures>>

(* NewBoard: the lowest free slot, for the life of the process, whether or  *)
(* not the board is still waiting for an address, and hears of it.          *)
ReceiveLottery(c) ==
  LET d == Head(sock[c]).from
  IN  /\ Received(c, "lottery")
      /\ \E n \in FreeSlots(c) :
           /\ \A m \in FreeSlots(c) : n <= m
           /\ pool' = pool \cup {<<c, n>>}
           /\ \/ /\ device' = IF device[d].phase # "lottery" THEN device
                              ELSE [device EXCEPT
                                      ![d] = [Without("joining") EXCEPT !.node = n]]
                 /\ UNCHANGED failures
              \/ FrameIsLost(failures) /\ UNCHANGED device
      /\ Consume(c)
      /\ UNCHANGED <<fault, conn, heap, registry>>

(* Received message from board that should be dead. *)
ReceiveForDead(c) ==
  /\ \E kind \in Kinds \ {"lottery"} : Received(c, kind)
  /\ Addressee(c) \in pool /\ conn[Addressee(c)].dead
  /\ Consume(c)
  /\ UNCHANGED <<process, device, failures>>

ReceiveConfirm(c) ==
  LET h == Addressee(c)
  IN  /\ Accepted(c, "confirm") /\ ~conn[h].addressed
      /\ conn' = [conn EXCEPT ![h] = Confirmed(@)]
      /\ Consume(c)
      /\ UNCHANGED <<fault, pool, heap, registry, device, failures>>

(* DescriptionDataInbound: only the name may come without a descriptor. *)
ReceiveName(c) ==
  LET h == Addressee(c)
      p == DescriptorOf(h, conn[h])
  IN  /\ Accepted(c, "name")
      /\ conn' = [conn EXCEPT ![h] = Described(h, @)]
      /\ heap' = [heap EXCEPT ![p].name = NameOf[Head(sock[c]).from]]
      /\ Consume(c)
      /\ UNCHANGED <<fault, pool, registry, device, failures>>

ReceiveBody(c) ==
  LET p == conn[Addressee(c)].desc
  IN  /\ Accepted(c, "body") /\ p # NoPointer
      /\ heap' = [heap EXCEPT ![p].body = BodyOf[Head(sock[c]).from]]
      /\ Consume(c)
      /\ UNCHANGED <<fault, pool, conn, registry, device, failures>>

ReceiveId(c) ==
  LET h == Addressee(c)
  IN  /\ Accepted(c, "id") /\ conn[h].desc # NoPointer
      /\ conn' = [conn EXCEPT ![h] = Identified(@, IdOf[Head(sock[c]).from])]
      /\ Consume(c)
      /\ UNCHANGED <<fault, pool, heap, registry, device, failures>>

(* CommandInbound: the boards are awake; KeepAlive has the flag both ways. *)
ReceiveAlive(c) ==
  /\ Accepted(c, "alive")
  /\ conn' = [conn EXCEPT ![Addressee(c)] = KeepAliveAnswer(@, TRUE)]
  /\ Consume(c)
  /\ UNCHANGED <<fault, pool, heap, registry, device, failures>>

(* EventInbound logs, naming the board; FFDataInbound publishes. *)
ReceiveTalk(c) ==
  LET r == conn[Addressee(c)]
  IN  /\ \/ Accepted(c, "event") /\ r.desc # NoPointer
         \/ Accepted(c, "data") /\ r.frontend # 0
      /\ Consume(c)
      /\ UNCHANGED <<process, device, failures>>
-----------------------------------------------------------------------------
(* BoardManager::RegisterNewHandler, on INIT_COMPLETE.                     *)

SameDescriptor(p, q) == heap[p] = heap[q]

HandshakeOnlyOnce(p) ==   \* mutation: pointers compared, not descriptors
  LET known == descriptor_map[heap[p].name]
  IN  known # NoPointer => known = p

(* HandshakeComplete finds no conflict with a board of the same name.       *)
HandshakeComplete(p) ==
  LET known == descriptor_map[heap[p].name]
  IN  known # NoPointer => SameDescriptor(known, p)

InitComplete(c) ==
  LET p == conn[Addressee(c)].desc
  IN  Accepted(c, "init") /\ p # NoPointer /\ HandshakeComplete(p)

InitAccepted(c) ==
  LET p == conn[Addressee(c)].desc
  IN  /\ InitComplete(c)
      /\ descriptor_map' = [descriptor_map EXCEPT ![heap[p].name] =
                              IF @ = NoPointer THEN p ELSE @]

KeysByPointer(p) == {p}   \* mutation: the type is not looked up by name

(* The registry's key for the type of descriptor p: the descriptor of the   *)
(* first board of that name, or p itself.                                   *)
Keys(p) ==
  LET same == {k \in Pointers : handlers[k] # <<>> /\ heap[k].name = heap[p].name}
  IN  IF same = {} THEN {p} ELSE same

OwnersOfAnyId(k, id) ==   \* mutation: instances are not told apart
  {i \in DOMAIN handlers[k] : handlers[k][i].backend # NoHandler}

(* Instances under k with that id whose handler still exists. *)
Owners(k, id) ==
  {i \in DOMAIN handlers[k] :
     handlers[k][i].id = id /\ handlers[k][i].backend # NoHandler}

(* The one a loop from the start finds; none if there is none. *)
First(indices) == {i \in indices : \A j \in indices : i <= j}

(* A handler whose name cannot be logged: it confirmed its address after it *)
(* had described itself.                                                    *)
Nameless(h) == conn[h].desc = NoPointer

(* GetBoard(): inst.backend_handler is set by ConfirmAddress only. *)
GetBoard(h) ==
  [desc |-> conn[h].desc, id |-> conn[h].id,
   backend |-> IF conn[h].addressed THEN h ELSE NoHandler]

KeepBackendHandler(f, h) == boards   \* mutation: the front end is forgotten

ReplaceBackendHandler(f, h) == [boards EXCEPT ![f].backend = h]

RegisterNew(c) ==
  LET h == Addressee(c)
  IN  /\ InitAccepted(c)
      /\ \E k \in Keys(conn[h].desc) :
           /\ SameDescriptor(k, conn[h].desc)
           /\ Owners(k, conn[h].id) = {}
           /\ handlers' = [handlers EXCEPT ![k] = Append(@, GetBoard(h))]
      /\ boards' = Append(boards, GetBoard(h))
      /\ conn' = [conn EXCEPT ![h] = Launch(@, Len(boards'))]
      /\ Start(h)
      /\ Consume(c)
      /\ UNCHANGED <<fault, pool, heap, holden>>

RegisterReplacing(c) ==
  LET h == Addressee(c)
  IN  /\ InitAccepted(c)
      /\ \E k \in Keys(conn[h].desc) :
           /\ SameDescriptor(k, conn[h].desc)
           /\ \E i \in First(Owners(k, conn[h].id)) :
                LET old == handlers[k][i].backend
                IN  /\ conn[old].dead /\ ~Nameless(old)
                    /\ handlers' = [handlers EXCEPT ![k][i].backend = h]
                    /\ boards' = ReplaceBackendHandler(conn[old].frontend, h)
                    /\ conn' = [conn EXCEPT ![h] = Launch(@, conn[old].frontend)]
      /\ Start(h)
      /\ Consume(c)
      /\ UNCHANGED <<fault, pool, heap, holden>>

RegisterHolding(c) ==
  LET h == Addressee(c)
  IN  /\ InitAccepted(c)
      /\ \E k \in Keys(conn[h].desc) :
           /\ SameDescriptor(k, conn[h].desc)
           /\ \E i \in First(Owners(k, conn[h].id)) :
                LET old == handlers[k][i].backend
                IN  ~conn[old].dead /\ ~Nameless(old)
      /\ holden' = holden \cup {h}
      /\ Consume(c)
      /\ UNCHANGED <<fault, pool, conn, heap, handlers, boards, device, failures>>
-----------------------------------------------------------------------------
(* A received frame that kills the process.                                *)

Violates(c, why) ==
  LET h == Addressee(c)
      r == conn[h]
      Any(kinds) == \E kind \in kinds : Accepted(c, kind)
  IN  \/ /\ why = "pool_exhausted"                   \* can_handler.cpp:48
         /\ Received(c, "lottery") /\ FreeSlots(c) = {}
      \/ /\ why = "unknown_address"                  \* can_handler.cpp:90
         /\ \E kind \in Kinds \ {"lottery"} : Received(c, kind)
         /\ h \notin pool
      \/ /\ why = "address_taken"                    \* communication.cpp:165
         /\ Accepted(c, "confirm") /\ r.addressed
      \/ /\ why = "no_descriptor"                    \* communication.cpp:44,
         /\ Any({"body", "id", "event", "init"})     \* 83-109, 208
         /\ r.desc = NoPointer
      \/ /\ why = "descriptor_conflict"              \* communication.cpp:222,
         /\ Accepted(c, "init") /\ r.desc # NoPointer \* board.cpp:61
         /\ HandshakeComplete(r.desc) =>
              \E k \in Keys(r.desc) : ~SameDescriptor(k, r.desc)
      \/ /\ why = "owner_nameless"                   \* board.cpp:96, 114
         /\ InitComplete(c)
         /\ \E k \in Keys(r.desc) :
              \E i \in First(Owners(k, r.id)) : Nameless(handlers[k][i].backend)
      \/ /\ why = "no_frontend"                      \* communication.cpp:158
         /\ Accepted(c, "data") /\ r.frontend = 0

Reasons == {"pool_exhausted", "unknown_address", "address_taken",
            "no_descriptor", "descriptor_conflict", "owner_nameless",
            "no_frontend"}

Abort(c) ==
  /\ \E why \in Reasons : Violates(c, why) /\ Crash(why)
  /\ UNCHANGED <<device, failures, panics>>
-----------------------------------------------------------------------------
(* ROS callbacks: RosBoardHandler::BackendReady and BoardManager::          *)
(* RequestNewHandler.                                                      *)

StaleWhenLost(f) ==   \* mutation: a lost backend is given up like a dead one
  LET b == boards[f].backend
  IN  b # NoHandler => conn[b].dead \/ conn[b].lost

Stale(f) ==
  LET b == boards[f].backend
  IN  b # NoHandler => conn[b].dead

DeadOrAlive(f) ==   \* mutation: handlers that died on hold are not left out
  {h \in holden : /\ conn[h].desc # NoPointer
                  /\ SameDescriptor(conn[h].desc, boards[f].desc)
                  /\ conn[h].id = boards[f].id}

SamePointer(f) ==   \* mutation: pointers compared, not descriptors
  {h \in holden : /\ ~conn[h].dead /\ ~conn[h].lost
                  /\ conn[h].desc = boards[f].desc
                  /\ conn[h].id = boards[f].id}

Substitutes(f) ==
  {h \in holden : /\ ~conn[h].dead /\ ~conn[h].lost
                  /\ conn[h].desc # NoPointer
                  /\ SameDescriptor(conn[h].desc, boards[f].desc)
                  /\ conn[h].id = boards[f].id}

(* The instances among which RequestNewHandler looks for the one to give a  *)
(* new handler: those under the front end's own descriptor.                 *)
Candidates(f) ==
  {i \in DOMAIN handlers[boards[f].desc] :
     handlers[boards[f].desc][i].id = boards[f].id}

(* RequestNewHandler gives the place of instance i under k to h; reboot     *)
(* tells whether the call orders a reboot.                                  *)
Replace(f, k, i, h, reboot) ==
  LET old == handlers[k][i].backend
  IN  /\ old # NoHandler /\ ~Nameless(old)
      /\ handlers' = [handlers EXCEPT ![k][i].backend = h]
      /\ holden' = (holden \ {h}) \cup (IF conn[old].dead THEN {} ELSE {old})
      /\ boards' = ReplaceBackendHandler(f, h)
      /\ conn' = [conn EXCEPT ![h] =
                    IF reboot THEN CommandReboot(Launch(@, f)) ELSE Launch(@, f)]
      /\ LET told == {h} \cup (IF conn[old].dead THEN {} ELSE {old})
         IN  Orders([d \in {e \in Devices : Slot(e) \in told} |->
                       CASE Slot(d) # h -> "HOLD"
                         [] reboot      -> "REBOOT"
                         [] OTHER       -> "OPERATIONAL"],
                    IF reboot THEN PowerFailed ELSE failures)
      /\ UNCHANGED <<fault, pool, heap, descriptor_map, can, sock, panics>>

Substitute(f, reboot) ==
  /\ Stale(f)
  /\ \E h \in Substitutes(f) : \E i \in First(Candidates(f)) :
       Replace(f, boards[f].desc, i, h, reboot)

(* Any call but a reboot: it changes something only when a handler on hold  *)
(* takes the place of a dead one.                                           *)
Query(f) ==
  /\ Up /\ f \in DOMAIN boards
  /\ Substitute(f, FALSE)

(* BoardRebootCallback *)
Reboot(f) ==
  /\ Up /\ f \in DOMAIN boards
  /\ PowerMayFail
  /\ \/ Substitute(f, TRUE)
     \/ /\ ~Stale(f)
        /\ LET b == boards[f].backend
           IN  /\ ~conn[b].lost /\ ~Nameless(b)
               /\ conn' = [conn EXCEPT ![b] = CommandReboot(@)]
               /\ Command(b, "REBOOT", PowerFailed)
               /\ UNCHANGED <<fault, pool, heap, registry, can, sock, panics>>

(* RequestNewHandler looks its instance up under a descriptor that is not   *)
(* a key, follows the end iterator and then a null old_handler.             *)
Stray(f) ==
  /\ Up /\ f \in DOMAIN boards /\ Stale(f)
  /\ Substitutes(f) # {}
  /\ \A i \in First(Candidates(f)) :
       handlers[boards[f].desc][i].backend = NoHandler
  /\ Crash("bank_missing")
  /\ UNCHANGED <<device, failures, panics>>

(* A call meets a handler without a descriptor: while it looks for a        *)
(* substitute, in the one it replaces, or in the backend it commands.       *)
Unnamed(f) ==
  /\ Up /\ f \in DOMAIN boards
  /\ IF Stale(f)
     THEN \/ \E h \in holden : ~conn[h].dead /\ ~conn[h].lost /\ Nameless(h)
          \/ /\ Substitutes(f) # {}
             /\ \E i \in First(Candidates(f)) :
                  LET old == handlers[boards[f].desc][i].backend
                  IN  old # NoHandler /\ Nameless(old)
     ELSE ~conn[boards[f].backend].lost /\ Nameless(boards[f].backend)
  /\ Crash("backend_nameless")
  /\ UNCHANGED <<device, failures, panics>>
-----------------------------------------------------------------------------
Receive(c) ==
  \/ ReceiveLottery(c) \/ ReceiveForDead(c) \/ ReceiveConfirm(c)
  \/ ReceiveName(c) \/ ReceiveBody(c) \/ ReceiveId(c)
  \/ ReceiveAlive(c) \/ ReceiveTalk(c)
  \/ RegisterNew(c) \/ RegisterReplacing(c) \/ RegisterHolding(c)
  \/ Abort(c)

Call(f) == Query(f) \/ Reboot(f) \/ Stray(f) \/ Unnamed(f)

Device(d) ==
  \/ PowerOn(d) \/ PowerOff(d) \/ Enter(d) \/ Speak(d) \/ Answer(d)
  \/ \E kind \in Chatter : Talk(d, kind)

Next ==
  \/ \E d \in Devices : Device(d)
  \/ \E c \in Cans : Bind(c) \/ Invite(c) \/ KeepAliveRound(c) \/ Receive(c)
  \/ \E f \in DOMAIN boards : Call(f)
  \/ Panic

Spec == Init /\ [][Next]_vars

(* The main loop never stops turning, a process that died is started again, *)
(* boards that lost power get it back and obey their protocol, the bus      *)
(* serves every sender in turn, and the ROS side keeps calling (a GUI polls *)
(* BoardOnline).                                                            *)
FairSpec ==
  /\ Spec
  /\ \A c \in Cans :
       /\ WF_vars(Bind(c)) /\ WF_vars(Invite(c))
       /\ WF_vars(KeepAliveRound(c)) /\ WF_vars(Receive(c))
  /\ \A d \in Devices :
       /\ WF_vars(PowerOn(d)) /\ SF_vars(Enter(d))
       /\ SF_vars(Speak(d)) /\ SF_vars(Answer(d))
  /\ \A f \in 1 .. Cardinality(Handlers) :
       WF_vars(f \in DOMAIN boards /\ (Query(f) \/ Stray(f)))
-----------------------------------------------------------------------------
TypeOK ==
  /\ can \in [Cans -> {"closed", "bound", "invited"}]
  /\ fault \in Reasons \cup {"none", "panic", "bank_missing", "backend_nameless"}
  /\ pool \subseteq Handlers
  /\ conn \in [Handlers -> Connections]
  /\ heap \in [Pointers -> Descriptors]
  /\ descriptor_map \in [Names -> Pointers \cup {NoPointer}]
  /\ handlers \in [Pointers -> Seq(Instances)]
  /\ holden \subseteq Handlers
  /\ boards \in Seq(Instances)
  /\ sock \in [Cans -> Seq(Frames)]
  /\ device \in [Devices -> DeviceStates]
  /\ failures \in Failures
  /\ panics \in 0 .. MaxPanics

Identities == Names \X (Ids \cup {NoId})

IdentityOf(d) == <<NameOf[d], IdOf[d]>>

Identity(f) == <<heap[boards[f].desc].name, boards[f].id>>

(* The handshake has no retries: what it leaves behind when a frame is lost *)
(* is wrong in ways the server does not notice.                             *)
NothingLost == failures.lost = 0

(* Every board type and instance has one front end, so the ROS topics of a  *)
(* board are served once, however often the board has rejoined.             *)
OneFrontEnd ==
  NothingLost => \A f, g \in DOMAIN boards : Identity(f) = Identity(g) => f = g

(* The registry and the front ends, which hold copies of each other's       *)
(* BoardInstance, agree on the backend after any history of replacements,   *)
(* and the services that list boards by their name and then look up the     *)
(* descriptor of that name (ShowBoards, BoardInstances) find every instance *)
(* that has topics.                                                         *)
CopiesAgree ==
  \A f \in DOMAIN boards :
    LET k == descriptor_map[Identity(f)[1]]
    IN  /\ k # NoPointer
        /\ \E i \in DOMAIN handlers[k] :
             /\ handlers[k][i].id = Identity(f)[2]
             /\ handlers[k][i].backend = boards[f].backend

(* A handler on hold serves nobody, and two live handlers never serve the   *)
(* same front end: no two boards drive the same ROS topics at a time.       *)
OneLiveBackend ==
  /\ \A h \in holden : conn[h].frontend = 0
  /\ \A g, h \in pool :
       /\ conn[g].frontend = conn[h].frontend /\ conn[g].frontend # 0
       /\ ~conn[g].dead /\ ~conn[h].dead
       => g = h

(* What a ROS client writes to a board's topic reaches no other board: who  *)
(* listens to the address of a live backend is the board of that name.      *)
RightBoard ==
  \A f \in DOMAIN boards : \A d \in Devices :
    ~Stale(f) /\ Slot(d) = boards[f].backend => IdentityOf(d) = Identity(f)

(* What a board sends is published as its own: data that is still queued    *)
(* will be handled by the front end of its sender, or not at all.           *)
RightSource ==
  \A c \in Cans : \A i \in DOMAIN sock[c] :
    LET frame == sock[c][i]
        h     == <<c, frame.node>>
    IN  frame.kind = "data" /\ h \in pool =>
          \/ conn[h].dead \/ conn[h].frontend = 0
          \/ Identity(conn[h].frontend) = IdentityOf(frame.from)

(* The two sides agree on who is in service: while the handler of a board   *)
(* lives, the board operates exactly when a front end writes to it.         *)
(* OPERATIONAL is said once and not acknowledged.                           *)
OperationalIffServed ==
  NothingLost => \A d \in Devices :
    Slot(d) \in pool /\ ~conn[Slot(d)].dead =>
      LET f == conn[Slot(d)].frontend
      IN  device[d].phase = "operational"
            <=> f # 0 /\ boards[f].backend = Slot(d)

(* Slots are never given back, so they must be given for joins only: there  *)
(* is one for each board, and one more for each time a board starts again,  *)
(* repeats itself, or misses what it is told.                               *)
SlotsAccounted ==
  \A c \in Cans :
    Cardinality({h \in pool : h[1] = c})
      <= Cardinality({d \in Devices : BusOf[d] = c}) + failures.power + failures.lost

(* No assertion fails and no null pointer is followed. *)
NoFault == NothingLost => fault \in {"none", "panic"}

(* The assertion of Tick: an addressed frame comes from a board that this   *)
(* process has given an address.                                            *)
AddressesKnown == fault # "unknown_address"

(* All boards with an address, and all frames from one, belong to a slot of *)
(* this process.                                                            *)
Acquainted ==
  /\ \A d \in Devices : device[d].node # NoNode => Slot(d) \in pool
  /\ \A c \in Cans : \A i \in DOMAIN sock[c] :
       sock[c][i].kind # "lottery" => <<c, sock[c][i].node>> \in pool

(* That assertion fails only for what is left of an earlier process: where  *)
(* nothing is, or no longer is, boards and server stay acquainted for as    *)
(* long as the process lives, and it is not this assertion that ends it.    *)
StaysAcquainted ==
  [][Up /\ Acquainted => /\ Up' => Acquainted'
                         /\ AddressesKnown => AddressesKnown']_vars

(* The lookup of RequestNewHandler finds the instance it looks for, so that *)
(* a board that is plugged in again can take its place back.                *)
InstanceFound == fault # "bank_missing"

(* Front ends, links and dead links as the abstract directory sees them.    *)
Linked(x) ==
  {h \in Handlers :
     \E f \in DOMAIN boards : Identity(f) = x /\ boards[f].backend = h}

LinkOf(x) == IF Linked(x) = {} THEN NoHandler ELSE CHOOSE h \in Linked(x) : TRUE

LinkMap == [x \in Identities |-> LinkOf(x)]

Abandoned == {h \in pool : conn[h].dead}

Directory ==
  INSTANCE LinkDirectory WITH
    Links <- Handlers, NoLink <- NoHandler, link <- LinkMap, gone <- Abandoned

ImplementsDirectory == Directory!Spec

(* Once failures stop, every board is online for good, whatever happened    *)
(* before: joins cut short, deaths, replacements and handlers on hold.      *)
Online(d) ==
  /\ device[d].phase = "operational"
  /\ Slot(d) \in pool /\ ~conn[Slot(d)].dead /\ ~conn[Slot(d)].lost
  /\ \E f \in DOMAIN boards :
       boards[f].backend = Slot(d) /\ Identity(f) = IdentityOf(d)

AllComeOnline == <>[](\A d \in Devices : Online(d))
=============================================================================
