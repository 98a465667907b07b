-------------------------- MODULE HandshakeProofs --------------------------
(***************************************************************************)
(* The handshake.  A board tells who it is once, in frames that nobody     *)
(* acknowledges, and the server takes a missing frame for a short          *)
(* description.  As long as no frame is lost the frames come in the order  *)
(* they were sent, and what the server believes of a board when it         *)
(* registers it is true; the rest follows from names, slots and places     *)
(* being given once.                                                       *)
(***************************************************************************)
EXTENDS RubiServerProofs

(* d has the slot of h, and is heard there or was. *)
Speaks(d, h) ==
  \/ OnAir(d) /\ Slot(d) = h
  \/ \E c \in Cans : \E i \in Addressed(c) : Place(c, i) = h /\ sock[c][i].from = d

(* A frame of that kind from h is in the queue, before the n-th. *)
Ahead(c, n, h, kind) ==
  \E j \in DOMAIN sock[c] : j < n /\ sock[c][j].kind = kind /\ Place(c, j) = h

(* What a board says once, before the INIT that ends its script.           *)
Lines == {"confirm", "name", "body", "id"}

Rank(kind) ==
  CASE kind = "confirm" -> 1
    [] kind = "name"    -> 2
    [] kind = "body"    -> 3
    [] kind = "id"      -> 4
    [] kind = "init"    -> 5
    [] OTHER            -> 0

(* The handler of h has heard that line of board d, in its place: what was  *)
(* said before the address was confirmed is forgotten.                     *)
Known(h, d, line) ==
  \/ line = "id" /\ IdOf[d] = NoId
  \/ /\ conn[h].addressed
     /\ line # "confirm" => conn[h].desc # NoPointer
     /\ line = "body" => heap[conn[h].desc].body # NoBody
     /\ line = "id" => conn[h].id = IdOf[d]

(* It will have when the n-th frame is handled. *)
By(c, n, h, d, line) == Known(h, d, line) \/ Ahead(c, n, h, line)

FramesInOrder ==
  \A c \in Cans : \A i \in DOMAIN sock[c] : \A line \in Lines :
    Rank(line) < Rank(sock[c][i].kind) /\ ~conn[Place(c, i)].dead =>
      By(c, i, Place(c, i), sock[c][i].from, line)

(* What a board has said is handled or in the queue. *)
ToldInOrder ==
  \A d \in Devices : \A line \in Lines :
    Joining(d) /\ ~conn[Slot(d)].dead /\ Rank(line) <= device[d].told =>
      By(BusOf[d], Len(sock[BusOf[d]]) + 1, Slot(d), d, line)

IdsTrue ==
  /\ \A h \in Handlers \ pool : conn[h].id = NoId
  /\ \A h \in Handlers : \A d \in Devices :
       Speaks(d, h) => conn[h].id \in {NoId, IdOf[d]}

(* The handler of h has heard all it needs to know of its board.           *)
Knows(h) ==
  /\ conn[h].addressed /\ conn[h].desc # NoPointer
  /\ \A d \in Devices : Speaks(d, h) => conn[h].id = IdOf[d]

RegisteredRight == \A h \in Registered : Knows(h)

(* A front end that was given to a handler is the one of its board. *)
ServedRight ==
  \A h \in Handlers : \A d \in Devices :
    conn[h].frontend # 0 /\ Speaks(d, h) => Identity(conn[h].frontend) = IdentityOf(d)

FrontsBacked == \A f \in DOMAIN boards : boards[f].backend # NoHandler

InService ==
  \A d \in Devices : OnAir(d) /\ ~conn[Slot(d)].dead =>
    (device[d].phase = "operational" <=> conn[Slot(d)].frontend # 0)

OrderInv == FramesInOrder /\ ToldInOrder

HandshakeInv ==
  /\ OrderInv /\ IdsTrue /\ RegisteredRight
  /\ ServedRight /\ FrontsBacked /\ InService
-----------------------------------------------------------------------------
(* Speakers.                                                               *)

LEMMA OneVoice ==
  ASSUME AddressInv, NEW h, NEW d \in Devices, NEW e \in Devices,
         Speaks(d, h), Speaks(e, h)
  PROVE  d = e /\ h \in pool
  <1>1. \A b \in Cans : \A c \in Cans : \A i, j :
          Place(b, i) = h /\ Place(c, j) = h => b = c
    BY DEF Place
  <1>2. ASSUME NEW b \in Cans, NEW i \in Addressed(b), Place(b, i) = h,
               NEW c \in Cans, NEW j \in Addressed(c), Place(c, j) = h
        PROVE  sock[b][i].from = sock[c][j].from
    BY <1>1, <1>2 DEF AddressInv, OneSpeaker
  <1>3. ASSUME NEW b \in Devices, OnAir(b), Slot(b) = h,
               NEW c \in Cans, NEW j \in Addressed(c), Place(c, j) = h
        PROVE  sock[c][j].from = b
    BY <1>3 DEF AddressInv, OneSpeaker
  <1>4. d = e
    BY <1>2, <1>3 DEF Speaks, AddressInv, OneSpeaker
  <1>5. h \in pool
    BY DEF Speaks, AddressInv, SpeakersKnown
  <1> QED
    BY <1>4, <1>5

LEMMA SpeakersSpoke ==
  ASSUME Voices, NEW h, NEW d \in Devices, Speaks(d, h)'
  PROVE  Speaks(d, h) \/ h \notin pool
  <1>1. CASE OnAir(d)' /\ Slot(d)' = h
    BY <1>1 DEF Voices, Speaks
  <1>2. CASE \E c \in Cans : \E i \in Addressed(c)' :
               Place(c, i)' = h /\ sock'[c][i].from = d
    BY <1>2 DEF Voices, Speaks
  <1> QED
    BY <1>1, <1>2 DEF Speaks

(* The sender of the frame at the head of a queue. *)
LEMMA HeadSpeaks ==
  ASSUME Inv, NEW c \in Cans, NEW kind \in Kinds \ {"lottery"}, Received(c, kind)
  PROVE  /\ 1 \in Addressed(c) /\ Place(c, 1) = Addressee(c)
         /\ sock[c][1] = Head(sock[c]) /\ Head(sock[c]) \in Frames
         /\ Head(sock[c]).from \in Devices
         /\ Speaks(Head(sock[c]).from, Addressee(c))
  <1>1. sock[c] # <<>> /\ Head(sock[c]) \in Frames
    BY ReceivedFacts DEF Inv
  <1>2. 1 \in DOMAIN sock[c] /\ sock[c][1] = Head(sock[c])
    BY <1>1, HeadTailProperties DEF Inv, BusOK
  <1>3. 1 \in Addressed(c) /\ Place(c, 1) = Addressee(c)
    BY <1>2 DEF Received, Addressed, Place, Addressee
  <1> QED
    BY <1>1, <1>2, <1>3 DEF Speaks, Frames
-----------------------------------------------------------------------------
(* What the handlers know, they go on knowing.                             *)

ConnKept ==
  /\ pool \subseteq pool'
  /\ \A h \in Handlers :
       /\ conn[h].dead => conn'[h].dead
       /\ conn[h].addressed => /\ conn'[h].addressed
                               /\ conn[h].desc # NoPointer =>
                                    conn'[h].desc = conn[h].desc
       /\ conn'[h].addressed =>
            conn[h].addressed \/ \E c \in Cans : ReceiveConfirm(c) /\ h = Addressee(c)
       /\ \/ conn'[h].id = conn[h].id
          \/ ~conn[h].addressed /\ conn'[h].id = NoId
          \/ \E d \in Devices : Speaks(d, h) /\ h \in pool /\ conn'[h].id = IdOf[d]

BodiesKept == \A p \in Pointers : heap[p].body # NoBody => heap'[p].body # NoBody

(* The same connection, but for what a round, a launch or an order changes. *)
SameMan(r, s) ==
  /\ r.dead => s.dead
  /\ s.addressed = r.addressed /\ s.desc = r.desc /\ s.id = r.id

LEMMA SameConn ==
  ASSUME Inv, pool \subseteq pool', \A h \in Handlers : SameMan(conn[h], conn'[h])
  PROVE  ConnKept
  BY DEF SameMan, ConnKept

LEMMA OneConn ==
  ASSUME Inv, pool \subseteq pool', NEW h \in Handlers, NEW s,
         SameMan(conn[h], s), conn' = [conn EXCEPT ![h] = s]
  PROVE  ConnKept
  <1>1. \A g \in Handlers : conn'[g] = IF g = h THEN s ELSE conn[g]
    BY DEF Inv, ConnOK
  <1>2. \A g \in Handlers : SameMan(conn[g], conn'[g])
    BY <1>1 DEF SameMan
  <1> QED
    BY <1>2, SameConn

LEMMA ConnKeptSteps ==
  ASSUME Inv, [Next]_vars
  PROVE  ConnKept \/ \E why : Crash(why)
  <1>1. ASSUME conn' = conn, pool \subseteq pool'
        PROVE  ConnKept
    BY <1>1 DEF ConnKept
  <1>3. ASSUME NEW d \in Devices, Device(d)
        PROVE  ConnKept
    BY <1>1, <1>3
    DEF Device, PowerOn, PowerOff, Enter, Speak, Answer, Talk, process
  <1>4. ASSUME NEW c \in Cans, Bind(c) \/ Invite(c)
        PROVE  ConnKept
    BY <1>1, <1>4 DEF Bind, Invite, process
  <1>5. ASSUME NEW c \in Cans, KeepAliveRound(c)
        PROVE  ConnKept
    <2>1. \A r \in Connections : r.dead => KeepAliveRequest(r).dead
      BY DEF KeepAliveRequest, Connections
    <2>2. \A g \in Handlers : /\ conn[g] \in Connections
                              /\ conn'[g] \in {conn[g], KeepAliveRequest(conn[g])}
      BY <1>5 DEF KeepAliveRound, Inv, ConnOK
    <2>3. \A g \in Handlers : SameMan(conn[g], conn'[g])
      BY <2>1, <2>2, RequestKeeps DEF SameMan
    <2> QED
      BY <1>5, <2>3, SameConn DEF KeepAliveRound
  <1>6. ASSUME NEW c \in Cans, Receive(c), ~Abort(c)
        PROVE  ConnKept
    <2> DEFINE h == Addressee(c)
    <2>1. CASE ReceiveLottery(c)
      BY <1>1, <2>1 DEF ReceiveLottery
    <2>2. CASE \/ ReceiveForDead(c) \/ ReceiveBody(c) \/ ReceiveTalk(c)
               \/ RegisterHolding(c)
      BY <1>1, <2>2
      DEF ReceiveForDead, ReceiveBody, ReceiveTalk, RegisterHolding, process
    <2>3. ASSUME NEW kind, Accepted(c, kind)
          PROVE  h \in Handlers /\ conn[h] \in Connections /\ h \in pool
      BY <2>3, AcceptedFacts DEF Accepted
    <2>4. CASE ReceiveConfirm(c)
      <3>1. /\ h \in Handlers /\ conn[h] \in Connections /\ ~conn[h].addressed
            /\ conn' = [conn EXCEPT ![h] = Confirmed(conn[h])] /\ pool' = pool
        BY <2>3, <2>4 DEF ReceiveConfirm
      <3>2. /\ Confirmed(conn[h]).id = NoId /\ Confirmed(conn[h]).dead = conn[h].dead
        BY <3>1, ConfirmedFacts
      <3> HIDE DEF h
      <3>3. \A g \in Handlers : conn'[g] = IF g = h THEN Confirmed(conn[h]) ELSE conn[g]
        BY <3>1 DEF Inv, ConnOK
      <3>4. \A g \in Handlers \ {h} : conn'[g] = conn[g]
        BY <3>3
      <3>5. conn'[h] = Confirmed(conn[h]) /\ h = Addressee(c)
        BY <3>1, <3>3 DEF h
      <3> QED
        BY <2>4, <3>1, <3>2, <3>4, <3>5 DEF ConnKept
    <2>5. CASE ReceiveName(c)
      <3>1. /\ h \in Handlers /\ conn[h] \in Connections
            /\ conn' = [conn EXCEPT ![h] = Described(h, conn[h])] /\ pool' = pool
        BY <2>3, <2>5 DEF ReceiveName
      <3> DEFINE s == Described(h, conn[h])
      <3>2. /\ s.id = conn[h].id /\ s.dead = conn[h].dead
            /\ s.addressed = conn[h].addressed
            /\ conn[h].desc # NoPointer => s.desc = conn[h].desc
        BY <3>1, DescribedFacts DEF DescriptorOf
      <3> HIDE DEF h, s
      <3>3. \A g \in Handlers : conn'[g] = IF g = h THEN s ELSE conn[g]
        BY <3>1 DEF Inv, ConnOK, s
      <3> QED
        BY <3>1, <3>2, <3>3 DEF ConnKept
    <2>6. CASE ReceiveId(c)
      <3> DEFINE d == Head(sock[c]).from
                 s == Identified(conn[h], IdOf[d])
      <3>1. /\ h \in Handlers /\ conn[h] \in Connections /\ h \in pool
            /\ conn' = [conn EXCEPT ![h] = s] /\ pool' = pool
        BY <2>3, <2>6 DEF ReceiveId
      <3>2. d \in Devices /\ Speaks(d, h)
        BY <2>6, HeadSpeaks DEF ReceiveId, Accepted, Kinds
      <3>3. /\ s.id = IdOf[d] /\ s.dead = conn[h].dead
            /\ s.addressed = conn[h].addressed /\ s.desc = conn[h].desc
        BY <3>1, <3>2, IdentifiedFacts, ServerAssumption
      <3> HIDE DEF h, s, d
      <3>4. \A g \in Handlers : conn'[g] = IF g = h THEN s ELSE conn[g]
        BY <3>1 DEF Inv, ConnOK
      <3> QED
        BY <3>1, <3>2, <3>3, <3>4 DEF ConnKept
    <2>7. CASE ReceiveAlive(c)
      <3>1. h \in Handlers /\ SameMan(conn[h], KeepAliveAnswer(conn[h], TRUE))
        BY <2>3, <2>7, AnswerFacts DEF ReceiveAlive, SameMan
      <3> QED
        BY <2>7, <3>1, OneConn DEF ReceiveAlive
    <2>8. CASE RegisterNew(c) \/ RegisterReplacing(c)
      <3>1. Accepted(c, "init")
        BY <2>8 DEF RegisterNew, RegisterReplacing, InitAccepted, InitComplete
      <3>2. PICK n : conn' = [conn EXCEPT ![h] = Launch(@, n)]
        BY <2>8 DEF RegisterNew, RegisterReplacing
      <3>3. h \in Handlers /\ SameMan(conn[h], Launch(conn[h], n))
        BY <2>3, <3>1 DEF Launch, Connections, SameMan
      <3> QED
        BY <2>8, <3>2, <3>3, OneConn DEF RegisterNew, RegisterReplacing
    <2> QED
      BY <1>6, <2>1, <2>2, <2>4, <2>5, <2>6, <2>7, <2>8 DEF Receive
  <1>7. ASSUME NEW f \in DOMAIN boards, Call(f), \A why : ~Crash(why)
        PROVE  ConnKept
    <2>1. CASE Reboot(f) /\ ~Substitute(f, TRUE)
      <3>1. PICK b \in Handlers : /\ conn' = [conn EXCEPT ![b] = CommandReboot(conn[b])]
                                  /\ UNCHANGED <<heap, pool>>
        BY <2>1, RebootFrontends
      <3>2. SameMan(conn[b], CommandReboot(conn[b]))
        BY RebootFacts DEF Inv, ConnOK, SameMan
      <3> QED
        BY <3>1, <3>2, OneConn
    <2>2. ASSUME NEW reboot \in BOOLEAN, Substitute(f, reboot)
          PROVE  ConnKept
      <3>1. PICK h \in Handlers : \E k, i : Replace(f, k, i, h, reboot)
        BY <2>2 DEF Substitute, Substitutes, Inv, RegistryOK
      <3> DEFINE r == Launch(conn[h], f)
                 s == IF reboot THEN CommandReboot(r) ELSE r
      <3>2. conn[h] \in Connections /\ f \in Nat
        BY DEF Inv, ConnOK, RegistryOK
      <3>3. r \in Connections /\ SameMan(conn[h], r)
        BY <3>2, LaunchFacts DEF SameMan
      <3>4. conn' = [conn EXCEPT ![h] = s] /\ pool' = pool
        BY <3>1 DEF Replace
      <3> HIDE DEF r
      <3>5. SameMan(conn[h], s)
        BY <3>3, RebootFacts DEF SameMan
      <3> QED
        BY <3>4, <3>5, OneConn
    <2> QED
      BY <1>7, <2>1, <2>2 DEF Call, Query, Stray, Unnamed
  <1>8. CASE UNCHANGED vars
    BY <1>1, <1>8 DEF vars, process
  <1> QED
    BY <1>3, <1>4, <1>5, <1>6, <1>7, <1>8 DEF Next, Panic, Abort

(* A body that was received is never taken back. *)
LEMMA BodiesKeptSteps ==
  ASSUME Inv, [Next]_vars
  PROVE  BodiesKept \/ \E why : Crash(why)
  <1>1. ASSUME heap' = heap
        PROVE  BodiesKept
    BY <1>1 DEF BodiesKept
  <1>2. ASSUME NEW c \in Cans, ReceiveName(c) \/ ReceiveBody(c)
        PROVE  BodiesKept
    <2>1. heap \in [Pointers -> Descriptors]
      BY DEF Inv, RegistryOK
    <2>2. CASE ReceiveName(c)
      <3>1. PICK n : n = NameOf[Head(sock[c]).from]
        OBVIOUS
      <3>2. PICK p : heap' = [heap EXCEPT ![p].name = n]
        BY <2>2, <3>1 DEF ReceiveName
      <3>3. \A q \in Pointers : heap'[q].body = heap[q].body
        BY <2>1, <3>2 DEF Descriptors
      <3> QED
        BY <3>3 DEF BodiesKept
    <2>3. CASE ReceiveBody(c)
      <3>1. PICK b : b = BodyOf[Head(sock[c]).from]
        OBVIOUS
      <3>2. PICK p : heap' = [heap EXCEPT ![p].body = b]
        BY <2>3, <3>1 DEF ReceiveBody
      <3>3. Head(sock[c]).from \in Devices
        BY <2>3, AcceptedFacts DEF ReceiveBody, Frames
      <3>4. b # NoBody
        BY <3>1, <3>3, ServerAssumption
      <3>5. \A q \in Pointers : heap'[q].body \in {heap[q].body, b}
        BY <2>1, <3>2 DEF Descriptors
      <3> QED
        BY <3>4, <3>5 DEF BodiesKept
    <2> QED
      BY <1>2, <2>2, <2>3
  <1>3. ASSUME NEW c \in Cans, Receive(c), ~ReceiveName(c), ~ReceiveBody(c),
               \A why : ~Crash(why)
        PROVE  BodiesKept
    BY <1>1, <1>3
    DEF Receive, ReceiveLottery, ReceiveForDead, ReceiveConfirm, ReceiveId,
        ReceiveAlive, ReceiveTalk, RegisterNew, RegisterReplacing,
        RegisterHolding, Abort, process
  <1>4. ASSUME NEW f \in DOMAIN boards, Call(f), \A why : ~Crash(why)
        PROVE  BodiesKept
    BY <1>1, <1>4
    DEF Call, Query, Reboot, Substitute, Replace, Stray, Unnamed
  <1>5. ASSUME NEW d \in Devices, Device(d)
        PROVE  BodiesKept
    BY <1>1, <1>5
    DEF Device, PowerOn, PowerOff, Enter, Speak, Answer, Talk, process
  <1>6. ASSUME NEW c \in Cans, Bind(c) \/ Invite(c) \/ KeepAliveRound(c)
        PROVE  BodiesKept
    BY <1>1, <1>6 DEF Bind, Invite, KeepAliveRound, process
  <1>7. CASE UNCHANGED vars
    BY <1>1, <1>7 DEF vars, process
  <1> QED
    BY <1>2, <1>3, <1>4, <1>5, <1>6, <1>7 DEF Next, Panic
-----------------------------------------------------------------------------
(* The order in the queues, when frames are taken from their heads.        *)

(* s frames are gone. *)
Shifted(c, s) ==
  /\ Len(sock'[c]) + s = Len(sock[c])
  /\ \A i \in DOMAIN sock'[c] :
       i + s \in DOMAIN sock[c] /\ sock'[c][i] = sock[c][i + s]
  /\ \A j \in DOMAIN sock[c] :
       j <= s \/ (j - s \in DOMAIN sock'[c] /\ sock'[c][j - s] = sock[c][j])

(* What the one at the head said is known, unless it was for a dead handler *)
(* or for one whose address is not confirmed.                              *)
Handled(c) ==
  \A h, d, line :
    /\ h = Addressee(c) /\ d = Head(sock[c]).from
    /\ line = Head(sock[c]).kind /\ line \in Lines
    => \/ conn'[h].dead
       \/ line # "confirm" /\ ~conn'[h].addressed
       \/ Known(h, d, line)'

Served(c) == Shifted(c, 0) \/ (Shifted(c, 1) /\ Handled(c))

LEMMA TailShifted ==
  ASSUME Inv, NEW c \in Cans, sock[c] # <<>>, Consume(c)
  PROVE  Shifted(c, 1) /\ \A e \in Cans \ {c} : Shifted(e, 0)
  <1>1. sock[c] \in Seq(Frames) /\ sock'[c] = Tail(sock[c])
    BY DEF Inv, BusOK, Consume
  <1>2. /\ Len(sock[c]) \in Nat /\ DOMAIN sock[c] = 1 .. Len(sock[c])
        /\ sock'[c] \in Seq(Frames) /\ Len(sock'[c]) = Len(sock[c]) - 1
        /\ DOMAIN sock'[c] = 1 .. Len(sock'[c])
        /\ \A i \in DOMAIN sock'[c] :
             i + 1 \in DOMAIN sock[c] /\ sock'[c][i] = sock[c][i + 1]
    BY <1>1, HeadTailProperties
  <1>3. Shifted(c, 1)
    BY <1>2 DEF Shifted
  <1>4. ASSUME NEW e \in Cans, e # c
        PROVE  Shifted(e, 0)
    <2>1. sock'[e] = sock[e] /\ sock[e] \in Seq(Frames)
      BY <1>4 DEF Inv, BusOK, Consume
    <2>2. Len(sock[e]) \in Nat /\ DOMAIN sock[e] = 1 .. Len(sock[e])
      BY <2>1
    <2> QED
      BY <2>1, <2>2 DEF Shifted
  <1> QED
    BY <1>3, <1>4

LEMMA SameShifted ==
  ASSUME Inv, sock' = sock
  PROVE  \A c \in Cans : Served(c)
  <1> SUFFICES ASSUME NEW c \in Cans
               PROVE  Shifted(c, 0)
    BY DEF Served
  <1>1. sock[c] \in Seq(Frames)
    BY DEF Inv, BusOK
  <1>2. Len(sock[c]) \in Nat /\ DOMAIN sock[c] = 1 .. Len(sock[c])
    BY <1>1
  <1> QED
    BY <1>2 DEF Shifted

(* A frame that was ahead is ahead still, or was the head. *)
LEMMA AheadShifted ==
  ASSUME Inv, NEW c \in Cans, NEW s \in {0, 1}, Shifted(c, s),
         NEW n \in Nat, NEW h, NEW kind, Ahead(c, n + s, h, kind)
  PROVE  \/ Ahead(c, n, h, kind)'
         \/ /\ s = 1 /\ 1 \in DOMAIN sock[c] /\ sock[c][1].kind = kind
            /\ Place(c, 1) = h
  <1>1. PICK j \in DOMAIN sock[c] :
          j < n + s /\ sock[c][j].kind = kind /\ Place(c, j) = h
    BY DEF Ahead
  <1>2. j \in Nat /\ j >= 1
    BY DEF Inv, BusOK
  <1>3. CASE j <= s
    <2>1. j = 1 /\ s = 1
      BY <1>2, <1>3
    <2> QED
      BY <1>1, <2>1
  <1>4. CASE ~(j <= s)
    <2>1. PICK i : i = j - s
      OBVIOUS
    <2>2. i \in DOMAIN sock'[c] /\ sock'[c][i] = sock[c][j]
      BY <1>4, <2>1 DEF Shifted
    <2>3. i < n
      BY <1>1, <1>2, <2>1
    <2> QED
      BY <1>1, <2>2, <2>3 DEF Ahead, Place
  <1> QED
    BY <1>3, <1>4

LEMMA RankFacts ==
  /\ Rank("confirm") = 1 /\ Rank("name") = 2 /\ Rank("body") = 3
  /\ Rank("id") = 4 /\ Rank("init") = 5
  /\ \A kind \in {"lottery", "alive", "data", "event"} : Rank(kind) = 0
  /\ \A line \in Lines : Rank(line) \in 1 .. 4
  <1>1. \A line \in Lines : Rank(line) \in 1 .. 4
    BY DEF Rank, Lines
  <1> QED
    BY <1>1 DEF Rank

LEMMA KnownKept ==
  ASSUME Inv, AddressInv, ConnKept, BodiesKept, NEW h \in Handlers,
         NEW d \in Devices, Speaks(d, h), NEW line, Known(h, d, line)
  PROVE  Known(h, d, line)'
  <1>1. CASE line = "id" /\ IdOf[d] = NoId
    BY <1>1 DEF Known
  <1>2. CASE ~(line = "id" /\ IdOf[d] = NoId)
    <2>1. /\ conn[h].addressed
          /\ line # "confirm" => conn[h].desc # NoPointer
          /\ line = "body" => heap[conn[h].desc].body # NoBody
          /\ line = "id" => conn[h].id = IdOf[d]
      BY <1>2 DEF Known
    <2>2. conn'[h].addressed /\ (line # "confirm" => conn'[h].desc = conn[h].desc)
      BY <2>1 DEF ConnKept
    <2>3. line = "body" => heap'[conn'[h].desc].body # NoBody
      <3>1. line = "body" => conn[h].desc \in Pointers
        BY <2>1 DEF Inv, ConnOK, Connections
      <3> QED
        BY <2>1, <2>2, <3>1 DEF BodiesKept
    <2>4. line = "id" => conn'[h].id = IdOf[d]
      BY <2>1, OneVoice DEF ConnKept
    <2>5. line # "confirm" => conn'[h].desc # NoPointer
      BY <2>1, <2>2
    <2> QED
      BY <2>2, <2>3, <2>4, <2>5, Zenon DEF Known
  <1> QED
    BY <1>1, <1>2

LEMMA KnownBy ==
  ASSUME Inv, AddressInv, FramesInOrder, ConnKept, BodiesKept, NEW c \in Cans,
         NEW s \in {0, 1}, Shifted(c, s), s = 1 => Handled(c),
         NEW n \in Nat, NEW h \in Handlers, ~conn'[h].dead,
         NEW d \in Devices, Speaks(d, h), NEW line \in Lines, By(c, n + s, h, d, line)
  PROVE  By(c, n, h, d, line)'
  <1>1. CASE Known(h, d, line)
    BY <1>1, KnownKept DEF By
  <1>2. CASE Ahead(c, n + s, h, line) /\ ~Ahead(c, n, h, line)'
    <2>1. /\ s = 1 /\ 1 \in DOMAIN sock[c] /\ sock[c][1].kind = line
          /\ Place(c, 1) = h
      BY <1>2, AheadShifted
    <2>2. sock[c][1] = Head(sock[c]) /\ sock[c][1] \in Frames
      <3>1. sock[c] \in Seq(Frames) /\ sock[c] # <<>>
        BY <2>1 DEF Inv, BusOK
      <3> QED
        BY <2>1, <3>1, HeadTailProperties
    <2>3. Addressee(c) = h /\ sock[c][1].from \in Devices
      BY <2>1, <2>2 DEF Place, Addressee, Frames
    <2>4. 1 \in Addressed(c)
      BY <2>1 DEF Addressed, Lines
    <2>5. sock[c][1].from = d
      BY <2>1, <2>3, <2>4, OneVoice DEF Speaks
    <2>6. \A kind : ~Ahead(c, 1, h, kind)
      BY DEF Ahead, Inv, BusOK
    <2>7. line # "confirm" => conn'[h].addressed
      <3>1. line # "confirm" => Rank("confirm") < Rank(line)
        BY RankFacts DEF Lines
      <3>2. ~conn[h].dead
        BY DEF ConnKept
      <3>3. line # "confirm" => By(c, 1, h, d, "confirm")
        BY <2>1, <2>5, <3>1, <3>2 DEF FramesInOrder, Lines
      <3> QED
        BY <2>6, <3>3 DEF By, Known, ConnKept
    <2>8. Known(h, d, line)'
      BY <2>1, <2>2, <2>3, <2>5, <2>7 DEF Handled
    <2> QED
      BY <2>8 DEF By
  <1>3. CASE Ahead(c, n, h, line)'
    BY <1>3 DEF By
  <1> QED
    BY <1>1, <1>2, <1>3 DEF By

(* A board that is joining has said no more than before. *)
Progress(d) ==
  Joining(d)' => \/ device'[d].told = 0
                 \/ /\ Joining(d) /\ Slot(d)' = Slot(d)
                    /\ device'[d].told = device[d].told

LEMMA OrderServed ==
  ASSUME Inv, Inv', AddressInv, AddressInv', OrderInv, ConnKept, BodiesKept,
         \A c \in Cans : Served(c), \A d \in Devices : Progress(d)
  PROVE  OrderInv'
  <1>1. \A h \in pool' : h \in Handlers
    BY DEF Inv, RegistryOK
  <1>2. FramesInOrder'
    <2> SUFFICES ASSUME NEW c \in Cans, NEW i \in DOMAIN sock'[c], NEW line \in Lines,
                        Rank(line) < Rank(sock'[c][i].kind),
                        NEW h, h = Place(c, i)', ~conn'[h].dead,
                        NEW d, d = sock'[c][i].from
                 PROVE  By(c, i, h, d, line)'
      BY DEF FramesInOrder
    <2>0. sock'[c][i].kind # "lottery"
      BY RankFacts
    <2>1. h \in Handlers
      BY <1>1, <2>0 DEF AddressInv, SpeakersKnown, Addressed
    <2>2. PICK s \in {0, 1} : Shifted(c, s) /\ (s = 1 => Handled(c))
      BY DEF Served
    <2>3. PICK k : k = i + s
      OBVIOUS
    <2>4. /\ k \in DOMAIN sock[c] /\ sock[c][k] = sock'[c][i] /\ Place(c, k) = h
          /\ i \in Nat
      BY <2>2, <2>3 DEF Shifted, Place, Inv, BusOK
    <2>5. d = sock[c][k].from /\ d \in Devices
      <3>1. sock[c][k] \in Frames
        BY <2>4 DEF Inv, BusOK
      <3> QED
        BY <2>4, <3>1 DEF Frames
    <2>6. Speaks(d, h)
      BY <2>0, <2>4, <2>5 DEF Speaks, Addressed
    <2>7. ~conn[h].dead
      BY <2>1 DEF ConnKept
    <2>8. By(c, i + s, h, d, line)
      BY <2>3, <2>4, <2>5, <2>7 DEF OrderInv, FramesInOrder
    <2> QED
      BY <2>1, <2>2, <2>4, <2>5, <2>6, <2>8, KnownBy DEF OrderInv
  <1>3. ToldInOrder'
    <2> SUFFICES ASSUME NEW d \in Devices, NEW c, c = BusOf[d], NEW line \in Lines,
                        NEW h, h = Slot(d)', NEW n, n = Len(sock'[c]) + 1,
                        Joining(d)', ~conn'[h].dead, Rank(line) <= device'[d].told
                 PROVE  By(c, n, h, d, line)'
      BY DEF ToldInOrder
    <2>1. Joining(d) /\ Slot(d)' = Slot(d) /\ device'[d].told = device[d].told
      BY RankFacts DEF Progress
    <2>2. h \in Handlers /\ c \in Cans
      BY <1>1, ServerAssumption DEF Joining, AddressInv, SpeakersKnown
    <2>3. PICK s \in {0, 1} : Shifted(c, s) /\ (s = 1 => Handled(c))
      BY <2>2 DEF Served
    <2>4. n \in Nat /\ n + s = Len(sock[c]) + 1
      BY <2>2, <2>3 DEF Shifted, Inv, BusOK
    <2>5. ~conn[h].dead /\ Speaks(d, h) /\ h = Slot(d)
      BY <2>1, <2>2 DEF ConnKept, Speaks, Joining
    <2>6. By(c, n + s, h, d, line)
      BY <2>1, <2>4, <2>5 DEF OrderInv, ToldInOrder
    <2> QED
      BY <2>2, <2>3, <2>4, <2>5, <2>6, KnownBy DEF OrderInv
  <1> QED
    BY <1>2, <1>3 DEF OrderInv
-----------------------------------------------------------------------------
(* The order in the queues, when a board speaks.                           *)

(* While no slot is given away nobody speaks and nobody is registered.      *)
LEMMA QuietVoices ==
  ASSUME AddressInv', pool' = {}
  PROVE  /\ \A d \in Devices : \A h : ~Speaks(d, h)'
         /\ Registered' = {} /\ OrderInv'
  <1>1. \A d \in Devices : ~OnAir(d)'
    BY DEF AddressInv, SpeakersKnown
  <1>2. \A c \in Cans : Addressed(c)' = {}
    BY DEF AddressInv, SpeakersKnown
  <1>3. Registered' = {}
    BY DEF AddressInv, RegisteredOnce
  <1>4. FramesInOrder'
    BY <1>2, RankFacts DEF FramesInOrder, Addressed
  <1>5. ToldInOrder'
    BY <1>1 DEF ToldInOrder, Joining
  <1> QED
    BY <1>1, <1>2, <1>3, <1>4, <1>5 DEF Speaks, OrderInv

(* Frames are added behind the others. *)
Grown ==
  \A c \in Cans : \A i \in DOMAIN sock[c] :
    i \in DOMAIN sock'[c] /\ sock'[c][i] = sock[c][i]

LEMMA KnownGrown ==
  ASSUME Inv, Grown, UNCHANGED <<conn, heap>>, NEW c \in Cans,
         NEW n \in Nat, NEW m \in Nat, n <= m,
         NEW h, NEW d, NEW line, By(c, n, h, d, line)
  PROVE  By(c, m, h, d, line)'
  <1>1. Known(h, d, line) => Known(h, d, line)'
    BY DEF Known
  <1>2. CASE Ahead(c, n, h, line)
    <2>1. PICK j \in DOMAIN sock[c] :
            j < n /\ sock[c][j].kind = line /\ Place(c, j) = h
      BY <1>2 DEF Ahead
    <2>2. j \in DOMAIN sock'[c] /\ sock'[c][j] = sock[c][j]
      BY DEF Grown
    <2>3. j \in Nat
      BY DEF Inv, BusOK
    <2>4. j < m
      BY <2>1, <2>3
    <2> QED
      BY <2>1, <2>2, <2>4 DEF By, Ahead, Place
  <1> QED
    BY <1>1, <1>2 DEF By

LEMMA ScriptKinds ==
  ASSUME NEW d \in Devices
  PROVE  /\ Script(d)[1] = "confirm" /\ Script(d)[2] = "name" /\ Script(d)[3] = "body"
         /\ IdOf[d] = NoId => Len(Script(d)) = 4 /\ Script(d)[4] = "init"
         /\ IdOf[d] # NoId => /\ Len(Script(d)) = 5 /\ Script(d)[4] = "id"
                              /\ Script(d)[5] = "init"
  <1>1. CASE IdOf[d] = NoId
    BY <1>1 DEF Script
  <1>2. CASE IdOf[d] # NoId
    BY <1>2 DEF Script
  <1> QED
    BY <1>1, <1>2

(* What comes before a frame of the script was said before it, and nothing  *)
(* but an id is left out.                                                  *)
LEMMA ScriptRanks ==
  ASSUME NEW d \in Devices, NEW t \in 1 .. Len(Script(d)), NEW line \in Lines,
         ~(line = "id" /\ IdOf[d] = NoId)
  PROVE  /\ Rank(line) < Rank(Script(d)[t]) => Rank(line) < t
         /\ t < Len(Script(d)) /\ Rank(line) <= t =>
              Rank(line) < t \/ line = Script(d)[t]
  <1>1. PICK kind : kind = Script(d)[t]
    OBVIOUS
  <1>2. PICK l \in {4, 5} : /\ l = Len(Script(d))
                            /\ l = 4 <=> IdOf[d] = NoId
    BY ScriptKinds
  <1>3. t \in 1 .. l
    BY <1>2
  <1>4. /\ t = 1 => kind = "confirm"
        /\ t = 2 => kind = "name"
        /\ t = 3 => kind = "body"
        /\ t = 4 => kind = IF l = 4 THEN "init" ELSE "id"
        /\ t = 5 => kind = "init"
    BY <1>1, <1>2, <1>3, ScriptKinds
  <1>5. line = "id" => l = 5
    BY <1>2
  <1>6. /\ Rank(line) < Rank(kind) => Rank(line) < t
        /\ t < l /\ Rank(line) <= t => Rank(line) < t \/ line = kind
    <2>1. line \in {"confirm", "name", "body", "id"}
      BY DEF Lines
    <2> QED
      BY <1>3, <1>4, <1>5, <2>1, RankFacts
  <1> QED
    BY <1>1, <1>2, <1>6

(* A frame that is heard goes to the end of the queue of its bus.           *)
LEMMA SendGrown ==
  ASSUME Inv, ~EarlyFrames, NEW d \in Devices, NEW kind \in Kinds,
         NEW spent \in Failures, Send(d, kind, spent), NothingLost'
  PROVE  LET c == BusOf[d]
             n == Len(sock[c]) + 1
         IN  /\ c \in Cans /\ n \in Nat
             /\ \/ sock' = sock /\ can[c] # "invited"
                \/ /\ can[c] = "invited"
                   /\ Grown /\ Len(sock'[c]) = n /\ n \in DOMAIN sock'[c]
                   /\ sock'[c][n].kind = kind /\ sock'[c][n].from = d
                   /\ <<c, sock'[c][n].node>> = Slot(d)
                   /\ \A i \in DOMAIN sock'[c] : i # n => i \in DOMAIN sock[c]
                   /\ \A e \in Cans \ {c} : sock'[e] = sock[e]
  <1> DEFINE c == BusOf[d]
             n == Len(sock[c]) + 1
             frame == [kind |-> kind, from |-> d, node |-> device[d].node]
  <1>1. c \in Cans
    BY ServerAssumption
  <1>2. sock[c] \in Seq(Frames) /\ n \in Nat
    BY <1>1 DEF Inv, BusOK
  <1>3. ~FrameIsLost(spent)
    BY DEF FrameIsLost, NothingLost, Failures
  <1>4. CASE sock' = sock /\ ~Listening(c)
    BY <1>1, <1>2, <1>4 DEF Listening
  <1>5. CASE sock' = [sock EXCEPT ![c] = Append(@, frame)] /\ Listening(c)
    <2>1. can[c] = "invited"
      BY <1>5 DEF Listening
    <2>2. sock'[c] = Append(sock[c], frame)
      BY <1>1, <1>5 DEF Inv, BusOK
    <2>3. frame \in Frames
      BY DEF Frames, Inv, DeviceOK, DeviceStates
    <2>4. frame.kind = kind /\ frame.from = d /\ frame.node = device[d].node
      OBVIOUS
    <2> HIDE DEF frame
    <2>5. /\ Len(sock'[c]) = n /\ n \in DOMAIN sock'[c] /\ sock'[c][n] = frame
          /\ \A i \in DOMAIN sock'[c] : i # n => i \in DOMAIN sock[c]
          /\ \A i \in DOMAIN sock[c] :
               i \in DOMAIN sock'[c] /\ sock'[c][i] = sock[c][i]
      BY <1>2, <2>2, <2>3, AppendProperties
    <2>6. \A e \in Cans \ {c} : sock'[e] = sock[e]
      BY <1>5 DEF Inv, BusOK
    <2>7. Grown
      BY <2>5, <2>6 DEF Grown
    <2>8. <<c, sock'[c][n].node>> = Slot(d)
      BY <2>4, <2>5 DEF Slot
    <2> QED
      BY <1>1, <1>2, <2>1, <2>4, <2>5, <2>6, <2>7, <2>8
  <1> QED
    BY <1>3, <1>4, <1>5 DEF Send, Deliver

(* Nobody is past a point of its script without having passed it. *)
LEMMA OrderSent ==
  ASSUME Inv, Inv', AddressInv, OrderInv, UNCHANGED <<conn, heap>>,
         NEW d \in Devices, NEW c \in Cans, c = BusOf[d],
         NEW h, h = Slot(d), NEW n \in Nat, n = Len(sock[c]) + 1,
         Grown, Len(sock'[c]) = n, n \in DOMAIN sock'[c],
         <<c, sock'[c][n].node>> = h, sock'[c][n].from = d,
         \A i \in DOMAIN sock'[c] : i # n => i \in DOMAIN sock[c],
         \A e \in Cans \ {c} : sock'[e] = sock[e],
         \A e \in Devices \ {d} : Progress(e),
         \A line \in Lines : Rank(line) < Rank(sock'[c][n].kind) =>
           Joining(d) /\ (Rank(line) <= device[d].told \/ Known(h, d, line)),
         Joining(d)' =>
           /\ Joining(d) /\ Slot(d)' = h
           /\ \A line \in Lines : Rank(line) <= device'[d].told =>
                \/ Rank(line) <= device[d].told \/ Known(h, d, line)
                \/ line = sock'[c][n].kind
  PROVE  OrderInv'
  <1>0. ASSUME Joining(d), ~conn[h].dead, NEW line \in Lines,
               Rank(line) <= device[d].told \/ Known(h, d, line)
        PROVE  By(c, n, h, d, line)
    BY <1>0 DEF OrderInv, ToldInOrder, By
  <1>1. FramesInOrder'
    <2> SUFFICES ASSUME NEW e \in Cans, NEW i \in DOMAIN sock'[e], NEW line \in Lines,
                        Rank(line) < Rank(sock'[e][i].kind),
                        NEW g, g = Place(e, i)', ~conn'[g].dead,
                        NEW b, b = sock'[e][i].from
                 PROVE  By(e, i, g, b, line)'
      BY DEF FramesInOrder
    <2>1. i \in Nat
      BY DEF Inv, BusOK
    <2>2. CASE e = c /\ i = n
      <3>1. g = h /\ b = d /\ ~conn[h].dead
        BY <2>2 DEF Place
      <3>2. By(c, n, h, d, line)
        BY <1>0, <2>2, <3>1
      <3> QED
        BY <2>2, <3>1, <3>2, KnownGrown
    <2>3. CASE ~(e = c /\ i = n)
      <3>1. i \in DOMAIN sock[e]
        BY <2>3
      <3>2. sock'[e][i] = sock[e][i] /\ g = Place(e, i)
        BY <3>1 DEF Grown, Place
      <3>3. By(e, i, g, b, line)
        BY <3>1, <3>2 DEF OrderInv, FramesInOrder
      <3> QED
        BY <2>1, <3>3, KnownGrown
    <2> QED
      BY <2>2, <2>3
  <1>2. ToldInOrder'
    <2> SUFFICES ASSUME NEW e \in Devices, NEW b \in Cans, b = BusOf[e],
                        NEW line \in Lines,
                        NEW g, g = Slot(e)', NEW m, m = Len(sock'[b]) + 1,
                        Joining(e)', ~conn'[g].dead, Rank(line) <= device'[e].told
                 PROVE  By(b, m, g, e, line)'
      BY ServerAssumption DEF ToldInOrder
    <2>1. PICK k \in Nat : k = Len(sock[b]) + 1
      BY DEF Inv, BusOK
    <2>2. m \in Nat /\ k <= m
      <3>1. b = c => m = n + 1 /\ k = n
        BY <2>1
      <3>2. b # c => m = k
        BY <2>1
      <3> QED
        BY <2>1, <3>1, <3>2
    <2>3. CASE e # d
      <3>1. Joining(e) /\ g = Slot(e) /\ device'[e].told = device[e].told
        BY <2>3, RankFacts DEF Progress
      <3>2. By(b, k, g, e, line)
        BY <2>1, <3>1 DEF OrderInv, ToldInOrder
      <3> QED
        BY <2>1, <2>2, <3>2, KnownGrown
    <2>4. CASE e = d
      <3>1. Joining(d) /\ g = h /\ b = c /\ k = n /\ m = n + 1 /\ ~conn[h].dead
        BY <2>1, <2>4
      <3>2. CASE Rank(line) <= device[d].told \/ Known(h, d, line)
        <4>1. By(c, n, h, d, line)
          BY <1>0, <3>1, <3>2
        <4> QED
          BY <2>1, <2>2, <2>4, <3>1, <4>1, KnownGrown
      <3>3. CASE line = sock'[c][n].kind
        <4>1. n < m
          BY <3>1
        <4>2. Ahead(c, m, h, line)'
          BY <3>3, <4>1 DEF Ahead, Place
        <4> QED
          BY <2>4, <3>1, <4>2 DEF By
      <3> QED
        BY <2>4, <3>2, <3>3
    <2> QED
      BY <2>3, <2>4
  <1> QED
    BY <1>1, <1>2 DEF OrderInv

LEMMA SpeakOrder ==
  ASSUME Inv, Inv', AddressInv, AddressInv', OrderInv, ~EarlyFrames,
         NEW d \in Devices, Speak(d), NothingLost'
  PROVE  OrderInv'
  <1> DEFINE told == device[d].told + 1
             r == [device[d] EXCEPT !.told = told,
                     !.phase = IF told = Len(Script(d)) THEN "waiting" ELSE @]
             kind == Script(d)[told]
  <1>0. /\ device[d] \in DeviceStates /\ device[d].phase = "joining"
        /\ device[d].told < Len(Script(d)) /\ device[d].told \in Nat
    BY DEF Speak, Inv, DeviceOK, Board, DeviceStates
  <1>1. /\ told \in 1 .. Len(Script(d)) /\ told \in Nat
    BY <1>0, ScriptFacts
  <1>2. kind \in Kinds /\ failures \in Failures /\ Send(d, kind, failures)
    BY <1>1, ScriptFacts DEF Speak, Inv, BusOK
  <1>3. /\ r.node = device[d].node /\ r.told = told
        /\ r.phase = "joining" => told < Len(Script(d))
    BY <1>0, <1>1, ScriptFacts DEF DeviceStates
  <1>4. /\ UNCHANGED <<conn, heap, pool, can>>
        /\ device' = [device EXCEPT ![d] = r]
    BY DEF Speak, process
  <1> HIDE DEF r
  <1>5. device'[d] = r /\ \A e \in Devices \ {d} : device'[e] = device[e]
    BY <1>4 DEF Inv, DeviceOK
  <1>6. Slot(d)' = Slot(d)
    BY <1>3, <1>5 DEF Slot
  <1>7. \A e \in Devices \ {d} : Progress(e)
    BY <1>4, <1>5 DEF Progress, Joining, OnAir, Slot
  <1>8. CASE sock' = sock /\ can[BusOf[d]] # "invited"
    <2>1. Progress(d)
      BY <1>4, <1>8 DEF Progress, Joining, OnAir
    <2>2. \A e \in Devices : Progress(e)
      BY <1>7, <2>1
    <2>3. ConnKept /\ BodiesKept
      BY <1>4 DEF ConnKept, BodiesKept
    <2> QED
      BY <1>8, <2>2, <2>3, SameShifted, OrderServed
  <1>9. CASE ~(sock' = sock /\ can[BusOf[d]] # "invited")
    <2>0. PICK c \in Cans, n \in Nat : c = BusOf[d] /\ n = Len(sock[c]) + 1
      BY <1>2, SendGrown
    <2>1. PICK h : c = BusOf[d] /\ h = Slot(d) /\ n = Len(sock[c]) + 1
      BY <2>0
    <2>2. /\ can[c] = "invited"
          /\ Grown /\ Len(sock'[c]) = n /\ n \in DOMAIN sock'[c]
          /\ sock'[c][n].kind = kind /\ sock'[c][n].from = d
          /\ <<c, sock'[c][n].node>> = h
          /\ \A i \in DOMAIN sock'[c] : i # n => i \in DOMAIN sock[c]
          /\ \A e \in Cans \ {c} : sock'[e] = sock[e]
      BY <1>2, <1>9, <2>1, SendGrown
    <2>3. Joining(d)
      BY <1>0, <2>1, <2>2
      DEF Joining, OnAir, AddressInv, BoardsTidy, Tidy, OffBus
    <2>4. \A line \in Lines : line = "id" /\ IdOf[d] = NoId => Known(h, d, line)
      BY DEF Known
    <2>5. ASSUME NEW line \in Lines
          PROVE  Rank(line) < told <=> Rank(line) <= device[d].told
      BY <1>0, RankFacts
    <2>6. \A line \in Lines : Rank(line) < Rank(kind) =>
            Rank(line) <= device[d].told \/ Known(h, d, line)
      <3> HIDE DEF told
      <3> QED
        BY <1>1, <2>4, <2>5, ScriptRanks
    <2>7. Joining(d)' => told < Len(Script(d))
      BY <1>3, <1>5 DEF Joining
    <2>8. Joining(d)' => \A line \in Lines : Rank(line) <= told =>
            \/ Rank(line) <= device[d].told \/ Known(h, d, line)
            \/ line = kind
      <3> HIDE DEF told
      <3> QED
        BY <1>1, <2>4, <2>5, <2>7, ScriptRanks
    <2>9. device'[d].told = told /\ Slot(d)' = h
      BY <1>3, <1>5, <1>6, <2>1
    <2> HIDE DEF kind, told
    <2> QED
      BY <1>4, <1>7, <2>1, <2>2, <2>3, <2>6, <2>8, <2>9, OrderSent
  <1> QED
    BY <1>8, <1>9

(* What else a board sends is not part of its script. *)
LEMMA OtherOrder ==
  ASSUME Inv, Inv', AddressInv, AddressInv', OrderInv, ~EarlyFrames,
         NEW d \in Devices, NEW kind \in {"lottery", "alive", "data", "event"},
         NEW spent \in Failures, Send(d, kind, spent),
         UNCHANGED <<conn, heap, pool>>, NothingLost',
         \A e \in Devices : Joining(e)' =>
           Joining(e) /\ Slot(e)' = Slot(e) /\ device'[e].told = device[e].told
  PROVE  OrderInv'
  <1>0. \A e \in Devices : Progress(e)
    BY DEF Progress
  <1>1. ConnKept /\ BodiesKept
    BY DEF ConnKept, BodiesKept
  <1>2. CASE sock' = sock
    BY <1>0, <1>1, <1>2, SameShifted, OrderServed
  <1>3. CASE sock' # sock
    <2>0. kind \in Kinds
      BY DEF Kinds
    <2>1. PICK c \in Cans, n \in Nat : c = BusOf[d] /\ n = Len(sock[c]) + 1
      BY <2>0, SendGrown
    <2>2. PICK h : c = BusOf[d] /\ h = Slot(d) /\ n = Len(sock[c]) + 1
      BY <2>1
    <2>3. /\ Grown /\ Len(sock'[c]) = n /\ n \in DOMAIN sock'[c]
          /\ sock'[c][n].kind = kind /\ sock'[c][n].from = d
          /\ <<c, sock'[c][n].node>> = h
          /\ \A i \in DOMAIN sock'[c] : i # n => i \in DOMAIN sock[c]
          /\ \A e \in Cans \ {c} : sock'[e] = sock[e]
      BY <1>3, <2>0, <2>2, SendGrown
    <2>4. Joining(d)' =>
            Joining(d) /\ Slot(d)' = h /\ device'[d].told = device[d].told
      BY <2>2
    <2>5. \A line \in Lines : ~(Rank(line) < Rank(kind))
      BY RankFacts
    <2> QED
      BY <1>0, <2>2, <2>3, <2>4, <2>5, OrderSent
  <1> QED
    BY <1>2, <1>3

LEMMA ObeyedJoins ==
  ASSUME NEW r \in DeviceStates, NEW command
  PROVE  Obeyed(r, command).phase = "joining" => Obeyed(r, command) = r
  <1>1. CASE Obeyed(r, command) = Without("lottery")
    BY <1>1 DEF Without
  <1>2. CASE Obeyed(r, command) = r
    BY <1>2
  <1>3. CASE \/ Obeyed(r, command) = [r EXCEPT !.phase = "operational"]
             \/ Obeyed(r, command) = [r EXCEPT !.phase = "waiting"]
    BY <1>3 DEF DeviceStates
  <1> QED
    BY <1>1, <1>2, <1>3 DEF Obeyed

LEMMA OrdersProgress ==
  ASSUME Inv, NEW given, NEW spent, Orders(given, spent), can' = can
  PROVE  \A d \in Devices : Progress(d)
  <1> SUFFICES ASSUME NEW d \in Devices, Joining(d)'
               PROVE  device'[d] = device[d]
    BY DEF Progress, Joining, OnAir, Slot
  <1>1. \/ device'[d] = device[d]
        \/ \E command : device'[d] = Obeyed(device[d], command)
    BY DEF Orders
  <1>2. device[d] \in DeviceStates
    BY DEF Inv, DeviceOK
  <1> QED
    BY <1>1, <1>2, ObeyedJoins DEF Joining

LEMMA SameProgress ==
  ASSUME can' = can,
         \A d \in Devices : device'[d].phase = "joining" =>
           \/ device'[d].told = 0
           \/ /\ device[d].phase = "joining" /\ device'[d].told = device[d].told
              /\ device'[d].node = device[d].node
  PROVE  \A d \in Devices : Progress(d)
  BY DEF Progress, Joining, OnAir, Slot

LEMMA DeviceOrder ==
  ASSUME Inv, Inv', AddressInv, AddressInv', OrderInv, ~EarlyFrames,
         NEW d \in Devices, Device(d), NothingLost'
  PROVE  OrderInv'
  <1>1. CASE PowerOn(d) \/ PowerOff(d)
    <2>1. /\ UNCHANGED <<conn, heap, pool, sock, can>>
          /\ \E phase \in {"off", "lottery"} :
               device' = [device EXCEPT ![d] = Without(phase)]
      BY <1>1 DEF PowerOn, PowerOff, process
    <2>2. \A e \in Devices : device'[e].phase = "joining" => device'[e] = device[e]
      BY <2>1 DEF Without, Inv, DeviceOK
    <2>3. \A e \in Devices : Progress(e)
      BY <2>1, <2>2, SameProgress
    <2>4. ConnKept /\ BodiesKept
      BY <2>1 DEF ConnKept, BodiesKept
    <2> QED
      BY <2>1, <2>3, <2>4, SameShifted, OrderServed
  <1>2. CASE Enter(d) \/ \E kind \in Chatter : Talk(d, kind)
    <2>1. PICK kind \in {"lottery", "alive", "data", "event"}, spent \in Failures :
            Send(d, kind, spent)
      BY <1>2, EnterSends, ServerAssumption DEF Talk, Inv, BusOK
    <2>2. UNCHANGED <<conn, heap, pool, can, device>>
      BY <1>2 DEF Enter, Talk, process
    <2>3. \A e \in Devices : Joining(e)' =>
            Joining(e) /\ Slot(e)' = Slot(e) /\ device'[e].told = device[e].told
      BY <2>2 DEF Joining, OnAir, Slot
    <2> QED
      BY <2>1, <2>2, <2>3, OtherOrder
  <1>3. CASE Speak(d)
    BY <1>3, SpeakOrder
  <1>4. CASE Answer(d)
    <2>1. /\ Send(d, "alive", failures) /\ failures \in Failures
          /\ UNCHANGED <<conn, heap, pool, can>>
          /\ device' = [device EXCEPT ![d].asked = FALSE]
      BY <1>4 DEF Answer, process, Inv, BusOK
    <2>2. \A e \in Devices : /\ device'[e].phase = device[e].phase
                             /\ device'[e].node = device[e].node
                             /\ device'[e].told = device[e].told
      BY <2>1 DEF Inv, DeviceOK, DeviceStates
    <2>3. \A e \in Devices : Joining(e)' =>
            Joining(e) /\ Slot(e)' = Slot(e) /\ device'[e].told = device[e].told
      BY <2>1, <2>2 DEF Joining, OnAir, Slot
    <2> QED
      BY <2>1, <2>3, OtherOrder
  <1> QED
    BY <1>1, <1>2, <1>3, <1>4 DEF Device

(* A frame is received: it is the first of its queue. *)
LEMMA ReceiveOrder ==
  ASSUME Inv, Inv', AddressInv, AddressInv', OrderInv, ConnKept, BodiesKept,
         NEW c \in Cans, Receive(c), ~Abort(c)
  PROVE  OrderInv'
  <1> DEFINE h == Addressee(c)
  <1>1. sock[c] # <<>> /\ Consume(c)
    BY
    DEF Receive, ReceiveLottery, ReceiveForDead, ReceiveConfirm, ReceiveName,
        ReceiveBody, ReceiveId, ReceiveAlive, ReceiveTalk, RegisterNew,
        RegisterReplacing, RegisterHolding, InitAccepted, InitComplete,
        Accepted, Received
  <1>2. can' = can
    BY <1>1 DEF Consume
  <1>3. Handled(c)
    <2>1. CASE ReceiveForDead(c)
      BY <2>1 DEF ReceiveForDead, Handled, process
    <2>2. CASE ReceiveConfirm(c)
      <3>1. h \in Handlers /\ conn[h] \in Connections /\ Head(sock[c]).kind = "confirm"
        BY <2>2, AcceptedFacts DEF ReceiveConfirm, Accepted, Received
      <3>2. conn'[h] = Confirmed(conn[h])
        BY <2>2, <3>1 DEF ReceiveConfirm, Inv, ConnOK
      <3>3. conn'[h].addressed
        BY <3>1, <3>2, ConfirmedFacts
      <3> QED
        BY <3>1, <3>3 DEF Handled, Known
    <2>3. CASE ReceiveName(c)
      <3>1. h \in Handlers /\ conn[h] \in Connections /\ Head(sock[c]).kind = "name"
        BY <2>3, AcceptedFacts DEF ReceiveName, Accepted, Received
      <3>2. conn'[h] = Described(h, conn[h])
        BY <2>3, <3>1 DEF ReceiveName, Inv, ConnOK
      <3>3. conn'[h].desc # NoPointer
        BY <3>1, <3>2, DescribedFacts, ConnectionAssumption
      <3> QED
        BY <3>1, <3>3 DEF Handled, Known
    <2>4. CASE ReceiveBody(c)
      <3>1. /\ h \in Handlers /\ conn[h] \in Connections /\ Head(sock[c]).kind = "body"
            /\ Head(sock[c]) \in Frames /\ conn' = conn /\ conn[h].desc # NoPointer
        BY <2>4, AcceptedFacts DEF ReceiveBody, Accepted, Received
      <3>2. BodyOf[Head(sock[c]).from] # NoBody
        BY <3>1, ServerAssumption DEF Frames
      <3>3. conn[h].desc \in Pointers /\ heap[conn[h].desc] \in Descriptors
        BY <3>1 DEF Connections, Inv, RegistryOK
      <3>4. heap'[conn[h].desc].body = BodyOf[Head(sock[c]).from]
        BY <2>4, <3>3 DEF ReceiveBody, Inv, RegistryOK, Descriptors
      <3> QED
        BY <3>1, <3>2, <3>4 DEF Handled, Known
    <2>5. CASE ReceiveId(c)
      <3>1. /\ h \in Handlers /\ conn[h] \in Connections /\ Head(sock[c]).kind = "id"
            /\ Head(sock[c]) \in Frames /\ conn[h].desc # NoPointer
        BY <2>5, AcceptedFacts DEF ReceiveId, Accepted, Received
      <3>2. Head(sock[c]).from \in Devices
        BY <3>1 DEF Frames
      <3>3. conn'[h] = Identified(conn[h], IdOf[Head(sock[c]).from])
        BY <2>5, <3>1 DEF ReceiveId, Inv, ConnOK
      <3>4. /\ conn'[h].id = IdOf[Head(sock[c]).from]
            /\ conn'[h].desc # NoPointer
        BY <3>1, <3>2, <3>3, IdentifiedFacts, ServerAssumption
      <3> QED
        BY <3>1, <3>4 DEF Handled, Known
    <2>6. CASE ~(\/ ReceiveForDead(c) \/ ReceiveConfirm(c) \/ ReceiveName(c)
                 \/ ReceiveBody(c) \/ ReceiveId(c))
      <3>1. Head(sock[c]).kind \in {"lottery", "alive", "event", "data", "init"}
        BY <2>6
        DEF Receive, ReceiveLottery, ReceiveAlive,
            ReceiveTalk, RegisterNew, RegisterReplacing, RegisterHolding,
            InitAccepted, InitComplete, Accepted, Received
      <3> QED
        BY <3>1 DEF Handled, Lines
    <2> QED
      BY <2>1, <2>2, <2>3, <2>4, <2>5, <2>6
  <1>4. \A e \in Cans : Served(e)
    BY <1>1, <1>3, TailShifted DEF Served
  <1>5. \A d \in Devices : Progress(d)
    <2>1. CASE device' = device
      BY <1>2, <2>1, SameProgress
    <2>2. CASE ReceiveLottery(c)
      <3>1. PICK n : \/ device' = device
                     \/ \E d \in Devices : device' = [device EXCEPT
                          ![d] = [Without("joining") EXCEPT !.node = n]]
        BY <2>2, <1>1, ReceivedFacts DEF ReceiveLottery, Frames, Inv
      <3> DEFINE r == [Without("joining") EXCEPT !.node = n]
      <3>2. r.told = 0
        BY DEF Without
      <3> HIDE DEF r
      <3>3. \A d \in Devices : device'[d] \in {device[d], r}
        BY <3>1 DEF Inv, DeviceOK, r
      <3> QED
        BY <1>2, <3>2, <3>3, SameProgress
    <2>3. CASE RegisterNew(c) \/ RegisterReplacing(c)
      <3>1. PICK given : Orders(given, failures)
        BY <2>3 DEF RegisterNew, RegisterReplacing, Start, Command
      <3> QED
        BY <1>2, <3>1, OrdersProgress
    <2> QED
      BY <2>1, <2>2, <2>3
      DEF Receive, ReceiveForDead, ReceiveConfirm, ReceiveName,
          ReceiveBody, ReceiveId, ReceiveAlive, ReceiveTalk, RegisterHolding
  <1> QED
    BY <1>4, <1>5, OrderServed

LEMMA OrderSteps ==
  ASSUME Inv, Inv', AddressInv, AddressInv', OrderInv, ~EarlyFrames,
         [Next]_vars, NothingLost'
  PROVE  OrderInv'
  <1>1. ASSUME pool' = {}
        PROVE  OrderInv'
    BY <1>1, QuietVoices
  <1>2. ASSUME NEW why, Crash(why)
        PROVE  OrderInv'
    BY <1>1, <1>2 DEF Crash
  <1>3. ASSUME ConnKept, BodiesKept, sock' = sock, \A d \in Devices : Progress(d)
        PROVE  OrderInv'
    BY <1>3, SameShifted, OrderServed
  <1>4. (ConnKept /\ BodiesKept) \/ \E why : Crash(why)
    BY ConnKeptSteps, BodiesKeptSteps
  <1>5. ASSUME NEW c \in Cans, Bind(c) \/ Invite(c)
        PROVE  OrderInv'
    BY <1>1, <1>5, NobodyOnAir DEF Bind, Invite, Up, process
  <1>6. ASSUME NEW c \in Cans, KeepAliveRound(c)
        PROVE  OrderInv'
    <2>1. /\ can' = can /\ sock' = sock
          /\ \A d \in Devices :
               device'[d] \in {device[d], [device[d] EXCEPT !.asked = TRUE]}
      BY <1>6 DEF KeepAliveRound
    <2>2. \A d \in Devices : device[d] \in DeviceStates
      BY DEF Inv, DeviceOK
    <2>3. \A d \in Devices : /\ device'[d].phase = device[d].phase
                             /\ device'[d].node = device[d].node
                             /\ device'[d].told = device[d].told
      BY <2>1, <2>2 DEF DeviceStates
    <2> QED
      BY <1>2, <1>3, <1>4, <2>1, <2>3, SameProgress
  <1>7. ASSUME NEW c \in Cans, Receive(c)
        PROVE  OrderInv'
    BY <1>2, <1>4, <1>7, ReceiveOrder DEF Abort
  <1>8. ASSUME NEW f \in DOMAIN boards, Call(f)
        PROVE  OrderInv'
    <2>1. CASE \E given, spent : Orders(given, spent) /\ can' = can /\ sock' = sock
      BY <1>2, <1>3, <1>4, <2>1, OrdersProgress
    <2> QED
      BY <1>2, <1>8, <2>1
      DEF Call, Query, Reboot, Substitute, Replace, Stray, Unnamed, Command
  <1>9. CASE UNCHANGED vars
    <2>1. UNCHANGED <<can, device, sock, conn, pool>>
      BY <1>9 DEF vars, process, world
    <2> QED
      BY <1>3, <1>2, <1>4, <2>1, SameProgress
  <1>10. ASSUME NEW d \in Devices, Device(d)
         PROVE  OrderInv'
    BY <1>10, DeviceOrder
  <1> QED
    BY <1>2, <1>5, <1>6, <1>7, <1>8, <1>9, <1>10 DEF Next, Panic
-----------------------------------------------------------------------------
(* What the server believes of a board is true when it registers it.        *)

LEMMA IdsSteps ==
  ASSUME Inv, AddressInv, AddressInv', IdsTrue, ~EarlyFrames, [Next]_vars
  PROVE  IdsTrue'
  <1>1. ASSUME NEW why, Crash(why)
        PROVE  IdsTrue'
    <2>1. \A h \in Handlers : conn'[h].id = NoId
      BY <1>1 DEF Crash, NewConnection
    <2> QED
      BY <2>1 DEF IdsTrue
  <1>2. CASE ConnKept
    <2>1. \A h \in Handlers \ pool : h \notin pool' => conn'[h].id = NoId
      BY <1>2 DEF ConnKept, IdsTrue
    <2>2. \A h \in Handlers \ pool : conn'[h].id = NoId
      BY <1>2 DEF ConnKept, IdsTrue
    <2>3. ASSUME NEW h \in Handlers, NEW d \in Devices, Speaks(d, h)'
          PROVE  conn'[h].id \in {NoId, IdOf[d]}
      <3>1. Speaks(d, h) \/ h \notin pool
        BY <2>3, SpeakersSpoke, VoicesSteps, QuietVoices
      <3>2. CASE h \notin pool
        BY <2>2, <3>2
      <3>3. CASE Speaks(d, h)
        <4>1. conn[h].id \in {NoId, IdOf[d]}
          BY <3>3 DEF IdsTrue
        <4>2. \A e \in Devices : Speaks(e, h) => e = d
          BY <3>3, OneVoice
        <4> QED
          BY <1>2, <4>1, <4>2 DEF ConnKept
      <3> QED
        BY <3>1, <3>2, <3>3
    <2>4. \A h \in Handlers \ pool' : conn'[h].id = NoId
      BY <1>2, <2>2 DEF ConnKept
    <2> QED
      BY <2>3, <2>4 DEF IdsTrue
  <1> QED
    BY <1>1, <1>2, ConnKeptSteps

(* A descriptor names its board. *)
LEMMA SpeakerNamed ==
  ASSUME Inv, NamesInv, NEW h \in Handlers, NEW d \in Devices, Speaks(d, h),
         conn[h].desc # NoPointer
  PROVE  heap[conn[h].desc].name = NameOf[d] /\ conn[h].desc \in Pointers
  <1>1. PICK a \in BOOLEAN : conn[h].desc = <<h, a>>
    BY DEF NamesInv, HoldersNamed
  <1>2. heap[conn[h].desc].name \in {NoName, NameOf[d]}
    BY <1>1 DEF NamesInv, NamesTrue, Speaks
  <1>3. heap[conn[h].desc].name # NoName
    BY ServerAssumption DEF NamesInv, HoldersNamed, Named
  <1> QED
    BY <1>1, <1>2, <1>3 DEF Pointers

LEMMA InitKnows ==
  ASSUME Inv, AddressInv, FramesInOrder, IdsTrue, NEW c \in Cans, InitAccepted(c),
         NEW h, h = Addressee(c)
  PROVE  h \in Handlers /\ h \in pool /\ Knows(h)
  <1>1. /\ Accepted(c, "init") /\ conn[h].desc # NoPointer
        /\ h \in Handlers /\ h \in pool /\ ~conn[h].dead
    BY AcceptedFacts DEF InitAccepted, InitComplete, Accepted
  <1>2. PICK b \in Devices : b = Head(sock[c]).from /\ Speaks(b, h)
    BY <1>1, HeadSpeaks DEF Accepted, Kinds
  <1>3. /\ 1 \in DOMAIN sock[c] /\ Place(c, 1) = h
        /\ sock[c][1].kind = "init" /\ sock[c][1].from = b
    BY <1>1, <1>2, HeadSpeaks DEF Accepted, Received, Addressed, Kinds
  <1>4. \A line \in Lines : By(c, 1, h, b, line)
    BY <1>1, <1>3, RankFacts DEF FramesInOrder
  <1>5. \A kind : ~Ahead(c, 1, h, kind)
    BY DEF Ahead, Inv, BusOK
  <1>6. conn[h].addressed /\ (IdOf[b] = NoId \/ conn[h].id = IdOf[b])
    BY <1>4, <1>5 DEF By, Known, Lines
  <1>7. conn[h].id = IdOf[b]
    BY <1>1, <1>2, <1>6 DEF IdsTrue
  <1>8. \A d \in Devices : Speaks(d, h) => d = b
    BY <1>2, OneVoice
  <1> QED
    BY <1>1, <1>6, <1>7, <1>8 DEF Knows

(* A step gives front end f to h, which had none. *)
Given(h, f) ==
  /\ h \in Handlers /\ h \in pool /\ ~conn[h].dead
  /\ conn[h].frontend = 0 /\ conn[h].desc # NoPointer
  /\ \A g \in Handlers \ {h} : conn'[g] = conn[g]
  /\ conn'[h].frontend = f /\ f \in DOMAIN boards'
  /\ boards'[f].backend = h \/ (~conn[h].addressed /\ boards'[f].backend = NoHandler)
  /\ Identity(f)' = <<heap[conn[h].desc].name, conn[h].id>>
  /\ \A g \in DOMAIN boards' \ {f} :
       g \in DOMAIN boards /\ boards'[g].backend = boards[g].backend
  /\ \A g \in DOMAIN boards :
       g \in DOMAIN boards' /\ boards'[g].desc = boards[g].desc
                            /\ boards'[g].id = boards[g].id
  /\ pool' = pool

LEMMA RegisterGives ==
  ASSUME Inv, AddressInv, NamesInv, DirectoryInv, NEW c \in Cans, Registers(c),
         ~RegisterHolding(c), NEW h, h = Addressee(c)
  PROVE  holden' = holden /\ InitAccepted(c) /\ \E f : Given(h, f)
  <1> DEFINE p == conn[h].desc
             n == heap[p].name
  <1>0. InitAccepted(c) /\ heap' = heap /\ pool' = pool /\ holden' = holden
    BY DEF Registers, RegisterNew, RegisterReplacing
  <1>1. PICK k \in Pointers :
          /\ h \in Handlers /\ h \in pool /\ conn[h] \in Connections /\ ~conn[h].dead
          /\ h \notin holden /\ conn[h].frontend = 0
          /\ p \in Pointers /\ n \in Names
          /\ Keys(p) = {k} /\ heap[k].name = n
    BY <1>0, RegisterFacts
  <1>2. p # NoPointer
    BY <1>1, ConnectionAssumption
  <1>3. CASE RegisterNew(c)
    <2> DEFINE e == GetBoard(h)
    <2>1. /\ handlers' = [handlers EXCEPT ![k] = Append(@, e)]
          /\ boards' = Append(boards, e)
          /\ conn' = [conn EXCEPT ![h] = Launch(@, Len(boards'))]
      BY <1>1, <1>3 DEF RegisterNew
    <2>2. /\ e \in Instances /\ e.desc = p /\ e.id = conn[h].id
          /\ e.backend = h \/ (~conn[h].addressed /\ e.backend = NoHandler)
      BY <1>1, GetBoardFacts DEF GetBoard, Inv
    <2> HIDE DEF e
    <2>3. PICK w : w = Len(boards) + 1 /\ FrontAdded(w, e) /\ Len(boards') = w
      BY <2>1, <2>2, AddedFields
    <2>4. conn'[h].frontend = w /\ \A g \in Handlers \ {h} : conn'[g] = conn[g]
      BY <1>1, <2>1, <2>3, LaunchKeeps DEF Inv, ConnOK
    <2>5. /\ DOMAIN boards' = DOMAIN boards \cup {w} /\ boards'[w] = e
           /\ \A g \in DOMAIN boards : boards'[g] = boards[g]
      BY <2>3 DEF FrontAdded
    <2>6. Identity(w)' = <<n, conn[h].id>>
      BY <1>0, <2>2, <2>5 DEF Identity
    <2> QED
      BY <1>0, <1>1, <1>2, <2>2, <2>4, <2>5, <2>6 DEF Given
  <1>4. CASE RegisterReplacing(c)
    <2>1. PICK i \in First(Owners(k, conn[h].id)) :
            LET old == handlers[k][i].backend
            IN  /\ boards' = ReplaceBackendHandler(conn[old].frontend, h)
                /\ conn' = [conn EXCEPT ![h] = Launch(@, conn[old].frontend)]
      BY <1>1, <1>4 DEF RegisterReplacing
    <2>2. /\ i \in DOMAIN handlers[k] /\ handlers[k][i].backend # NoHandler
          /\ handlers[k][i].id = conn[h].id
      BY DEF First, Owners
    <2>3. PICK old, f : old = handlers[k][i].backend /\ f = conn[old].frontend
      OBVIOUS
    <2>4. /\ f \in DOMAIN boards /\ heap[boards[f].desc].name = n
          /\ boards[f].id = conn[h].id
      BY <1>1, <2>2, <2>3, OwnerServed
    <2>5. /\ FrontChanges(f, h)
          /\ conn' = [conn EXCEPT ![h] = Launch(conn[h], f)]
      BY <2>1, <2>3, <2>4, FrontFields
    <2>6. conn'[h].frontend = f /\ \A g \in Handlers \ {h} : conn'[g] = conn[g]
      BY <1>1, <2>5, LaunchKeeps DEF Inv, ConnOK
    <2>7. Identity(f)' = <<n, conn[h].id>>
      BY <1>0, <2>4, <2>5 DEF Identity, FrontChanges
    <2>8. /\ f \in DOMAIN boards' /\ boards'[f].backend = h
          /\ \A g \in DOMAIN boards' \ {f} :
               g \in DOMAIN boards /\ boards'[g].backend = boards[g].backend
          /\ \A g \in DOMAIN boards :
               g \in DOMAIN boards' /\ boards'[g].desc = boards[g].desc
                                    /\ boards'[g].id = boards[g].id
      BY <2>4, <2>5 DEF FrontChanges
    <2> QED
      BY <1>0, <1>1, <1>2, <2>6, <2>7, <2>8 DEF Given
  <1> QED
    BY <1>0, <1>3, <1>4 DEF Registers

LEMMA SubstituteGives ==
  ASSUME Inv, AddressInv, DirectoryInv, NEW f \in DOMAIN boards,
         NEW reboot \in BOOLEAN, Substitute(f, reboot)
  PROVE  \E h \in holden :
           /\ Given(h, f) /\ holden' \subseteq holden
           /\ Orders([d \in {e \in Devices : Slot(e) = h} |->
                        IF reboot THEN "REBOOT" ELSE "OPERATIONAL"],
                     IF reboot THEN PowerFailed ELSE failures)
           /\ reboot => conn'[h].dead
           /\ UNCHANGED <<can, sock>>
  <1>0. PICK k \in Pointers : \E i \in DOMAIN handlers[k] :
          \E old \in Handlers : \E h \in Handlers :
            /\ Replace(f, k, i, h, reboot)
            /\ old = handlers[k][i].backend /\ conn[old].dead
            /\ h \in holden /\ ~conn[h].dead /\ conn[h].frontend = 0
            /\ h \in Substitutes(f)
    BY SubstituteFacts
  <1>1. PICK i \in DOMAIN handlers[k], old \in Handlers, h \in Handlers :
          /\ Replace(f, k, i, h, reboot)
          /\ old = handlers[k][i].backend /\ conn[old].dead
          /\ h \in holden /\ ~conn[h].dead /\ conn[h].frontend = 0
          /\ h \in Substitutes(f)
    BY <1>0
  <1>2. /\ conn[h].desc # NoPointer /\ conn[h].id = boards[f].id
        /\ heap[conn[h].desc].name = heap[boards[f].desc].name
    BY <1>1 DEF Substitutes, SameDescriptor
  <1>3. h \in pool
    BY <1>1 DEF AddressInv, RegisteredOnce, Registered
  <1>4. /\ conn'[h].frontend = f /\ \A g \in Handlers \ {h} : conn'[g] = conn[g]
        /\ conn'[h].dead <=> (conn[h].dead \/ reboot)
        /\ heap' = heap /\ pool' = pool
    BY <1>1, ReplaceKeeps
  <1>5. FrontChanges(f, h)
    BY <1>1, FrontFields DEF Replace
  <1>6. Identity(f)' = <<heap[conn[h].desc].name, conn[h].id>>
    BY <1>2, <1>4, <1>5 DEF Identity, FrontChanges
  <1>7. Given(h, f)
    BY <1>1, <1>2, <1>3, <1>4, <1>5, <1>6 DEF Given, FrontChanges
  <1>8. holden' \subseteq holden /\ UNCHANGED <<can, sock>>
    <2>1. holden' = (holden \ {h}) \cup {}
      BY <1>1 DEF Replace
    <2> QED
      BY <1>1, <2>1 DEF Replace
  <1>9. Orders([d \in {e \in Devices : Slot(e) = h} |->
                  IF reboot THEN "REBOOT" ELSE "OPERATIONAL"],
               IF reboot THEN PowerFailed ELSE failures)
    <2> DEFINE told == {h} \cup (IF conn[old].dead THEN {} ELSE {old})
               To(d) == CASE Slot(d) # h -> "HOLD"
                          [] reboot      -> "REBOOT"
                          [] OTHER       -> "OPERATIONAL"
               spent == IF reboot THEN PowerFailed ELSE failures
    <2>1. Orders([d \in {e \in Devices : Slot(e) \in told} |-> To(d)], spent)
      BY <1>1 DEF Replace
    <2>2. told = {h}
      BY <1>1
    <2>3. \A d : Slot(d) = h => To(d) = IF reboot THEN "REBOOT" ELSE "OPERATIONAL"
      OBVIOUS
    <2> HIDE DEF told, To, spent
    <2>4. {e \in Devices : Slot(e) \in told} = {e \in Devices : Slot(e) = h}
      BY <2>2
    <2>5. [d \in {e \in Devices : Slot(e) \in told} |-> To(d)]
            = [d \in {e \in Devices : Slot(e) = h} |->
                 IF reboot THEN "REBOOT" ELSE "OPERATIONAL"]
      BY <2>3, <2>4
    <2> QED
      BY <2>1, <2>5 DEF spent
  <1> QED
    BY <1>1, <1>4, <1>7, <1>8, <1>9

LEMMA GivesKinds ==
  ASSUME Inv, AddressInv, NamesInv, DirectoryInv, FramesInOrder, IdsTrue,
         RegisteredRight, [Next]_vars
  PROVE  \/ \E why : Crash(why)
         \/ Plain
         \/ \E h \in Handlers : /\ h \in pool /\ Knows(h) /\ holden' = holden \cup {h}
                                /\ UNCHANGED <<conn, heap, boards, pool>>
         \/ \E h, f : Knows(h) /\ Given(h, f) /\ holden' \subseteq holden
  <1>1. ASSUME NEW c \in Cans, Registers(c)
        PROVE  \/ \E h \in Handlers :
                    /\ h \in pool /\ Knows(h) /\ holden' = holden \cup {h}
                    /\ UNCHANGED <<conn, heap, boards, pool>>
               \/ \E h, f : Knows(h) /\ Given(h, f) /\ holden' \subseteq holden
    <2>1. PICK h : h = Addressee(c)
      OBVIOUS
    <2>2. InitAccepted(c)
      BY <1>1 DEF Registers, RegisterNew, RegisterReplacing, RegisterHolding
    <2>3. h \in Handlers /\ h \in pool /\ Knows(h)
      BY <2>1, <2>2, InitKnows
    <2>4. CASE RegisterHolding(c)
      BY <2>1, <2>3, <2>4 DEF RegisterHolding
    <2>5. CASE ~RegisterHolding(c)
      BY <1>1, <2>1, <2>3, <2>5, RegisterGives
    <2> QED
      BY <2>4, <2>5
  <1>2. ASSUME NEW f \in DOMAIN boards, NEW reboot \in BOOLEAN, Substitute(f, reboot)
        PROVE  \E h : Knows(h) /\ Given(h, f) /\ holden' \subseteq holden
    <2>1. PICK h \in holden : Given(h, f) /\ holden' \subseteq holden
      BY <1>2, SubstituteGives
    <2>2. Knows(h)
      BY <2>1 DEF RegisteredRight, Registered, Given
    <2> QED
      BY <2>1, <2>2
  <1> QED
    BY <1>1, <1>2, StepKinds

(* What is known stays known, and who speaks now spoke before. *)
LEMMA KnowsKept ==
  ASSUME Inv, AddressInv, ConnKept, NEW h \in Handlers, Knows(h),
         \A d \in Devices : Speaks(d, h)' => Speaks(d, h)
  PROVE  Knows(h)'
  <1>1. conn'[h].addressed /\ conn'[h].desc # NoPointer
    BY DEF ConnKept, Knows
  <1>2. ASSUME NEW d \in Devices, Speaks(d, h)'
        PROVE  conn'[h].id = IdOf[d]
    <2>1. Speaks(d, h)
      BY <1>2
    <2>2. \A e \in Devices : Speaks(e, h) => e = d
      BY <2>1, OneVoice
    <2> QED
      BY <2>1, <2>2 DEF ConnKept, Knows
  <1> QED
    BY <1>1, <1>2 DEF Knows

LEMMA RegisteredRightSteps ==
  ASSUME Inv, AddressInv, AddressInv', NamesInv, DirectoryInv, FramesInOrder,
         IdsTrue, RegisteredRight, ~EarlyFrames, [Next]_vars
  PROVE  RegisteredRight'
  <1>1. CASE \E why : Crash(why)
    BY <1>1, QuietVoices DEF Crash, RegisteredRight
  <1>2. ASSUME ConnKept, NEW h \in Handlers, h \in pool, Knows(h)
        PROVE  Knows(h)'
    <2>1. \A d \in Devices : Speaks(d, h)' => Speaks(d, h)
      BY <1>2, SpeakersSpoke, VoicesSteps, QuietVoices
    <2> QED
      BY <1>2, <2>1, KnowsKept
  <1>3. \A h \in Registered : h \in Handlers /\ h \in pool /\ Knows(h)
    BY DEF RegisteredRight, AddressInv, RegisteredOnce, Registered
  <1>4. CASE Plain
    <2>1. Registered' = Registered
      BY <1>4 DEF Plain, Registered, registry
    <2> QED
      BY <1>1, <1>2, <1>3, <2>1, ConnKeptSteps DEF RegisteredRight
  <1>5. ASSUME NEW h \in Handlers, h \in pool, Knows(h), holden' = holden \cup {h},
               conn' = conn
        PROVE  RegisteredRight'
    <2>1. Registered' \subseteq Registered \cup {h}
      BY <1>5 DEF Registered
    <2> QED
      BY <1>1, <1>2, <1>3, <1>5, <2>1, ConnKeptSteps DEF RegisteredRight
  <1>6. ASSUME NEW h, NEW f, Knows(h), Given(h, f), holden' \subseteq holden
        PROVE  RegisteredRight'
    <2>1. Registered' \subseteq Registered \cup {h} /\ h \in Handlers /\ h \in pool
      BY <1>6 DEF Registered, Given
    <2> QED
      BY <1>1, <1>2, <1>3, <1>6, <2>1, ConnKeptSteps DEF RegisteredRight
  <1> QED
    BY <1>1, <1>4, <1>5, <1>6, GivesKinds

LEMMA ServedRightSteps ==
  ASSUME Inv, AddressInv, AddressInv', NamesInv, DirectoryInv, FramesInOrder,
         IdsTrue, RegisteredRight, ServedRight, FrontsBacked, ~EarlyFrames, [Next]_vars
  PROVE  ServedRight' /\ FrontsBacked'
  <1>1. CASE \E why : Crash(why)
    <2>1. ServedRight'
      BY <1>1, QuietVoices DEF Crash, ServedRight
    <2>2. FrontsBacked'
      BY <1>1 DEF Crash, FrontsBacked
    <2> QED
      BY <2>1, <2>2
  <1>2. ASSUME NEW h \in Handlers, h \in pool, NEW d \in Devices, Speaks(d, h)'
        PROVE  Speaks(d, h)
    BY <1>2, SpeakersSpoke, VoicesSteps, QuietVoices
  <1>3. \A h \in Handlers : conn[h].frontend # 0 =>
          h \in pool /\ conn[h].frontend \in DOMAIN boards
    BY DEF AddressInv, RegisteredOnce, Registered, DirectoryInv, LaunchedServe
  (* A front end keeps its identity. *)
  <1>4. ASSUME NamesFixed, NEW f \in DOMAIN boards, f \in DOMAIN boards',
               boards'[f].desc = boards[f].desc, boards'[f].id = boards[f].id
        PROVE  Identity(f)' = Identity(f)
    <2>1. boards[f].desc \in Pointers /\ Named(boards[f].desc)
      BY FrontFacts DEF DirectoryInv, FrontsNamed
    <2> QED
      BY <1>4, <2>1 DEF NamesFixed, Identity
  <1>5. ASSUME NamesFixed, UNCHANGED boards,
               \A h \in Handlers : conn'[h].frontend = conn[h].frontend
        PROVE  ServedRight' /\ FrontsBacked'
    <2>1. ASSUME NEW h \in Handlers, NEW d \in Devices, NEW f, f = conn'[h].frontend,
                 f # 0, Speaks(d, h)'
          PROVE  Identity(f)' = IdentityOf(d)
      <3>1. f = conn[h].frontend /\ f \in DOMAIN boards /\ Speaks(d, h)
        BY <1>2, <1>3, <1>5, <2>1
      <3>2. Identity(f) = IdentityOf(d)
        BY <2>1, <3>1 DEF ServedRight
      <3> QED
        BY <1>4, <1>5, <3>1, <3>2
    <2>2. ServedRight'
      BY <2>1 DEF ServedRight
    <2> QED
      BY <1>5, <2>2 DEF FrontsBacked
  <1>6. ASSUME NEW h, NEW f, Knows(h), Given(h, f), NamesFixed
        PROVE  ServedRight' /\ FrontsBacked'
    <2>1. ASSUME NEW g \in Handlers, NEW d \in Devices, NEW x, x = conn'[g].frontend,
                 x # 0, Speaks(d, g)'
          PROVE  Identity(x)' = IdentityOf(d)
      <3>1. CASE g = h
        <4>1. Speaks(d, h) /\ x = f
          BY <1>2, <1>6, <2>1, <3>1 DEF Given
        <4>2. heap[conn[h].desc].name = NameOf[d] /\ conn[h].id = IdOf[d]
          BY <1>6, <2>1, <3>1, <4>1, SpeakerNamed DEF Knows
        <4> QED
          BY <1>6, <4>1, <4>2 DEF Given, IdentityOf
      <3>2. CASE g # h
        <4>1. x = conn[g].frontend /\ x \in DOMAIN boards /\ Speaks(d, g)
          BY <1>2, <1>3, <1>6, <2>1, <3>2 DEF Given
        <4>2. Identity(x) = IdentityOf(d)
          BY <2>1, <4>1 DEF ServedRight
        <4> QED
          BY <1>4, <1>6, <4>1, <4>2 DEF Given
      <3> QED
        BY <3>1, <3>2
    <2>2. ServedRight'
      BY <2>1 DEF ServedRight
    <2>3. FrontsBacked'
      BY <1>6, ConnectionAssumption DEF FrontsBacked, Given, Knows
    <2> QED
      BY <2>2, <2>3
  <1>7. CASE NamesFixed
    <2>1. CASE Plain
      BY <1>5, <1>7, <2>1 DEF Plain, registry
    <2>2. CASE UNCHANGED <<conn, boards>>
      BY <1>5, <1>7, <2>2
    <2> QED
      BY <1>1, <1>6, <1>7, <2>1, <2>2, GivesKinds
  <1> QED
    BY <1>1, <1>7, NamesSteps
-----------------------------------------------------------------------------
(* Orders and who is in service.                                           *)

(* A board that is told to reboot is not heard at its address any more.     *)
LEMMA RebootedGone ==
  ASSUME NEW given, NEW spent, Orders(given, spent),
         \A d \in DOMAIN given : given[d] = "REBOOT",
         NEW d \in Devices, device'[d].node # NoNode
  PROVE  device'[d] = device[d]
  <1>1. \/ device'[d] = device[d]
        \/ device'[d] = Obeyed(device[d], "REBOOT")
    BY DEF Orders
  <1>2. Obeyed(device[d], "REBOOT") \in {device[d], Without("lottery")}
    BY DEF Obeyed
  <1>3. Without("lottery").node = NoNode
    BY DEF Without
  <1> QED
    BY <1>1, <1>2, <1>3

(* A board that waits at the address of a handler that is launched hears of *)
(* it; the others hear nothing.                                            *)
LEMMA LaunchedStarts ==
  ASSUME Inv, AddressInv, InService, NothingLost', NEW h, NEW f, Given(h, f),
         Orders([d \in {e \in Devices : Slot(e) = h} |-> "OPERATIONAL"], failures),
         \A d \in Devices : Joining(d) => Slot(d) # h,
         NEW d \in Devices, OnAir(d)', can' = can, f # 0,
         NEW g, g = Slot(d)', ~conn'[g].dead, ~conn[g].dead, g \in Handlers
  PROVE  device'[d].phase = "operational" <=> conn'[g].frontend # 0
  <1> DEFINE given == [b \in {e \in Devices : Slot(e) = h} |-> "OPERATIONAL"]
  <1>1. DOMAIN given = {e \in Devices : Slot(e) = h}
    OBVIOUS
  <1>2. \A e \in DOMAIN given : given[e] = "OPERATIONAL"
    OBVIOUS
  <1>3. failures \in Failures /\ device[d] \in DeviceStates
    BY DEF Inv, BusOK, DeviceOK
  <1> HIDE DEF given
  <1>4. Orders(given, failures)
    BY DEF given
  <1>5. device'[d] = IF d \in DOMAIN given THEN Obeyed(device[d], given[d]) ELSE device[d]
    BY <1>3, <1>4, OrdersHeard
  <1>6. CASE Slot(d) # h
    <2>1. device'[d] = device[d] /\ g = Slot(d) /\ OnAir(d)
      BY <1>1, <1>5, <1>6 DEF Slot, OnAir
    <2>2. conn'[g] = conn[g]
      BY <1>6, <2>1 DEF Given
    <2> QED
      BY <2>1, <2>2 DEF InService
  <1>7. CASE Slot(d) = h
    <2>1. device'[d] = Obeyed(device[d], "OPERATIONAL")
      BY <1>1, <1>2, <1>5, <1>7
    <2>2. device'[d] = device[d] \/
            (device[d].phase = "waiting" /\ device'[d] = [device[d] EXCEPT !.phase = "operational"])
      BY <2>1 DEF Obeyed
    <2>3. device'[d].node = device[d].node
      BY <1>3, <2>2 DEF DeviceStates
    <2>4. g = h /\ OnAir(d)
      BY <1>7, <2>3 DEF Slot, OnAir
    <2>5. conn'[h].frontend = f /\ conn[h].frontend = 0 /\ ~conn[h].dead
      BY DEF Given
    <2>6. device[d].phase # "operational"
      BY <1>7, <2>4, <2>5 DEF InService
    <2>7. device[d].phase \notin {"off", "lottery", "joining"}
      BY <1>7, <2>4 DEF AddressInv, BoardsTidy, Tidy, OffBus, OnAir, Joining
    <2>8. device[d].phase = "waiting"
      BY <1>3, <2>6, <2>7 DEF DeviceStates, Phases
    <2>9. device'[d] = [device[d] EXCEPT !.phase = "operational"]
      BY <2>1, <2>8 DEF Obeyed
    <2>10. device'[d].phase = "operational"
      BY <1>3, <2>9 DEF DeviceStates
    <2> QED
      BY <2>4, <2>5, <2>10
  <1> QED
    BY <1>6, <1>7

LEMMA InServiceSteps ==
  ASSUME Inv, Inv', AddressInv, AddressInv', NamesInv, DirectoryInv,
         InService, ~EarlyFrames, [Next]_vars, NothingLost'
  PROVE  InService'
  <1> SUFFICES ASSUME NEW d \in Devices, OnAir(d)',
                      NEW h, h = Slot(d)', ~conn'[h].dead
               PROVE  device'[d].phase = "operational" <=> conn'[h].frontend # 0
    BY DEF InService
  <1>1. h \in pool' /\ h \in Handlers /\ pool' # {}
    BY DEF AddressInv, SpeakersKnown, Inv, RegistryOK
  <1>2. \A why : ~Crash(why)
    BY <1>1 DEF Crash
  <1>3. ~conn[h].dead
    BY <1>1, <1>2, ConnKeptSteps DEF ConnKept
  <1>4. device[d] \in DeviceStates /\ device'[d] \in DeviceStates
    BY DEF Inv, DeviceOK
  <1>5. ASSUME can' = can, device'[d].node = device[d].node,
               device'[d].phase = "operational" <=> device[d].phase = "operational",
               conn'[h].frontend = conn[h].frontend
        PROVE  device'[d].phase = "operational" <=> conn'[h].frontend # 0
    BY <1>3, <1>5 DEF InService, OnAir, Slot
  <1>6. ASSUME NEW e \in Devices, Device(e)
        PROVE  device'[d].phase = "operational" <=> conn'[h].frontend # 0
    <2>1. can' = can /\ conn' = conn
      BY <1>6 DEF Device, PowerOn, PowerOff, Enter, Speak, Answer, Talk, process
    <2>2. CASE device'[d] = device[d]
      BY <1>5, <2>1, <2>2
    <2>3. CASE PowerOn(e) \/ PowerOff(e)
      <3>1. PICK phase : device' = [device EXCEPT ![e] = Without(phase)]
        BY <2>3 DEF PowerOn, PowerOff
      <3>2. device'[d] = device[d] \/ device'[d].node = NoNode
        BY <3>1 DEF Inv, DeviceOK, Without
      <3> QED
        BY <2>2, <3>2 DEF OnAir
    <2>4. CASE Enter(e) \/ \E kind \in Chatter : Talk(e, kind)
      BY <2>2, <2>4 DEF Enter, Talk
    <2>5. CASE Speak(e)
      <3> DEFINE told == device[e].told + 1
                 r == [device[e] EXCEPT !.told = told,
                         !.phase = IF told = Len(Script(e)) THEN "waiting" ELSE @]
      <3>1. device' = [device EXCEPT ![e] = r] /\ device[e].phase = "joining"
        BY <2>5 DEF Speak
      <3>2. device[e] \in DeviceStates
        BY DEF Inv, DeviceOK
      <3> HIDE DEF told
      <3>3. r.node = device[e].node /\ r.phase # "operational"
        BY <3>1, <3>2 DEF DeviceStates
      <3> HIDE DEF r
      <3>4. device'[d] = device[d] \/ (d = e /\ device'[d] = r)
        BY <3>1 DEF Inv, DeviceOK
      <3> QED
        BY <1>5, <2>1, <2>2, <3>1, <3>3, <3>4
    <2>6. CASE Answer(e)
      <3>1. device' = [device EXCEPT ![e].asked = FALSE]
        BY <2>6 DEF Answer
      <3>2. /\ device'[d].phase = device[d].phase
            /\ device'[d].node = device[d].node
        BY <1>4, <3>1 DEF Inv, DeviceOK, DeviceStates
      <3> QED
        BY <1>5, <2>1, <3>2
    <2> QED
      BY <1>6, <2>3, <2>4, <2>5, <2>6 DEF Device
  <1>7. ASSUME NEW c \in Cans, Bind(c) \/ Invite(c)
        PROVE  FALSE
    BY <1>1, <1>7, NobodyOnAir DEF Bind, Invite, Up, process
  <1>8. ASSUME NEW c \in Cans, KeepAliveRound(c)
        PROVE  device'[d].phase = "operational" <=> conn'[h].frontend # 0
    <2>1. /\ can' = can
          /\ device'[d] \in {device[d], [device[d] EXCEPT !.asked = TRUE]}
          /\ conn'[h] \in {conn[h], KeepAliveRequest(conn[h])}
      BY <1>1, <1>8 DEF KeepAliveRound
    <2>2. /\ device'[d].phase = device[d].phase
          /\ device'[d].node = device[d].node
      BY <1>4, <2>1 DEF DeviceStates
    <2>3. conn'[h].frontend = conn[h].frontend
      BY <1>1, <2>1, RequestKeeps DEF Inv, ConnOK
    <2> QED
      BY <1>5, <2>1, <2>2, <2>3
  <1>9. CASE UNCHANGED vars
    BY <1>5, <1>9 DEF vars, process, world
  (* A handler that gets a front end, and its board that is told to start. *)
  <1>10. ASSUME NEW g, NEW f, Given(g, f), can' = can,
                Orders([b \in {e \in Devices : Slot(e) = g} |-> "OPERATIONAL"], failures),
                \A e \in Devices : Joining(e) => Slot(e) # g
         PROVE  device'[d].phase = "operational" <=> conn'[h].frontend # 0
    <2>1. f # 0
      BY <1>10 DEF Given, Inv, RegistryOK
    <2> QED
      BY <1>1, <1>3, <1>10, <2>1, LaunchedStarts
  <1>11. ASSUME NEW c \in Cans, Receive(c)
         PROVE  device'[d].phase = "operational" <=> conn'[h].frontend # 0
    <2>1. CASE \/ ReceiveForDead(c) \/ ReceiveConfirm(c) \/ ReceiveName(c)
               \/ ReceiveBody(c) \/ ReceiveId(c) \/ ReceiveAlive(c) \/ ReceiveTalk(c)
      BY <1>1, <1>5, <2>1, HandlerKeeps DEF Consume
    <2>2. CASE ReceiveLottery(c)
      <3>1. Received(c, "lottery") /\ Head(sock[c]) \in Frames /\ sock[c] # <<>>
        BY <2>2, ReceivedFacts DEF ReceiveLottery, Inv
      <3>2. PICK b \in Devices : b = Head(sock[c]).from
        BY <3>1 DEF Frames
      <3>3. BusOf[b] = c
        <4>1. 1 \in DOMAIN sock[c] /\ sock[c][1] = Head(sock[c])
          BY <3>1, HeadTailProperties DEF Inv, BusOK
        <4> QED
          BY <3>2, <4>1 DEF AddressInv, SpeakersKnown
      <3>4. PICK n \in FreeSlots(c) :
              \/ device' = device
              \/ device' = [device EXCEPT ![b] = [Without("joining") EXCEPT !.node = n]]
        BY <2>2, <3>2 DEF ReceiveLottery
      <3> DEFINE r == [Without("joining") EXCEPT !.node = n]
      <3>5. r.node = n /\ r.phase = "joining"
        BY DEF Without
      <3> HIDE DEF r
      <3>6. conn' = conn /\ can' = can
        BY <2>2 DEF ReceiveLottery, Consume
      <3>7. CASE device'[d] = device[d]
        BY <1>5, <3>6, <3>7
      <3>8. CASE d = b /\ device'[d] = r
        <4>1. h = <<c, n>> /\ h \notin pool
          BY <3>3, <3>5, <3>8 DEF Slot, FreeSlots
        <4>2. conn[h].frontend = 0
          BY <1>1, <4>1 DEF AddressInv, RegisteredOnce, Registered
        <4> QED
          BY <3>5, <3>6, <3>8, <4>2
      <3> QED
        BY <3>4, <3>7, <3>8 DEF Inv, DeviceOK, r
    <2>3. CASE RegisterHolding(c)
      BY <1>5, <2>3 DEF RegisterHolding, Consume
    <2>4. CASE RegisterNew(c) \/ RegisterReplacing(c)
      <3>1. PICK g : g = Addressee(c)
        OBVIOUS
      <3>2. CASE RegisterHolding(c)
        BY <2>3, <3>2
      <3>3. CASE ~RegisterHolding(c)
        <4>1. PICK f : Given(g, f) /\ InitAccepted(c)
          BY <2>4, <3>1, <3>3, RegisterGives DEF Registers
        <4>2. /\ can' = can
              /\ Orders([b \in {e \in Devices : Slot(e) = g} |-> "OPERATIONAL"], failures)
          BY <2>4, <3>1 DEF RegisterNew, RegisterReplacing, Start, Command, Consume
        <4>3. Received(c, "init") /\ Accepted(c, "init")
          BY <4>1 DEF InitAccepted, InitComplete, Accepted
        <4>4. 1 \in Inits(c) /\ Place(c, 1) = g
          BY <3>1, <4>3, HeadSpeaks DEF Received, Addressed, Inits, Kinds
        <4>5. \A e \in Devices : Joining(e) => Slot(e) # g
          BY <4>4 DEF AddressInv, InitOnce
        <4> QED
          BY <1>10, <4>1, <4>2, <4>5
      <3> QED
        BY <3>2, <3>3
    <2> QED
      BY <1>2, <1>11, <2>1, <2>2, <2>3, <2>4 DEF Receive, Abort
  <1>12. ASSUME NEW g \in Handlers, conn'[g].dead, can' = can,
                NEW given, NEW spent, Orders(given, spent),
                \A b \in DOMAIN given : given[b] = "REBOOT",
                \A b \in Handlers \ {g} : conn'[b] = conn[b]
         PROVE  device'[d].phase = "operational" <=> conn'[h].frontend # 0
    <2>1. device'[d] = device[d]
      BY <1>12, RebootedGone DEF OnAir
    <2>2. conn'[h] = conn[h]
      BY <1>1, <1>12
    <2> QED
      BY <1>5, <1>12, <2>1, <2>2
  <1>13. ASSUME NEW f \in DOMAIN boards, NEW reboot \in BOOLEAN, Substitute(f, reboot)
         PROVE  device'[d].phase = "operational" <=> conn'[h].frontend # 0
    <2>1. PICK g \in holden :
            /\ Given(g, f)
            /\ Orders([b \in {e \in Devices : Slot(e) = g} |->
                         IF reboot THEN "REBOOT" ELSE "OPERATIONAL"],
                      IF reboot THEN PowerFailed ELSE failures)
            /\ reboot => conn'[g].dead
            /\ UNCHANGED <<can, sock>>
      BY <1>13, SubstituteGives
    <2>2. \A e \in Devices : Joining(e) => Slot(e) # g
      BY <2>1 DEF AddressInv, RegisteredOnce, Registered, Given
    <2>3. CASE ~reboot
      BY <1>10, <2>1, <2>2, <2>3
    <2>4. CASE reboot
      <3> DEFINE given == [b \in {e \in Devices : Slot(e) = g} |-> "REBOOT"]
      <3>1. \A b \in DOMAIN given : given[b] = "REBOOT"
        OBVIOUS
      <3>2. Orders(given, PowerFailed)
        BY <2>1, <2>4
      <3>3. /\ g \in Handlers /\ conn'[g].dead
            /\ \A b \in Handlers \ {g} : conn'[b] = conn[b]
        BY <2>1, <2>4 DEF Given
      <3> HIDE DEF given
      <3> QED
        BY <1>12, <2>1, <3>1, <3>2, <3>3
    <2> QED
      BY <2>3, <2>4
  <1>14. ASSUME NEW f \in DOMAIN boards, Reboot(f), ~Substitute(f, TRUE)
         PROVE  device'[d].phase = "operational" <=> conn'[h].frontend # 0
    <2>1. PICK g \in Handlers :
            /\ conn' = [conn EXCEPT ![g] = CommandReboot(conn[g])]
            /\ Command(g, "REBOOT", PowerFailed) /\ can' = can
      BY <1>14, RebootFrontends
    <2> DEFINE given == [b \in {e \in Devices : Slot(e) = g} |-> "REBOOT"]
    <2>2. \A b \in DOMAIN given : given[b] = "REBOOT"
      OBVIOUS
    <2>3. Orders(given, PowerFailed)
      BY <2>1 DEF Command
    <2>4. conn'[g] = CommandReboot(conn[g]) /\ \A b \in Handlers \ {g} : conn'[b] = conn[b]
      BY <2>1 DEF Inv, ConnOK
    <2>5. conn'[g].dead
      BY <2>4, RebootFacts DEF Inv, ConnOK
    <2> HIDE DEF given
    <2> QED
      BY <1>12, <2>1, <2>2, <2>3, <2>4, <2>5
  <1>15. ASSUME NEW f \in DOMAIN boards, Call(f)
         PROVE  device'[d].phase = "operational" <=> conn'[h].frontend # 0
    BY <1>2, <1>13, <1>14, <1>15 DEF Call, Query, Stray, Unnamed
  <1> QED
    BY <1>2, <1>6, <1>7, <1>8, <1>9, <1>11, <1>15 DEF Next, Panic
-----------------------------------------------------------------------------
(* The invariant of the handshake, while no frame is lost.                 *)

LEMMA InitHandshake == Init => HandshakeInv
  <1> SUFFICES ASSUME Init
               PROVE  HandshakeInv
    OBVIOUS
  <1>1. /\ \A c \in Cans : DOMAIN sock[c] = {} /\ can[c] # "invited"
        /\ \A h \in Handlers : conn[h].frontend = 0 /\ conn[h].id = NoId
        /\ DOMAIN boards = {} /\ holden = {}
    BY DEF Init, NewConnection
  <1>2. \A d \in Devices : ~OnAir(d)
    BY <1>1, ServerAssumption DEF OnAir
  <1>3. \A d \in Devices : \A h : ~Speaks(d, h)
    BY <1>1, <1>2 DEF Speaks, Addressed
  <1>4. OrderInv
    BY <1>1, <1>2 DEF OrderInv, FramesInOrder, ToldInOrder, Joining
  <1>5. IdsTrue /\ RegisteredRight /\ ServedRight /\ FrontsBacked /\ InService
    BY <1>1, <1>2, <1>3
    DEF IdsTrue, RegisteredRight, Registered, ServedRight, FrontsBacked, InService
  <1> QED
    BY <1>4, <1>5 DEF HandshakeInv

LEMMA HandshakeSteps ==
  ASSUME Inv, Inv', AddressInv, AddressInv', NamesInv, DirectoryInv, HandshakeInv,
         ~EarlyFrames, [Next]_vars, NothingLost'
  PROVE  HandshakeInv'
  <1>1. OrderInv'
    BY OrderSteps DEF HandshakeInv
  <1>2. IdsTrue'
    BY IdsSteps DEF HandshakeInv
  <1>3. RegisteredRight'
    BY RegisteredRightSteps DEF HandshakeInv, OrderInv
  <1>4. ServedRight' /\ FrontsBacked'
    BY ServedRightSteps DEF HandshakeInv, OrderInv
  <1>5. InService'
    BY InServiceSteps DEF HandshakeInv
  <1> QED
    BY <1>1, <1>2, <1>3, <1>4, <1>5 DEF HandshakeInv

LosslessHandshake == NothingLost => HandshakeInv

LEMMA LosslessHandshakeSteps ==
  ASSUME ~EarlyFrames, Inv, Inv', LosslessInv, LosslessInv', LosslessDirectory,
         LosslessHandshake, [Next]_vars
  PROVE  LosslessHandshake'
  <1> SUFFICES ASSUME NothingLost'
               PROVE  HandshakeInv'
    BY DEF LosslessHandshake
  <1>1. NothingLost
    BY LostIsCounted DEF Inv
  <1>2. /\ AddressInv /\ AddressInv' /\ NamesInv /\ DirectoryInv /\ HandshakeInv
    BY <1>1 DEF LosslessInv, LosslessDirectory, LosslessHandshake
  <1> QED
    BY <1>2, HandshakeSteps

Lossless == LosslessInv /\ LosslessDirectory /\ LosslessHandshake

(* Everything the server believes of the boards, while no frame is lost: in *)
(* the order of the handshake, of who a registered board is, whom a front   *)
(* end serves, and which boards are in service.                            *)
THEOREM HandshakeUnlessLost ==
  ASSUME ~EarlyFrames
  PROVE  Spec => [](Inv /\ Lossless)
  <1>1. Init => Inv /\ Lossless
    BY InitInv, InitAddress, InitDirectory, InitHandshake
    DEF Init, Lossless, LosslessInv, LosslessDirectory, LosslessHandshake,
        AddressesKnown
  <1>2. Inv /\ Lossless /\ [Next]_vars => Inv' /\ Lossless'
    BY NextInv, LosslessSteps, LosslessDirectorySteps, LosslessHandshakeSteps
    DEF Lossless
  <1> QED
    BY <1>1, <1>2, PTL DEF Spec
-----------------------------------------------------------------------------
(* What follows from it.                                                   *)

LEMMA SlotOnAir ==
  ASSUME Inv, AddressInv, NEW d \in Devices, Slot(d) \in pool
  PROVE  OnAir(d)
  <1>1. Up /\ device[d].node \in NodeIds /\ BusOf[d] \in Cans
    BY ServerAssumption DEF AddressInv, Quiet, Slot, Inv, RegistryOK, Handlers
  <1> QED
    BY <1>1, ServerAssumption DEF Up, OnAir

LEMMA BackendFacts ==
  ASSUME Inv, AddressInv, DirectoryInv, NEW f \in DOMAIN boards,
         NEW h, h = boards[f].backend, h # NoHandler
  PROVE  /\ h \in Handlers /\ h \in pool
         /\ conn[h].frontend = f /\ f # 0 /\ h \in Linked(Identity(f))
  <1>1. h \in Handlers /\ conn[h].frontend = f /\ f # 0
    BY FrontFacts DEF DirectoryInv, FrontsPoint
  <1> QED
    BY <1>1 DEF AddressInv, RegisteredOnce, Registered, Linked

LEMMA FrontsDiffer ==
  ASSUME Inv, AddressInv, DirectoryInv, FrontsBacked
  PROVE  OneFrontEnd
  <1> SUFFICES ASSUME NEW f \in DOMAIN boards, NEW g \in DOMAIN boards,
                      Identity(f) = Identity(g)
               PROVE  f = g
    BY DEF OneFrontEnd
  <1>1. PICK h, b : h = boards[f].backend /\ b = boards[g].backend
    OBVIOUS
  <1>2. h # NoHandler /\ b # NoHandler
    BY <1>1 DEF FrontsBacked
  <1>3. /\ conn[h].frontend = f /\ conn[b].frontend = g
        /\ h \in Linked(Identity(f)) /\ b \in Linked(Identity(f))
    BY <1>1, <1>2, BackendFacts
  <1>4. h = b
    BY <1>3, LinkedFacts
  <1> QED
    BY <1>3, <1>4

LEMMA BoardsRight ==
  ASSUME Inv, AddressInv, DirectoryInv, ServedRight
  PROVE  RightBoard
  <1> SUFFICES ASSUME NEW f \in DOMAIN boards, NEW d \in Devices,
                      ~Stale(f), Slot(d) = boards[f].backend
               PROVE  IdentityOf(d) = Identity(f)
    BY DEF RightBoard
  <1>1. PICK h : h = boards[f].backend
    OBVIOUS
  <1>2. h # NoHandler
    BY <1>1 DEF Stale
  <1>3. h \in Handlers /\ h \in pool /\ conn[h].frontend = f /\ f # 0
    BY <1>1, <1>2, BackendFacts
  <1>4. Speaks(d, h)
    BY <1>1, <1>3, SlotOnAir DEF Speaks
  <1> QED
    BY <1>3, <1>4 DEF ServedRight

LEMMA SourcesRight ==
  ASSUME Inv, ServedRight
  PROVE  RightSource
  <1> SUFFICES ASSUME NEW c \in Cans, NEW i \in DOMAIN sock[c],
                      sock[c][i].kind = "data", Place(c, i) \in pool,
                      conn[Place(c, i)].frontend # 0
               PROVE  Identity(conn[Place(c, i)].frontend)
                        = IdentityOf(sock[c][i].from)
    BY DEF RightSource, Place
  <1>1. sock[c][i] \in Frames /\ Place(c, i) \in Handlers
    BY DEF Inv, BusOK, RegistryOK
  <1>2. sock[c][i].from \in Devices /\ Speaks(sock[c][i].from, Place(c, i))
    BY <1>1 DEF Frames, Speaks, Addressed
  <1> QED
    BY <1>1, <1>2 DEF ServedRight

LEMMA ServiceAgreed ==
  ASSUME Inv, AddressInv, DirectoryInv, FrontsBacked, InService
  PROVE  OperationalIffServed
  <1> SUFFICES ASSUME NEW d \in Devices, NEW h, h = Slot(d), h \in pool,
                      ~conn[h].dead, NEW f, f = conn[h].frontend
               PROVE  device[d].phase = "operational" <=> f # 0 /\ boards[f].backend = h
    BY DEF OperationalIffServed
  <1>1. device[d].phase = "operational" <=> f # 0
    BY SlotOnAir DEF InService
  <1>2. f # 0 => boards[f].backend = h
    <2>1. h \in Handlers
      BY DEF Inv, RegistryOK
    <2> QED
      BY <2>1 DEF DirectoryInv, LaunchedServe, FrontsBacked
  <1> QED
    BY <1>1, <1>2

(* Every board type and instance has one front end, whatever joins were cut *)
(* short and whatever boards died, were held or replaced                   *)
(* (RegisterNewHandler, RosModule::NewBoard).                              *)
THEOREM OneFrontEndUnlessLost ==
  ASSUME ~EarlyFrames
  PROVE  Spec => []OneFrontEnd
  <1>1. Inv /\ Lossless => OneFrontEnd
    <2>1. CASE ~NothingLost
      BY <2>1 DEF OneFrontEnd
    <2>2. CASE NothingLost
      BY <2>2, FrontsDiffer
      DEF Lossless, LosslessInv, LosslessDirectory, LosslessHandshake, HandshakeInv
    <2> QED
      BY <2>1, <2>2
  <1> QED
    BY <1>1, HandshakeUnlessLost, PTL

(* The boards that were told to operate (Launch, Replace) and are not given *)
(* up are those that a front end writes to: none is silent behind a front   *)
(* end, and none on hold or replaced goes on sending (BackendReady, Hold).  *)
THEOREM ServiceUnlessLost ==
  ASSUME ~EarlyFrames
  PROVE  Spec => []OperationalIffServed
  <1>1. Inv /\ Lossless => OperationalIffServed
    <2>1. CASE ~NothingLost
      BY <2>1 DEF OperationalIffServed
    <2>2. CASE NothingLost
      BY <2>2, ServiceAgreed
      DEF Lossless, LosslessInv, LosslessDirectory, LosslessHandshake, HandshakeInv
    <2> QED
      BY <2>1, <2>2
  <1> QED
    BY <1>1, HandshakeUnlessLost, PTL

(* What a ROS client writes to a board's topics reaches that board: the     *)
(* front end sends to the address of its backend and asks nobody who        *)
(* listens there.                                                          *)
THEOREM RightBoardUnlessLost ==
  ASSUME ~EarlyFrames
  PROVE  Spec => [](NothingLost => RightBoard)
  <1>1. Inv /\ Lossless => (NothingLost => RightBoard)
    BY BoardsRight
    DEF Lossless, LosslessInv, LosslessDirectory, LosslessHandshake, HandshakeInv
  <1> QED
    BY <1>1, HandshakeUnlessLost, PTL

(* What a board sends is published as its own: FFDataInbound takes a frame  *)
(* for one of the board that the slot was given to.                        *)
THEOREM RightSourceUnlessLost ==
  ASSUME ~EarlyFrames
  PROVE  Spec => [](NothingLost => RightSource)
  <1>1. Inv /\ Lossless => (NothingLost => RightSource)
    BY SourcesRight
    DEF Lossless, LosslessInv, LosslessDirectory, LosslessHandshake, HandshakeInv
  <1> QED
    BY <1>1, HandshakeUnlessLost, PTL

-----------------------------------------------------------------------------
(***************************************************************************)
(* Why the process does not die: each ASSERT that a frame or a call may    *)
(* fail, and each null pointer that it may follow, is excluded by what the *)
(* server has heard before, as long as no frame is lost.                   *)
(***************************************************************************)

Confirms(c) == {i \in DOMAIN sock[c] : sock[c][i].kind = "confirm"}

(* A board that was given an address and has not confirmed it. *)
Unsaid(d) == Joining(d) /\ device[d].told = 0

(* A handler whose address is still to be confirmed is not confirmed yet,  *)
(* and no two confirmations are on their way to it.                        *)
ConfirmedOnce ==
  /\ \A h \in Handlers \ pool : ~conn[h].addressed
  /\ \A c \in Cans : \A i \in Confirms(c) :
       /\ ~conn[Place(c, i)].addressed
       /\ \A j \in Confirms(c) : Place(c, i) = Place(c, j) => i = j
       /\ \A d \in Devices : Unsaid(d) => Slot(d) # Place(c, i)
  /\ \A d \in Devices : Unsaid(d) => ~conn[Slot(d)].addressed

(* Who talks may: field data comes from boards that were told to operate,   *)
(* and their handlers have a front end for it.                             *)
DataServed ==
  \A c \in Cans : \A i \in DOMAIN sock[c] :
    /\ sock[c][i].kind \in {"data", "event"} => sock[c][i].kind \in Chatter
    /\ sock[c][i].kind = "data" =>
         conn[Place(c, i)].dead \/ conn[Place(c, i)].frontend # 0

(* A descriptor with a body is the whole description of a board, *)
BodiesTrue ==
  \A p \in Pointers : heap[p].body # NoBody =>
    \E d \in Devices : heap[p] = [name |-> NameOf[d], body |-> BodyOf[d]]

(* and the descriptors of the registry have one. *)
KeysDescribed ==
  \A n \in Names : descriptor_map[n] # NoPointer => heap[descriptor_map[n]].body # NoBody

(* Every instance has a handler and was registered for a board. *)
EntriesTrue ==
  \A k \in Pointers : \A i \in DOMAIN handlers[k] :
    /\ handlers[k][i].backend # NoHandler
    /\ \E d \in Devices : heap[k].name = NameOf[d] /\ handlers[k][i].id = IdOf[d]

(* A front end was made with the descriptor that the registry goes by. *)
FrontsKeyed ==
  \A f \in DOMAIN boards : boards[f].desc = descriptor_map[heap[boards[f].desc].name]

(* Boards of one name have one description: the same version of the same   *)
(* type.  HandshakeComplete asserts it.                                    *)
Uniform == \A d, e \in Devices : NameOf[d] = NameOf[e] => BodyOf[d] = BodyOf[e]

(* There is one instance of each type, however many boards may stand in    *)
(* for it.                                                                 *)
OneInstance == \A d, e \in Devices : NameOf[d] = NameOf[e] => IdOf[d] = IdOf[e]

RegistryTrue == KeysDescribed /\ EntriesTrue /\ (OneInstance => FrontsKeyed)

FaultInv == ConfirmedOnce /\ DataServed /\ BodiesTrue /\ RegistryTrue
-----------------------------------------------------------------------------
(* What comes into a queue.                                                *)

(* A board may send that frame now. *)
Says(d, kind) ==
  \/ kind \notin {"confirm", "data", "event"}
  \/ kind = "confirm" /\ Unsaid(d) /\ ~Unsaid(d)'
  \/ /\ kind \in Chatter /\ OnAir(d)
     /\ kind = "data" => device[d].phase = "operational"

(* The last frame of the queue is new. *)
Added(c) ==
  \E d \in Devices : \E n \in DOMAIN sock'[c] :
    /\ Says(d, sock'[c][n].kind) /\ Place(c, n)' = Slot(d)
    /\ \A i \in DOMAIN sock'[c] \ {n} :
         i \in DOMAIN sock[c] /\ sock'[c][i] = sock[c][i]

LEMMA SendAdded ==
  ASSUME Inv, ~EarlyFrames, NEW d \in Devices, NEW kind \in Kinds,
         NEW spent \in Failures, Send(d, kind, spent),
         NothingLost', can[BusOf[d]] = "invited" => Says(d, kind)
  PROVE  \A c \in Cans : Dropped(c, 0) \/ Added(c)
  <1>1. PICK b \in Cans, n \in Nat : b = BusOf[d] /\ n = Len(sock[b]) + 1
    BY SendGrown
  <1>2. \/ sock' = sock
        \/ /\ can[b] = "invited"
           /\ Grown /\ n \in DOMAIN sock'[b]
           /\ sock'[b][n].kind = kind
           /\ <<b, sock'[b][n].node>> = Slot(d)
           /\ \A i \in DOMAIN sock'[b] : i # n => i \in DOMAIN sock[b]
           /\ \A e \in Cans \ {b} : sock'[e] = sock[e]
    BY <1>1, SendGrown
  <1>3. CASE sock' = sock
    BY <1>3, SameDropped DEF Inv
  <1>4. CASE sock' # sock
    <2>1. \A e \in Cans \ {b} : Dropped(e, 0)
      BY <1>2, <1>4, SameDropped DEF Inv
    <2>2. Added(b)
      BY <1>1, <1>2, <1>4 DEF Added, Grown, Place
    <2> QED
      BY <2>1, <2>2
  <1> QED
    BY <1>3, <1>4

LEMMA SpeakSays ==
  ASSUME Inv, AddressInv, NEW d \in Devices, Speak(d), can[BusOf[d]] = "invited"
  PROVE  Says(d, Script(d)[device[d].told + 1])
  <1> DEFINE told == device[d].told + 1
             kind == Script(d)[told]
  <1>1. /\ device[d] \in DeviceStates /\ device[d].phase = "joining"
        /\ device[d].told \in Nat /\ device[d].told < Len(Script(d))
    BY DEF Speak, Inv, DeviceOK, Board, DeviceStates
  <1>2. told \in 1 .. Len(Script(d)) /\ Len(Script(d)) \in {4, 5}
    BY <1>1, ScriptFacts
  <1>3. /\ told = 1 => kind = "confirm"
        /\ told # 1 => kind \in {"name", "body", "id", "init"}
    BY <1>2, ScriptKinds
  <1>4. CASE told = 1
    <2>1. Unsaid(d)
      BY <1>1, <1>4 DEF Unsaid, Joining, OnAir, AddressInv, BoardsTidy, Tidy, OffBus
    <2>2. device'[d].told = told
      BY <1>1 DEF Speak, Inv, DeviceOK, DeviceStates
    <2> QED
      BY <1>3, <1>4, <2>1, <2>2 DEF Says, Unsaid
  <1>5. CASE told # 1
    BY <1>3, <1>5 DEF Says
  <1> QED
    BY <1>4, <1>5

LEMMA ConsumeSteps ==
  ASSUME NEW c \in Cans, Receive(c), ~Abort(c)
  PROVE  sock[c] # <<>> /\ Consume(c)
  BY DEF Receive, ReceiveLottery, ReceiveForDead, ReceiveConfirm, ReceiveName,
         ReceiveBody, ReceiveId, ReceiveAlive, ReceiveTalk, RegisterNew,
         RegisterReplacing, RegisterHolding, InitAccepted, InitComplete,
         Accepted, Received

(* Queues lose frames at their heads, or a board that may adds one. *)
LEMMA QueueSteps ==
  ASSUME Inv, AddressInv, ~EarlyFrames, [Next]_vars, NothingLost', NEW c \in Cans
  PROVE  Added(c) \/ \E s \in Nat : Dropped(c, s)
  <1>1. ASSUME sock' = sock
        PROVE  Dropped(c, 0)
    BY <1>1, SameDropped DEF Inv
  <1>2. ASSUME NEW why, Crash(why)
        PROVE  Dropped(c, 0)
    BY <1>2 DEF Crash, Dropped
  <1>3. ASSUME NEW d \in Devices, Device(d)
        PROVE  Added(c) \/ Dropped(c, 0)
    <2>1. CASE PowerOn(d) \/ PowerOff(d)
      BY <1>1, <2>1 DEF PowerOn, PowerOff
    <2>0. failures \in Failures
      BY DEF Inv, BusOK
    <2>2. CASE Enter(d) \/ Answer(d)
      <3>1. \E kind \in {"lottery", "alive"}, spent \in Failures :
              Send(d, kind, spent)
        BY <2>0, <2>2, EnterSends DEF Answer, Inv
      <3> QED
        BY <3>1, SendAdded DEF Says, Kinds
    <2>3. CASE Speak(d)
      <3>1. PICK kind : kind = Script(d)[device[d].told + 1]
        OBVIOUS
      <3>2. Send(d, kind, failures) /\ (can[BusOf[d]] = "invited" => Says(d, kind))
        BY <2>3, <3>1, SpeakSays DEF Speak
      <3>3. kind \in Kinds
        BY <2>3, <3>1, ScriptFacts DEF Speak, Inv, DeviceOK, Board, DeviceStates
      <3> QED
        BY <2>0, <3>2, <3>3, SendAdded
    <2>4. ASSUME NEW kind \in Chatter, Talk(d, kind)
          PROVE  Added(c) \/ Dropped(c, 0)
      <3>1. kind \in Kinds
        BY ServerAssumption DEF Kinds
      <3>2. can[BusOf[d]] = "invited" => Says(d, kind)
        BY <2>4 DEF Talk, Says, OnAir
      <3> QED
        BY <2>0, <2>4, <3>1, <3>2, SendAdded DEF Talk
    <2> QED
      BY <1>3, <2>1, <2>2, <2>3, <2>4 DEF Device
  <1>4. ASSUME NEW b \in Cans, Receive(b)
        PROVE  \E s \in Nat : Dropped(c, s)
    BY <1>2, <1>4, ConsumeSteps, TailDropped DEF Abort, Inv
  <1>5. ASSUME NEW b \in Cans, Bind(b) \/ Invite(b) \/ KeepAliveRound(b)
        PROVE  Dropped(c, 0)
    BY <1>1, <1>5 DEF Bind, Invite, KeepAliveRound
  <1>6. ASSUME NEW f \in DOMAIN boards, Call(f)
        PROVE  Dropped(c, 0)
    BY <1>1, <1>2, <1>6
    DEF Call, Query, Reboot, Substitute, Replace, Stray, Unnamed
  <1>7. CASE UNCHANGED vars
    BY <1>1, <1>7 DEF vars, world
  <1>8. CASE Panic
    BY <1>2, <1>8 DEF Panic
  <1> QED
    BY <1>3, <1>4, <1>5, <1>6, <1>7, <1>8 DEF Next
-----------------------------------------------------------------------------
(* An address is confirmed once.                                           *)

(* Only who was given a new slot has everything to say. *)
LEMMA UnsaidSteps ==
  ASSUME Inv, AddressInv, AddressInv', ~EarlyFrames, [Next]_vars, NEW d \in Devices,
         Unsaid(d)'
  PROVE  (Unsaid(d) /\ Slot(d)' = Slot(d)) \/ Slot(d)' \notin pool
  <1> DEFINE New(r) == r.phase = "joining" /\ r.told = 0
  <1>0. device[d] \in DeviceStates /\ New(device'[d]) /\ OnAir(d)'
    BY DEF Unsaid, Joining, Inv, DeviceOK
  <1> SUFFICES ASSUME OnAir(d), Slot(d)' = Slot(d)
               PROVE  New(device[d])
    BY <1>0, VoicesSteps, QuietVoices DEF Voices, Unsaid, Joining, Speaks
  <1>1. CASE device'[d] = device[d]
    BY <1>0, <1>1
  <1>2. ASSUME NEW given, NEW spent, Orders(given, spent)
        PROVE  New(device[d])
    <2>1. \/ device'[d] = device[d]
          \/ \E command : device'[d] = Obeyed(device[d], command)
      BY <1>2 DEF Orders
    <2> QED
      BY <1>0, <2>1, ObeyedJoins
  <1>3. ASSUME NEW e \in Devices, Device(e)
        PROVE  New(device[d])
    <2>1. CASE e # d
      BY <1>1, <1>3, <2>1
      DEF Device, PowerOn, PowerOff, Enter, Speak, Answer, Talk, Inv, DeviceOK
    <2>2. CASE PowerOn(d) \/ PowerOff(d)
      <3>1. \E phase \in {"off", "lottery"} : device'[d] = Without(phase)
        BY <2>2 DEF PowerOn, PowerOff, Inv, DeviceOK
      <3> QED
        BY <1>0, <3>1 DEF Without
    <2>3. CASE Speak(d)
      <3>1. device'[d].told = device[d].told + 1 /\ device[d].told \in Nat
        BY <1>0, <2>3 DEF Speak, Inv, DeviceOK, DeviceStates
      <3> QED
        BY <1>0, <3>1
    <2>4. CASE Answer(d)
      BY <1>0, <2>4 DEF Answer, Inv, DeviceOK, DeviceStates
    <2> QED
      BY <1>1, <1>3, <2>1, <2>2, <2>3, <2>4 DEF Device, Enter, Talk
  <1>4. ASSUME NEW c \in Cans, ReceiveLottery(c)
        PROVE  New(device[d])
    <2>1. \/ device'[d] = device[d]
          \/ device[d].phase = "lottery"
      BY <1>4 DEF ReceiveLottery, Inv, DeviceOK
    <2> QED
      BY <1>0, <1>1, <2>1 DEF OnAir, AddressInv, BoardsTidy, Tidy, OffBus
  <1>5. ASSUME NEW c \in Cans, Receive(c), ~ReceiveLottery(c)
        PROVE  New(device[d])
    BY <1>1, <1>2, <1>5
    DEF Receive, ReceiveForDead, ReceiveConfirm, ReceiveName, ReceiveBody, ReceiveId,
        ReceiveAlive, ReceiveTalk, RegisterNew, RegisterReplacing, RegisterHolding,
        Start, Command, Abort
  <1>6. ASSUME NEW c \in Cans, Bind(c) \/ Invite(c)
        PROVE  New(device[d])
    BY <1>1, <1>2, <1>6 DEF Bind, Invite
  <1>7. ASSUME NEW c \in Cans, KeepAliveRound(c)
        PROVE  New(device[d])
    <2>1. device'[d] \in {device[d], [device[d] EXCEPT !.asked = TRUE]}
      BY <1>7 DEF KeepAliveRound
    <2> QED
      BY <1>0, <2>1 DEF DeviceStates
  <1>8. ASSUME NEW f \in DOMAIN boards, Call(f)
        PROVE  New(device[d])
    BY <1>1, <1>2, <1>8
    DEF Call, Query, Reboot, Substitute, Replace, Command, Stray, Unnamed
  <1>9. CASE UNCHANGED vars
    BY <1>1, <1>9 DEF vars, world
  <1>10. CASE Panic
    BY <1>1, <1>10 DEF Panic
  <1> QED
    BY <1>3, <1>4, <1>5, <1>6, <1>7, <1>8, <1>9, <1>10 DEF Next

(* A confirmation in a queue was there, or its sender had not confirmed. *)
LEMMA ConfirmsCame ==
  ASSUME Inv, Inv', AddressInv, ConfirmedOnce, NEW c \in Cans,
         Added(c) \/ \E s \in Nat : Dropped(c, s),
         NEW i \in Confirms(c)', NEW p, p = Place(c, i)'
  PROVE  /\ p \in pool /\ ~conn[p].addressed
         /\ \A j \in Confirms(c)' : Place(c, j)' = p => i = j
         /\ \A d \in Devices : Unsaid(d) /\ Slot(d) = p => ~Unsaid(d)'
  <1>1. ASSUME NEW k \in Confirms(c), Place(c, k) = p
        PROVE  /\ p \in pool /\ ~conn[p].addressed
               /\ \A d \in Devices : Unsaid(d) => Slot(d) # p
    BY <1>1 DEF ConfirmedOnce, AddressInv, SpeakersKnown, Confirms, Addressed
  <1>2. CASE \E s \in Nat : Dropped(c, s)
    <2>1. PICK s \in Nat : Dropped(c, s)
      BY <1>2
    <2>2. \A j \in Confirms(c)' : /\ j + s \in Confirms(c) /\ j \in Nat
                                  /\ Place(c, j + s) = Place(c, j)'
      <3>1. Confirms(c)' \subseteq DOMAIN sock'[c] /\ DOMAIN sock'[c] \subseteq Nat
        BY DEF Confirms, Inv, BusOK
      <3> QED
        BY <2>1, <3>1 DEF Dropped, Confirms, Place
    <2>3. \A j \in Confirms(c)' : Place(c, j)' = p => i = j
      <3>1. \A j \in Confirms(c)' : Place(c, j)' = p => i + s = j + s
        BY <2>2 DEF ConfirmedOnce
      <3> QED
        BY <2>1, <2>2, <3>1
    <2> QED
      BY <1>1, <2>2, <2>3
  <1>3. CASE Added(c)
    <2>1. PICK d \in Devices, n \in DOMAIN sock'[c] :
            /\ Says(d, sock'[c][n].kind) /\ Place(c, n)' = Slot(d)
            /\ \A j \in DOMAIN sock'[c] \ {n} :
                 j \in DOMAIN sock[c] /\ sock'[c][j] = sock[c][j]
      BY <1>3 DEF Added
    <2>2. \A j \in Confirms(c)' \ {n} : j \in Confirms(c) /\ Place(c, j) = Place(c, j)'
      BY <2>1 DEF Confirms, Place
    <2>3. n \in Confirms(c)' => Unsaid(d) /\ ~Unsaid(d)'
      BY <2>1, ServerAssumption DEF Confirms, Says
    <2>4. Unsaid(d) => /\ Slot(d) \in pool /\ ~conn[Slot(d)].addressed
                       /\ \A j \in Confirms(c) : Place(c, j) # Slot(d)
                       /\ \A e \in Devices : Unsaid(e) /\ Slot(e) = Slot(d) => e = d
      BY DEF Unsaid, Joining, ConfirmedOnce, AddressInv, SpeakersKnown, OneSpeaker
    <2>5. CASE i = n
      BY <2>1, <2>2, <2>3, <2>4, <2>5
    <2>6. CASE i # n
      <3>1. i \in Confirms(c) /\ Place(c, i) = p
        BY <2>2, <2>6
      <3>2. n \in Confirms(c)' => Place(c, n)' # p
        BY <2>1, <2>3, <2>4, <3>1
      <3>3. \A j \in Confirms(c)' : Place(c, j)' = p => i = j
        <4>1. \A j \in Confirms(c)' \ {n} : Place(c, j)' = p => i = j
          BY <2>2, <3>1 DEF ConfirmedOnce
        <4> QED
          BY <3>2, <4>1
      <3> QED
        BY <1>1, <3>1, <3>3
    <2> QED
      BY <2>5, <2>6
  <1> QED
    BY <1>2, <1>3

LEMMA ConfirmedOnceSteps ==
  ASSUME Inv, AddressInv, AddressInv', ConfirmedOnce, ~EarlyFrames, [Next]_vars,
         NothingLost'
  PROVE  ConfirmedOnce'
  <1>1. CASE \E why : Crash(why)
    <2>1. /\ \A h \in Handlers : ~conn'[h].addressed
          /\ \A c \in Cans : Confirms(c)' = {}
          /\ pool' = {}
      BY <1>1 DEF Crash, NewConnection, Confirms
    <2>2. \A d \in Devices : ~Unsaid(d)'
      BY <2>1 DEF AddressInv, SpeakersKnown, Unsaid, Joining
    <2> QED
      BY <2>1, <2>2 DEF ConfirmedOnce
  <1>2. CASE ~\E why : Crash(why)
    <2>1. ConnKept
      BY <1>2, ConnKeptSteps
    <2>2. \A c \in Cans : Added(c) \/ \E s \in Nat : Dropped(c, s)
      BY QueueSteps
    <2>3. ASSUME NEW c \in Cans, ReceiveConfirm(c), NEW h, h = Addressee(c)
          PROVE  /\ h \in pool /\ \A d \in Devices : Unsaid(d) => Slot(d) # h
                 /\ \A b \in Cans : \A i \in Confirms(b)' : Place(b, i)' # h
      <3>1. /\ 1 \in Confirms(c) /\ Place(c, 1) = h /\ h[1] = c
            /\ sock[c] # <<>> /\ Consume(c)
        BY <2>3, HeadSpeaks, HandlerKeeps
        DEF ReceiveConfirm, Accepted, Received, Kinds, Confirms, Addressed, Addressee
      <3>2. h \in pool /\ \A d \in Devices : Unsaid(d) => Slot(d) # h
        BY <2>3, <3>1 DEF ConfirmedOnce, ReceiveConfirm, Accepted
      <3>3. ASSUME NEW i \in Confirms(c)', Place(c, i)' = h
            PROVE  FALSE
        <4>1. /\ i \in DOMAIN sock'[c] /\ i + 1 \in DOMAIN sock[c] /\ i + 1 # 1
              /\ sock'[c][i] = sock[c][i + 1]
          BY <3>1, <3>3, TailDropped DEF Confirms, Dropped, Inv
        <4>2. i + 1 \in Confirms(c) /\ Place(c, i + 1) = h
          BY <3>3, <4>1 DEF Confirms, Place
        <4> QED
          BY <3>1, <4>1, <4>2 DEF ConfirmedOnce
      <3> QED
        BY <3>1, <3>2, <3>3 DEF Place
    <2>4. ASSUME NEW h \in Handlers, ~conn[h].addressed,
                 \A c \in Cans : ReceiveConfirm(c) => h # Addressee(c)
          PROVE  ~conn'[h].addressed
      BY <2>1, <2>4 DEF ConnKept
    <2>5. \A h \in Handlers \ pool : ~conn'[h].addressed
      BY <2>3, <2>4 DEF ConfirmedOnce
    <2>6. ASSUME NEW c \in Cans, NEW i \in Confirms(c)', NEW p, p = Place(c, i)'
          PROVE  /\ ~conn'[p].addressed
                 /\ \A j \in Confirms(c)' : Place(c, j)' = p => i = j
                 /\ \A d \in Devices : Unsaid(d)' => Slot(d)' # p
      <3>1. /\ p \in pool /\ ~conn[p].addressed
            /\ \A j \in Confirms(c)' : Place(c, j)' = p => i = j
            /\ \A d \in Devices : Unsaid(d) /\ Slot(d) = p => ~Unsaid(d)'
        BY <2>2, <2>6, NextInv, ConfirmsCame
      <3>2. ~conn'[p].addressed
        BY <2>3, <2>4, <2>6, <3>1 DEF Inv, RegistryOK
      <3>3. \A d \in Devices : Unsaid(d)' => Slot(d)' # p
        BY <3>1, UnsaidSteps
      <3> QED
        BY <3>1, <3>2, <3>3
    <2>7. ASSUME NEW d \in Devices, Unsaid(d)', NEW h, h = Slot(d)'
          PROVE  ~conn'[h].addressed
      <3>1. h \in pool' /\ pool' \subseteq Handlers
        BY <2>7, NextInv
        DEF Unsaid, Joining, AddressInv, SpeakersKnown, Inv, RegistryOK
      <3>2. CASE h \notin pool
        BY <2>5, <3>1, <3>2
      <3>3. CASE Unsaid(d) /\ h = Slot(d)
        BY <2>3, <2>4, <3>1, <3>3 DEF ConfirmedOnce
      <3> QED
        BY <2>7, <3>2, <3>3, UnsaidSteps
    <2>8. \A h \in Handlers \ pool' : ~conn'[h].addressed
      BY <2>1, <2>5 DEF ConnKept
    <2> QED
      BY <2>6, <2>7, <2>8 DEF ConfirmedOnce
  <1> QED
    BY <1>1, <1>2
-----------------------------------------------------------------------------
(* Who talks may.                                                          *)

LEMMA DataServedSteps ==
  ASSUME Inv, Inv', AddressInv, AddressInv', NamesInv, DirectoryInv, HandshakeInv,
         DataServed, ~EarlyFrames, [Next]_vars, NothingLost'
  PROVE  DataServed'
  <1> DEFINE Fine(r) == r.dead \/ r.frontend # 0
  <1>1. CASE \E why : Crash(why)
    BY <1>1 DEF Crash, DataServed
  <1>2. CASE ~\E why : Crash(why)
    <2>1. \A h \in Handlers : Fine(conn[h]) => Fine(conn'[h])
      <3>1. CASE Plain
        BY <3>1 DEF Plain
      <3>2. CASE conn' = conn
        BY <3>2
      <3>3. ASSUME NEW h, NEW f, Given(h, f)
            PROVE  \A g \in Handlers : Fine(conn[g]) => Fine(conn'[g])
        <4>1. /\ \A g \in Handlers \ {h} : conn'[g] = conn[g]
              /\ conn'[h].frontend = f /\ f \in DOMAIN boards'
          BY <3>3 DEF Given
        <4>2. f # 0
          BY <4>1 DEF Inv, RegistryOK
        <4> QED
          BY <4>1, <4>2
      <3> QED
        BY <1>2, <3>1, <3>2, <3>3, GivesKinds DEF HandshakeInv, OrderInv
    <2> HIDE DEF Fine
    <2>2. ASSUME NEW c \in Cans, NEW i \in DOMAIN sock'[c], NEW h, h = Place(c, i)',
                 NEW kind, kind = sock'[c][i].kind
          PROVE  /\ kind \in {"data", "event"} => kind \in Chatter
                 /\ kind = "data" => Fine(conn[h])
      <3>1. CASE \E s \in Nat : Dropped(c, s)
        <4>1. PICK k \in DOMAIN sock[c] : sock'[c][i] = sock[c][k]
          BY <2>2, <3>1 DEF Dropped
        <4> QED
          BY <2>2, <4>1 DEF DataServed, Place, Fine
      <3>2. CASE Added(c)
        <4>1. PICK d \in Devices, n \in DOMAIN sock'[c] :
                /\ Says(d, sock'[c][n].kind) /\ Place(c, n)' = Slot(d)
                /\ \A j \in DOMAIN sock'[c] \ {n} :
                     j \in DOMAIN sock[c] /\ sock'[c][j] = sock[c][j]
          BY <3>2 DEF Added
        <4>2. CASE i = n
          BY <2>2, <4>1, <4>2 DEF Says, HandshakeInv, InService, Fine
        <4>3. CASE i # n
          BY <2>2, <4>1, <4>3 DEF DataServed, Place, Fine
        <4> QED
          BY <4>2, <4>3
      <3> QED
        BY <2>2, <3>1, <3>2, QueueSteps
    <2>3. \A c \in Cans : \A i \in Addressed(c)' : Place(c, i)' \in Handlers
      BY DEF AddressInv, SpeakersKnown, Inv, RegistryOK
    <2>4. \A c \in Cans : \A i \in DOMAIN sock'[c] :
            sock'[c][i].kind = "data" => Fine(conn'[Place(c, i)'])
      BY <2>1, <2>2, <2>3 DEF Addressed
    <2>5. \A c \in Cans : \A i \in DOMAIN sock'[c] :
            sock'[c][i].kind \in {"data", "event"} => sock'[c][i].kind \in Chatter
      BY <2>2
    <2> QED
      BY <2>4, <2>5 DEF DataServed, Fine
  <1> QED
    BY <1>1, <1>2
-----------------------------------------------------------------------------
(* Descriptions are whole.                                                 *)

(* The sender of a frame that a handler takes. *)
LEMMA AcceptedSpeaks ==
  ASSUME Inv, NEW c \in Cans, NEW kind \in Kinds \ {"lottery"}, Accepted(c, kind)
  PROVE  \E h \in Handlers : \E d \in Devices :
           /\ h = Addressee(c) /\ h \in pool /\ ~conn[h].dead
           /\ d = Head(sock[c]).from /\ Speaks(d, h)
           /\ 1 \in DOMAIN sock[c] /\ Place(c, 1) = h
           /\ sock[c][1].kind = kind /\ sock[c][1].from = d
  <1>1. Received(c, kind) /\ Addressee(c) \in Handlers
    BY AcceptedFacts DEF Accepted
  <1>2. /\ 1 \in DOMAIN sock[c] /\ Place(c, 1) = Addressee(c)
        /\ sock[c][1] = Head(sock[c]) /\ Head(sock[c]).from \in Devices
        /\ Speaks(Head(sock[c]).from, Addressee(c))
    BY <1>1, HeadSpeaks DEF Addressed
  <1> QED
    BY <1>1, <1>2 DEF Accepted, Received

LEMMA BodiesTrueSteps ==
  ASSUME Inv, Inv', AddressInv, NamesInv, BodiesTrue, [Next]_vars
  PROVE  BodiesTrue'
  <1> DEFINE True(r) == r.body # NoBody =>
               \E d \in Devices : r = [name |-> NameOf[d], body |-> BodyOf[d]]
  <1>0. \A q \in Pointers : heap[q] \in Descriptors
    BY DEF Inv, RegistryOK
  <1>1. CASE heap' = heap
    BY <1>1 DEF BodiesTrue
  <1>2. CASE \E why : Crash(why)
    BY <1>2 DEF Crash, Blank, BodiesTrue
  <1>3. ASSUME NEW p \in Pointers, True(heap'[p]),
               \A q \in Pointers \ {p} : heap'[q] = heap[q]
        PROVE  BodiesTrue'
    BY <1>3 DEF BodiesTrue
  <1>4. ASSUME NEW c \in Cans, ReceiveName(c)
        PROVE  BodiesTrue'
    <2>1. PICK p \in Pointers, d \in Devices :
            /\ heap[p].name \in {NoName, NameOf[d]} /\ heap'[p].name = NameOf[d]
            /\ \A q \in Pointers \ {p} : heap'[q].name = heap[q].name
      BY <1>4, NameReceived
    <2>2. PICK r : heap' = [heap EXCEPT ![r].name = NameOf[Head(sock[c]).from]]
      BY <1>4 DEF ReceiveName
    <2>3. \A q \in Pointers : heap'[q].body = heap[q].body
      BY <1>0, <2>2 DEF Inv, RegistryOK, Descriptors
    <2>4. \A q \in Pointers : heap'[q] \in Descriptors
      BY DEF Inv, RegistryOK
    <2>5. \A q \in Pointers \ {p} : heap'[q] = heap[q]
      BY <1>0, <2>1, <2>3, <2>4 DEF Descriptors
    <2>6. True(heap'[p])
      <3> SUFFICES ASSUME heap'[p].body # NoBody
                   PROVE  True(heap'[p])
        OBVIOUS
      <3>1. PICK e \in Devices : heap[p] = [name |-> NameOf[e], body |-> BodyOf[e]]
        BY <2>3 DEF BodiesTrue
      <3>2. NameOf[e] = NameOf[d]
        BY <2>1, <3>1, ServerAssumption
      <3>3. heap'[p] = heap[p]
        BY <1>0, <2>1, <2>3, <2>4, <3>1, <3>2 DEF Descriptors
      <3> QED
        BY <3>1, <3>3
    <2> HIDE DEF True
    <2> QED
      BY <1>3, <2>5, <2>6
  <1>5. ASSUME NEW c \in Cans, ReceiveBody(c)
        PROVE  BodiesTrue'
    <2>1. PICK h \in Handlers, d \in Devices :
            /\ h = Addressee(c) /\ d = Head(sock[c]).from
            /\ Speaks(d, h)
      <3>1. Accepted(c, "body")
        BY <1>5 DEF ReceiveBody
      <3>2. "body" \in Kinds \ {"lottery"}
        BY DEF Kinds
      <3> QED
        BY <3>1, <3>2, AcceptedSpeaks
    <2>0. PICK p : p = conn[h].desc /\ p # NoPointer
      BY <1>5, <2>1 DEF ReceiveBody
    <2>2. p \in Pointers /\ heap[p].name = NameOf[d]
      BY <2>0, <2>1, SpeakerNamed
    <2>3. heap' = [heap EXCEPT ![p].body = BodyOf[d]]
      BY <1>5, <2>0, <2>1 DEF ReceiveBody
    <2>4. /\ heap'[p] = [heap[p] EXCEPT !.body = BodyOf[d]]
          /\ \A q \in Pointers \ {p} : heap'[q] = heap[q]
      BY <2>2, <2>3 DEF Inv, RegistryOK
    <2>5. heap'[p] = [name |-> NameOf[d], body |-> BodyOf[d]]
      BY <1>0, <2>2, <2>4 DEF Descriptors
    <2> QED
      BY <1>3, <2>2, <2>4, <2>5
  <1>6. ASSUME NEW c \in Cans, Receive(c), ~ReceiveName(c), ~ReceiveBody(c)
        PROVE  BodiesTrue'
    BY <1>1, <1>2, <1>6
    DEF Receive, ReceiveLottery, ReceiveForDead, ReceiveConfirm, ReceiveId,
        ReceiveAlive, ReceiveTalk, RegisterNew, RegisterReplacing, RegisterHolding,
        Abort, process
  <1>7. ASSUME NEW f \in DOMAIN boards, Call(f)
        PROVE  BodiesTrue'
    BY <1>1, <1>2, <1>7
    DEF Call, Query, Reboot, Substitute, Replace, Stray, Unnamed
  <1>8. ASSUME ~\E c \in Cans : Receive(c), ~\E f \in DOMAIN boards : Call(f)
        PROVE  BodiesTrue'
    BY <1>1, <1>2, <1>8
    DEF Next, Device, PowerOn, PowerOff, Enter, Speak, Answer, Talk,
        Bind, Invite, KeepAliveRound, Panic, vars, process
  <1> QED
    BY <1>4, <1>5, <1>6, <1>7, <1>8
-----------------------------------------------------------------------------
(* What is registered was heard.                                           *)

(* When a frame of the script is handled, what comes before it was.        *)
LEMMA HeardBefore ==
  ASSUME Inv, FramesInOrder, NEW c \in Cans, NEW kind \in Kinds, Accepted(c, kind),
         NEW line \in Lines, Rank(line) < Rank(kind)
  PROVE  \E h \in Handlers : \E d \in Devices :
           /\ h = Addressee(c) /\ Speaks(d, h) /\ Known(h, d, line)
  <1>0. kind # "lottery"
    BY RankFacts
  <1>1. PICK h \in Handlers, d \in Devices :
          /\ h = Addressee(c) /\ ~conn[h].dead /\ Speaks(d, h)
          /\ 1 \in DOMAIN sock[c] /\ Place(c, 1) = h
          /\ sock[c][1].kind = kind /\ sock[c][1].from = d
    BY <1>0, AcceptedSpeaks
  <1>2. By(c, 1, h, d, line)
    BY <1>1 DEF FramesInOrder
  <1>3. ~Ahead(c, 1, h, line)
    BY DEF Ahead, Inv, BusOK
  <1> QED
    BY <1>1, <1>2, <1>3 DEF By

(* A handler that is registered knows its board, and goes under the key of  *)
(* the name it heard.                                                      *)
LEMMA RegisterKnows ==
  ASSUME Inv, AddressInv, NamesInv, DirectoryInv, FramesInOrder, IdsTrue,
         NEW c \in Cans, InitAccepted(c)
  PROVE  \E h \in Handlers : \E p, k \in Pointers : \E d \in Devices :
           /\ h = Addressee(c) /\ p = conn[h].desc
           /\ conn[h].addressed /\ conn[h].id = IdOf[d]
           /\ heap[p].name = NameOf[d] /\ heap[p].body # NoBody
           /\ heap[k].name = NameOf[d] /\ Keys(p) = {k}
           /\ \/ descriptor_map[NameOf[d]] = k
              \/ descriptor_map[NameOf[d]] = NoPointer /\ k = p
           /\ descriptor_map'[NameOf[d]] = k
           /\ \A x \in Names \ {NameOf[d]} : descriptor_map'[x] = descriptor_map[x]
  <1>1. Accepted(c, "init") /\ "init" \in Kinds
    BY DEF InitAccepted, InitComplete, Kinds
  <1>2. "body" \in Lines /\ Rank("body") < Rank("init")
    BY RankFacts DEF Lines
  <1>3. PICK h \in Handlers, d \in Devices :
          h = Addressee(c) /\ Speaks(d, h) /\ Known(h, d, "body")
    BY <1>1, <1>2, HeardBefore
  <1>4. Knows(h) /\ conn[h].id = IdOf[d] /\ conn[h].addressed
    BY <1>3, InitKnows DEF Knows
  <1>5. PICK p : p = conn[h].desc
    OBVIOUS
  <1>6. /\ p # NoPointer /\ heap[p].body # NoBody
        /\ heap[p].name = NameOf[d] /\ p \in Pointers
    BY <1>3, <1>4, <1>5, SpeakerNamed DEF Known, Knows
  <1>7. PICK k \in Pointers :
          /\ Keys(p) = {k} /\ heap[k].name = NameOf[d]
          /\ descriptor_map[NameOf[d]] = k \/ descriptor_map[NameOf[d]] = NoPointer
          /\ descriptor_map[NameOf[d]] = NoPointer => handlers[k] = <<>>
          /\ descriptor_map'[NameOf[d]] = k
          /\ \A x \in Names \ {NameOf[d]} : descriptor_map'[x] = descriptor_map[x]
    BY <1>3, <1>5, <1>6, RegisterFacts
  <1>8. handlers[k] = <<>> => k = p
    BY <1>7 DEF Keys
  <1> QED
    BY <1>3, <1>4, <1>5, <1>6, <1>7, <1>8

(* What the registry goes by stays what it was. *)
MapGrows ==
  \A n \in Names : descriptor_map[n] # NoPointer => descriptor_map'[n] = descriptor_map[n]

(* Instances are added, or given another handler. *)
EntriesKept ==
  \A k \in Pointers : /\ DOMAIN handlers'[k] = DOMAIN handlers[k]
                      /\ \A i \in DOMAIN handlers[k] :
                           /\ handlers'[k][i].id = handlers[k][i].id
                           /\ handlers'[k][i].backend \in {handlers[k][i].backend} \cup Handlers

FrontsKept ==
  /\ DOMAIN boards' = DOMAIN boards
  /\ \A f \in DOMAIN boards : boards'[f].desc = boards[f].desc

LEMMA KeysKept ==
  ASSUME Inv, KeysDescribed, BodiesKept, MapGrows,
         \A n \in Names : descriptor_map[n] = NoPointer =>
           \/ descriptor_map'[n] = NoPointer
           \/ heap'[descriptor_map'[n]].body # NoBody
  PROVE  KeysDescribed'
  <1>1. \A n \in Names : descriptor_map[n] # NoPointer => descriptor_map[n] \in Pointers
    BY DEF Inv, RegistryOK
  <1> QED
    BY <1>1 DEF KeysDescribed, MapGrows, BodiesKept

LEMMA EntriesTrueKept ==
  ASSUME Inv, DirectoryInv, EntriesTrue, NamesFixed, EntriesKept
  PROVE  EntriesTrue'
  <1> SUFFICES ASSUME NEW k \in Pointers, NEW i \in DOMAIN handlers'[k]
               PROVE  /\ handlers'[k][i].backend # NoHandler
                      /\ \E d \in Devices : /\ heap'[k].name = NameOf[d]
                                            /\ handlers'[k][i].id = IdOf[d]
    BY DEF EntriesTrue
  <1>1. /\ i \in DOMAIN handlers[k] /\ handlers'[k][i].id = handlers[k][i].id
        /\ handlers'[k][i].backend \in {handlers[k][i].backend} \cup Handlers
    BY DEF EntriesKept
  <1>2. heap'[k].name = heap[k].name
    BY <1>1 DEF DirectoryInv, KeysMapped, NamesFixed
  <1>3. handlers[k][i].backend # NoHandler
    BY <1>1 DEF EntriesTrue
  <1>4. PICK d \in Devices : heap[k].name = NameOf[d] /\ handlers[k][i].id = IdOf[d]
    BY <1>1 DEF EntriesTrue
  <1> QED
    BY <1>1, <1>2, <1>3, <1>4, ConnectionAssumption

LEMMA FrontKeyedKept ==
  ASSUME Inv, DirectoryInv, FrontsKeyed, NamesFixed, MapGrows, NEW f \in DOMAIN boards,
         NEW p, p = boards[f].desc
  PROVE  p = descriptor_map'[heap'[p].name]
  <1>1. p \in Pointers /\ p # NoPointer /\ heap[p].name \in Names
    BY FrontFacts, ConnectionAssumption DEF DirectoryInv, FrontsNamed, Named
  <1>2. heap'[p].name = heap[p].name
    BY <1>1 DEF NamesFixed, Named
  <1>3. p = descriptor_map[heap[p].name]
    BY DEF FrontsKeyed
  <1> QED
    BY <1>1, <1>2, <1>3 DEF MapGrows

LEMMA FrontsKeyedKept ==
  ASSUME Inv, DirectoryInv, FrontsKeyed, NamesFixed, MapGrows, FrontsKept
  PROVE  FrontsKeyed'
  BY FrontKeyedKept DEF FrontsKeyed, FrontsKept

(* The steps of RegisterNewHandler. *)
LEMMA RegisterTrue ==
  ASSUME Inv, AddressInv, NamesInv, DirectoryInv, FramesInOrder, IdsTrue,
         RegistryTrue, NamesFixed, BodiesKept, NEW c \in Cans, Registers(c)
  PROVE  RegistryTrue'
  <1>1. InitAccepted(c) /\ heap' = heap
    BY DEF Registers, RegisterNew, RegisterReplacing, RegisterHolding
  <1>2. PICK h \in Handlers, p \in Pointers, k \in Pointers, d \in Devices :
          /\ h = Addressee(c) /\ p = conn[h].desc
          /\ conn[h].addressed /\ conn[h].id = IdOf[d]
          /\ heap[p].name = NameOf[d] /\ heap[p].body # NoBody
          /\ heap[k].name = NameOf[d] /\ Keys(p) = {k}
          /\ \/ descriptor_map[NameOf[d]] = k
             \/ descriptor_map[NameOf[d]] = NoPointer /\ k = p
          /\ descriptor_map'[NameOf[d]] = k
          /\ \A x \in Names \ {NameOf[d]} : descriptor_map'[x] = descriptor_map[x]
    BY <1>1, RegisterKnows
  <1>3. MapGrows
    BY <1>2 DEF MapGrows
  <1>4. KeysDescribed'
    <2>1. \A n \in Names : descriptor_map[n] = NoPointer =>
            \/ descriptor_map'[n] = NoPointer
            \/ heap'[descriptor_map'[n]].body # NoBody
      BY <1>1, <1>2, ConnectionAssumption
    <2> QED
      BY <1>3, <2>1, KeysKept DEF RegistryTrue
  <1>5. CASE RegisterHolding(c)
    <2>1. handlers' = handlers /\ boards' = boards
      BY <1>5 DEF RegisterHolding
    <2>2. EntriesKept /\ FrontsKept
      BY <2>1 DEF EntriesKept, FrontsKept
    <2> QED
      BY <1>3, <1>4, <2>2, EntriesTrueKept, FrontsKeyedKept DEF RegistryTrue
  <1>6. CASE RegisterReplacing(c)
    <2>1. PICK i \in First(Owners(k, conn[h].id)) :
            LET old == handlers[k][i].backend
            IN  /\ handlers' = [handlers EXCEPT ![k][i].backend = h]
                /\ boards' = ReplaceBackendHandler(conn[old].frontend, h)
      <3>1. h = Addressee(c) /\ Keys(conn[h].desc) = {k}
        BY <1>2
      <3>2. PICK q \in Keys(conn[h].desc) : \E i \in First(Owners(q, conn[h].id)) :
              /\ handlers' = [handlers EXCEPT ![q][i].backend = h]
              /\ boards' = ReplaceBackendHandler(conn[handlers[q][i].backend].frontend, h)
        <4> HIDE <1>2
        <4> QED
          BY <1>6, <3>1, Zenon DEF RegisterReplacing
      <3>3. q = k
        BY <3>1
      <3> QED
        BY <3>2, <3>3, Zenon
    <2>2. /\ i \in DOMAIN handlers[k] /\ handlers[k][i].backend # NoHandler
      BY DEF First, Owners
    <2>3. PICK old, f : old = handlers[k][i].backend /\ f = conn[old].frontend
      OBVIOUS
    <2>4. f \in DOMAIN boards
      BY <2>2, <2>3, OwnerServed
    <2>5. FrontChanges(f, h) /\ PlaceChanges(k, i, h)
      BY <2>1, <2>2, <2>3, <2>4, FrontFields, PlaceFields
    <2>6. EntriesKept /\ FrontsKept
      BY <2>5 DEF EntriesKept, FrontsKept, FrontChanges, PlaceChanges
    <2> QED
      BY <1>3, <1>4, <2>6, EntriesTrueKept, FrontsKeyedKept DEF RegistryTrue
  <1>7. CASE RegisterNew(c)
    <2>1. PICK e : e = GetBoard(h)
      OBVIOUS
    <2>2. /\ Owners(k, conn[h].id) = {}
          /\ handlers' = [handlers EXCEPT ![k] = Append(@, e)]
          /\ boards' = Append(boards, e)
      BY <1>2, <1>7, <2>1 DEF RegisterNew
    <2>3. e \in Instances /\ e.desc = p /\ e.id = IdOf[d] /\ e.backend = h
      BY <1>2, <2>1, GetBoardFacts DEF GetBoard, Inv
    <2>4. PICK m, w : PlaceAdded(k, m, e) /\ FrontAdded(w, e)
      BY <2>2, <2>3, AddedFields
    <2>5. EntriesTrue'
      <3> SUFFICES ASSUME NEW l \in Pointers, NEW j \in DOMAIN handlers'[l]
                   PROVE  /\ handlers'[l][j].backend # NoHandler
                          /\ \E b \in Devices : /\ heap'[l].name = NameOf[b]
                                                /\ handlers'[l][j].id = IdOf[b]
        BY DEF EntriesTrue
      <3>1. CASE l = k /\ j = m
        BY <1>1, <1>2, <2>3, <2>4, <3>1, ConnectionAssumption DEF PlaceAdded
      <3>2. CASE ~(l = k /\ j = m)
        <4>1. j \in DOMAIN handlers[l] /\ handlers'[l][j] = handlers[l][j]
          BY <2>4, <3>2 DEF PlaceAdded
        <4> QED
          BY <1>1, <4>1 DEF RegistryTrue, EntriesTrue
      <3> QED
        BY <3>1, <3>2
    (* A type has one instance: if it had a key, it would have an owner.     *)
    <2>6. OneInstance => k = p
      <3> SUFFICES ASSUME OneInstance, descriptor_map[NameOf[d]] = k
                   PROVE  FALSE
        BY <1>2
      <3>1. NameOf[d] \in Names /\ k # NoPointer
        BY ServerAssumption, ConnectionAssumption
      <3>2. handlers[k] # <<>> /\ handlers[k] \in Seq(Instances)
        BY <3>1 DEF DirectoryInv, KeysMapped, Inv, RegistryOK
      <3>3. 1 \in DOMAIN handlers[k]
        BY <3>2
      <3>4. PICK b \in Devices : NameOf[d] = NameOf[b] /\ handlers[k][1].id = IdOf[b]
        BY <1>2, <3>3 DEF RegistryTrue, EntriesTrue
      <3>5. handlers[k][1].id = IdOf[d] /\ handlers[k][1].backend # NoHandler
        BY <3>3, <3>4 DEF OneInstance, RegistryTrue, EntriesTrue
      <3>6. 1 \in Owners(k, conn[h].id)
        BY <1>2, <3>3, <3>5 DEF Owners
      <3> QED
        BY <2>2, <3>6
    <2>7. ASSUME OneInstance
          PROVE  FrontsKeyed'
      <3>1. e.desc = descriptor_map'[heap'[e.desc].name]
        BY <1>1, <1>2, <2>3, <2>6, <2>7
      <3>2. \A f \in DOMAIN boards :
              boards[f].desc = descriptor_map'[heap'[boards[f].desc].name]
        BY <1>3, <2>7, FrontKeyedKept DEF RegistryTrue
      <3> QED
        BY <2>4, <3>1, <3>2 DEF FrontsKeyed, FrontAdded
    <2> QED
      BY <1>4, <2>5, <2>7 DEF RegistryTrue
  <1> QED
    BY <1>5, <1>6, <1>7 DEF Registers

LEMMA RegistryTrueSteps ==
  ASSUME Inv, AddressInv, AddressInv', NamesInv, DirectoryInv, FramesInOrder, IdsTrue,
         RegistryTrue, ~EarlyFrames, [Next]_vars
  PROVE  RegistryTrue'
  <1>1. CASE \E why : Crash(why)
    <2>1. /\ \A n \in Names : descriptor_map'[n] = NoPointer
          /\ \A p \in Pointers : DOMAIN handlers'[p] = {}
          /\ DOMAIN boards' = {}
      BY <1>1 DEF Crash
    <2> QED
      BY <2>1 DEF RegistryTrue, KeysDescribed, EntriesTrue, FrontsKeyed
  <1>2. CASE ~\E why : Crash(why)
    <2>1. NamesFixed /\ BodiesKept
      BY <1>2, NamesSteps, BodiesKeptSteps
    <2>2. ASSUME descriptor_map' = descriptor_map, EntriesKept, FrontsKept
          PROVE  RegistryTrue'
      <3>1. MapGrows
        BY <2>2 DEF MapGrows
      <3>2. KeysDescribed'
        BY <2>1, <2>2, <3>1, KeysKept DEF RegistryTrue
      <3> QED
        BY <2>1, <2>2, <3>1, <3>2, EntriesTrueKept, FrontsKeyedKept DEF RegistryTrue
    <2>3. CASE Plain
      <3>1. EntriesKept /\ FrontsKept /\ descriptor_map' = descriptor_map
        BY <2>3 DEF Plain, registry, EntriesKept, FrontsKept
      <3> QED
        BY <2>2, <3>1
    <2>4. ASSUME NEW f \in DOMAIN boards, NEW reboot \in BOOLEAN, Substitute(f, reboot)
          PROVE  RegistryTrue'
      <3>1. PICK k \in Pointers :
              \E i \in DOMAIN handlers[k], h \in Handlers : Replace(f, k, i, h, reboot)
        BY <2>4, SubstituteFacts
      <3>5. PICK i \in DOMAIN handlers[k], h \in Handlers : Replace(f, k, i, h, reboot)
        BY <3>1
      <3>2. /\ handlers' = [handlers EXCEPT ![k][i].backend = h]
            /\ boards' = ReplaceBackendHandler(f, h)
            /\ descriptor_map' = descriptor_map
        BY <3>5 DEF Replace
      <3>3. FrontChanges(f, h) /\ PlaceChanges(k, i, h)
        BY <3>2, FrontFields, PlaceFields
      <3>4. EntriesKept /\ FrontsKept
        BY <3>3 DEF EntriesKept, FrontsKept, FrontChanges, PlaceChanges
      <3> QED
        BY <2>2, <3>2, <3>4
    <2> QED
      BY <1>2, <2>1, <2>3, <2>4, RegisterTrue, StepKinds
  <1> QED
    BY <1>1, <1>2
-----------------------------------------------------------------------------
(* Why no frame and no call fails.                                         *)

LEMMA DescriptionFirst ==
  ASSUME Inv, FramesInOrder, NEW c \in Cans, NEW kind \in {"body", "id", "init"},
         Accepted(c, kind)
  PROVE  conn[Addressee(c)].desc # NoPointer
  <1>1. kind \in Kinds /\ "name" \in Lines
    BY DEF Kinds, Lines
  <1>2. Rank("name") < Rank(kind)
    BY RankFacts
  <1>3. PICK h \in Handlers, d \in Devices : h = Addressee(c) /\ Known(h, d, "name")
    BY <1>1, <1>2, HeardBefore
  <1> QED
    BY <1>3 DEF Known

(* Who completes a handshake is described as every board of its type is.   *)
LEMMA InitAgrees ==
  ASSUME Inv, NamesInv, DirectoryInv, FramesInOrder, BodiesTrue, KeysDescribed, Uniform,
         NEW c \in Cans, Accepted(c, "init"), NEW p, p = conn[Addressee(c)].desc
  PROVE  /\ p # NoPointer /\ p \in Pointers /\ HandshakeComplete(p)
         /\ \A k \in Keys(p) : SameDescriptor(k, p)
  <1>1. "init" \in Kinds /\ "body" \in Lines
    BY DEF Kinds, Lines
  <1>2. Rank("body") < Rank("init")
    BY RankFacts
  <1>3. PICK h \in Handlers, d \in Devices :
          h = Addressee(c) /\ Speaks(d, h) /\ Known(h, d, "body")
    BY <1>1, <1>2, HeardBefore
  <1>4. p # NoPointer /\ heap[p].body # NoBody
    BY <1>3 DEF Known
  <1>5. p \in Pointers /\ heap[p].name \in Names
    BY <1>3, <1>4, SpeakerNamed, ServerAssumption
  <1>6. \A q \in Pointers :
          heap[q].body # NoBody /\ heap[q].name = heap[p].name => SameDescriptor(q, p)
    <2> SUFFICES ASSUME NEW q \in Pointers, heap[q].body # NoBody,
                        heap[q].name = heap[p].name
                 PROVE  heap[q] = heap[p]
      BY DEF SameDescriptor
    <2>1. PICK b, e \in Devices : /\ heap[p] = [name |-> NameOf[b], body |-> BodyOf[b]]
                                  /\ heap[q] = [name |-> NameOf[e], body |-> BodyOf[e]]
      BY <1>4, <1>5 DEF BodiesTrue
    <2>2. NameOf[b] = NameOf[e]
      BY <2>1
    <2> QED
      BY <2>1, <2>2 DEF Uniform
  <1>7. \A k : /\ k = descriptor_map[heap[p].name] /\ k # NoPointer
               => k \in Pointers /\ SameDescriptor(k, p)
    <2>1. \A n \in Names : descriptor_map[n] \in Pointers \cup {NoPointer}
      BY DEF Inv, RegistryOK
    <2> QED
      BY <1>5, <1>6, <2>1 DEF KeysDescribed, DirectoryInv, KeysMapped
  <1>8. ASSUME NEW k \in Keys(p)
        PROVE  SameDescriptor(k, p)
    <2>1. \/ k = p
          \/ k \in Pointers /\ handlers[k] # <<>> /\ heap[k].name = heap[p].name
      BY <1>8 DEF Keys
    <2>2. CASE k = p
      BY <2>2 DEF SameDescriptor
    <2>3. CASE k # p
      <3>1. k = descriptor_map[heap[p].name]
        BY <2>1, <2>3 DEF DirectoryInv, KeysMapped
      <3> QED
        BY <1>7, <2>1, <2>3, <3>1, ConnectionAssumption
    <2> QED
      BY <2>2, <2>3
  <1> QED
    BY <1>4, <1>5, <1>7, <1>8 DEF HandshakeComplete

(* Who owns a place in the registry, or is kept on hold, has told its name. *)
LEMMA RegisteredNamed ==
  ASSUME Inv, DirectoryInv, RegisteredRight
  PROVE  /\ \A h \in holden : ~Nameless(h)
         /\ \A k \in Pointers : \A i \in DOMAIN handlers[k] :
              handlers[k][i].backend # NoHandler => ~Nameless(handlers[k][i].backend)
         /\ \A f \in DOMAIN boards :
              boards[f].backend # NoHandler => ~Nameless(boards[f].backend)
  <1>1. \A h \in Registered : ~Nameless(h)
    BY DEF RegisteredRight, Knows, Nameless
  <1>2. \A h \in holden : h \in Registered
    BY DEF Registered, Inv, RegistryOK
  <1>3. ASSUME NEW k \in Pointers, NEW i \in DOMAIN handlers[k],
               NEW b, b = handlers[k][i].backend, b # NoHandler
        PROVE  b \in Registered
    <2>1. b \in Handlers
      BY <1>3, OwnerFacts DEF Inv
    <2>2. conn[b].frontend \in DOMAIN boards
      BY <1>3, OwnerServed
    <2>3. conn[b].frontend # 0
      BY <2>2, FrontFacts
    <2> QED
      BY <2>1, <2>3 DEF Registered
  <1>4. ASSUME NEW f \in DOMAIN boards, NEW b, b = boards[f].backend, b # NoHandler
        PROVE  b \in Registered
    <2>1. b \in Handlers /\ conn[b].frontend = f /\ f # 0
      BY <1>4, FrontFacts DEF DirectoryInv, FrontsPoint
    <2> QED
      BY <2>1 DEF Registered
  <1> QED
    BY <1>1, <1>2, <1>3, <1>4

LEMMA OnlyFull ==
  ASSUME Inv, AddressInv, NamesInv, DirectoryInv, FramesInOrder, RegisteredRight,
         FaultInv, Uniform, "event" \notin Chatter,
         NEW c \in Cans, NEW why, Violates(c, why)
  PROVE  why = "pool_exhausted"
  <1> SUFFICES ASSUME why # "pool_exhausted"
               PROVE  FALSE
    OBVIOUS
  <1> DEFINE h == Addressee(c)
             r == conn[h]
  <1>1. \A kind \in Kinds \ {"lottery"} : Received(c, kind) => h \in pool
    BY HeadSpeaks DEF AddressInv, SpeakersKnown
  <1>2. ASSUME Accepted(c, "confirm")
        PROVE  ~r.addressed
    <2>1. "confirm" \in Kinds \ {"lottery"}
      BY DEF Kinds
    <2>2. 1 \in Confirms(c) /\ Place(c, 1) = h
      BY <1>2, <2>1, AcceptedSpeaks DEF Confirms
    <2> QED
      BY <2>2 DEF FaultInv, ConfirmedOnce
  <1>3. ASSUME NEW kind \in {"data", "event"}, Accepted(c, kind)
        PROVE  kind = "data" /\ r.frontend # 0
    <2>1. kind \in Kinds \ {"lottery"}
      BY DEF Kinds
    <2>2. /\ 1 \in DOMAIN sock[c] /\ Place(c, 1) = h /\ sock[c][1].kind = kind
          /\ ~r.dead
      BY <1>3, <2>1, AcceptedSpeaks
    <2> QED
      BY <2>2 DEF FaultInv, DataServed
  <1>4. \A kind \in {"body", "id", "init"} : Accepted(c, kind) => r.desc # NoPointer
    BY DescriptionFirst
  <1>5. ASSUME Accepted(c, "init")
        PROVE  /\ HandshakeComplete(r.desc) /\ r.desc \in Pointers
               /\ \A k \in Keys(r.desc) : SameDescriptor(k, r.desc)
    BY <1>5, InitAgrees DEF FaultInv, RegistryTrue
  <1>6. ASSUME InitComplete(c), NEW k \in Keys(r.desc), NEW i \in First(Owners(k, r.id))
        PROVE  ~Nameless(handlers[k][i].backend)
    <2>1. r.desc \in Pointers
      BY <1>5, <1>6 DEF InitComplete
    <2>2. k \in Pointers
      BY <1>6, <2>1 DEF Keys
    <2>3. i \in DOMAIN handlers[k] /\ handlers[k][i].backend # NoHandler
      BY <1>6 DEF First, Owners
    <2> QED
      BY <2>2, <2>3, RegisteredNamed
  <1> HIDE DEF h, r
  <1>7. \/ \E kind \in Kinds \ {"lottery"} : Received(c, kind) /\ h \notin pool
        \/ Accepted(c, "confirm") /\ r.addressed
        \/ (\E kind \in {"body", "id", "event", "init"} : Accepted(c, kind))
             /\ r.desc = NoPointer
        \/ /\ Accepted(c, "init")
           /\ HandshakeComplete(r.desc) =>
                \E k \in Keys(r.desc) : ~SameDescriptor(k, r.desc)
        \/ /\ InitComplete(c)
           /\ \E k \in Keys(r.desc) :
                \E i \in First(Owners(k, r.id)) : Nameless(handlers[k][i].backend)
        \/ Accepted(c, "data") /\ r.frontend = 0
    BY DEF Violates, h, r
  <1> QED
    BY <1>1, <1>2, <1>3, <1>4, <1>5, <1>6, <1>7

LEMMA NeverUnnamed ==
  ASSUME Inv, DirectoryInv, RegisteredRight, NEW f \in DOMAIN boards
  PROVE  ~Unnamed(f)
  <1> SUFFICES ASSUME Unnamed(f)
               PROVE  FALSE
    OBVIOUS
  <1>1. boards[f].desc \in Pointers
    BY FrontFacts
  <1>2. CASE Stale(f)
    <2>1. \A i \in First(Candidates(f)) : i \in DOMAIN handlers[boards[f].desc]
      BY DEF First, Candidates
    <2> QED
      BY <1>1, <1>2, <2>1, RegisteredNamed DEF Unnamed
  <1>3. CASE ~Stale(f)
    BY <1>3, RegisteredNamed DEF Unnamed, Stale
  <1> QED
    BY <1>2, <1>3

LEMMA NeverStray ==
  ASSUME Inv, DirectoryInv, EntriesTrue, FrontsKeyed, NEW f \in DOMAIN boards
  PROVE  ~Stray(f)
  <1>1. PICK k : k = boards[f].desc
    OBVIOUS
  <1>2. k \in Pointers /\ k = descriptor_map[heap[k].name]
    BY <1>1, FrontFacts DEF FrontsKeyed
  <1>3. PICK i \in DOMAIN handlers[k] : handlers[k][i].id = boards[f].id
    BY <1>1, <1>2 DEF DirectoryInv, CopiesAgree, Identity
  <1>4. \A j \in DOMAIN handlers[k] : handlers[k][j].backend # NoHandler
    BY <1>2 DEF EntriesTrue
  <1>5. \A j \in Candidates(f) : i <= j
    <2> SUFFICES ASSUME NEW j \in DOMAIN handlers[k], handlers[k][j].id = boards[f].id
                 PROVE  i <= j
      BY <1>1 DEF Candidates
    <2>1. i \in Nat /\ j \in Nat
      BY <1>2 DEF Inv, RegistryOK
    <2>2. ~(j < i)
      BY <1>2, <1>3, <1>4 DEF DirectoryInv, LastOwns
    <2> QED
      BY <2>1, <2>2
  <1>6. i \in First(Candidates(f))
    BY <1>1, <1>3, <1>5 DEF First, Candidates
  <1> QED
    BY <1>1, <1>4, <1>6, <1>3 DEF Stray
-----------------------------------------------------------------------------
(* How the process may die.                                                *)

Deaths == {"panic", "pool_exhausted"} \cup (IF OneInstance THEN {} ELSE {"bank_missing"})

LEMMA FaultSteps ==
  ASSUME Inv, AddressInv, NamesInv, DirectoryInv, HandshakeInv, FaultInv,
         Uniform, "event" \notin Chatter, [Next]_vars, fault \in Deaths \cup {"none"}
  PROVE  fault' \in Deaths \cup {"none"}
  <1>1. CASE fault' = fault
    BY <1>1
  <1>2. ASSUME NEW d \in Devices, Device(d)
        PROVE  fault' = fault
    BY <1>2 DEF Device, PowerOn, PowerOff, Enter, Speak, Answer, Talk, process
  <1>3. ASSUME NEW c \in Cans, Bind(c) \/ Invite(c) \/ KeepAliveRound(c)
        PROVE  fault' \in {fault, "none"}
    BY <1>3 DEF Bind, Invite, KeepAliveRound, process
  <1>4. ASSUME NEW c \in Cans, Receive(c)
        PROVE  fault' \in {fault, "pool_exhausted"}
    <2>1. CASE Abort(c)
      <3>1. PICK why \in Reasons : Violates(c, why) /\ Crash(why)
        BY <2>1 DEF Abort
      <3>2. why = "pool_exhausted"
        BY <3>1, OnlyFull DEF HandshakeInv, OrderInv
      <3> QED
        BY <3>1, <3>2 DEF Crash
    <2>2. CASE ~Abort(c)
      BY <1>4, <2>2
      DEF Receive, ReceiveLottery, ReceiveForDead, ReceiveConfirm, ReceiveName,
          ReceiveBody, ReceiveId, ReceiveAlive, ReceiveTalk, RegisterNew,
          RegisterReplacing, RegisterHolding, process
    <2> QED
      BY <2>1, <2>2
  <1>5. ASSUME NEW f \in DOMAIN boards, Call(f)
        PROVE  fault' = fault \/ (~OneInstance /\ fault' = "bank_missing")
    <2>1. ~Unnamed(f)
      BY NeverUnnamed DEF HandshakeInv
    <2>2. CASE Stray(f)
      <3>1. fault' = "bank_missing"
        BY <2>2 DEF Stray, Crash
      <3>2. OneInstance => ~Stray(f)
        BY NeverStray DEF FaultInv, RegistryTrue
      <3> QED
        BY <2>2, <3>1, <3>2
    <2>3. CASE Query(f) \/ Reboot(f)
      BY <2>3 DEF Query, Reboot, Substitute, Replace
    <2> QED
      BY <1>5, <2>1, <2>2, <2>3 DEF Call
  <1>6. CASE Panic
    BY <1>6 DEF Panic, Crash, Deaths
  <1>7. CASE UNCHANGED vars
    BY <1>1, <1>7 DEF vars, process
  <1>8. CASE \E f \in DOMAIN boards : Call(f)
    BY <1>5, <1>8 DEF Deaths
  <1>9. CASE \E c \in Cans : Bind(c) \/ Invite(c) \/ KeepAliveRound(c) \/ Receive(c)
    BY <1>3, <1>4, <1>9 DEF Deaths
  <1> QED
    BY <1>1, <1>2, <1>6, <1>7, <1>8, <1>9 DEF Next

LEMMA InitFault == Init => FaultInv /\ fault \in Deaths \cup {"none"}
  <1> SUFFICES ASSUME Init
               PROVE  FaultInv
    BY DEF Init
  <1>1. /\ \A c \in Cans : DOMAIN sock[c] = {} /\ can[c] # "invited"
        /\ \A h \in Handlers : ~conn[h].addressed
        /\ DOMAIN boards = {} /\ \A p \in Pointers : DOMAIN handlers[p] = {}
        /\ \A n \in Names : descriptor_map[n] = NoPointer
        /\ \A p \in Pointers : heap[p].body = NoBody
    BY DEF Init, NewConnection, Blank
  <1>2. \A d \in Devices : ~Unsaid(d)
    BY <1>1, ServerAssumption DEF Unsaid, Joining, OnAir
  <1>3. \A c \in Cans : Confirms(c) = {}
    BY <1>1 DEF Confirms
  <1> QED
    BY <1>1, <1>2, <1>3
    DEF FaultInv, ConfirmedOnce, DataServed, BodiesTrue, RegistryTrue, KeysDescribed,
        EntriesTrue, FrontsKeyed

LosslessFault == NothingLost => FaultInv /\ fault \in Deaths \cup {"none"}

LEMMA LosslessFaultSteps ==
  ASSUME ~EarlyFrames, Uniform, "event" \notin Chatter,
         Inv, Inv', Lossless, Lossless', LosslessFault, [Next]_vars
  PROVE  LosslessFault'
  <1> SUFFICES ASSUME NothingLost'
               PROVE  FaultInv' /\ fault' \in Deaths \cup {"none"}
    BY DEF LosslessFault, Deaths, OneInstance
  <1>1. NothingLost
    BY LostIsCounted DEF Inv
  <1>2. /\ AddressInv /\ AddressInv' /\ NamesInv /\ DirectoryInv /\ HandshakeInv
        /\ FaultInv /\ fault \in Deaths \cup {"none"}
    BY <1>1 DEF LosslessFault, Lossless, LosslessInv, LosslessDirectory, LosslessHandshake
  <1>3. FaultInv'
    BY <1>2, ConfirmedOnceSteps, DataServedSteps, BodiesTrueSteps, RegistryTrueSteps
    DEF FaultInv, HandshakeInv, OrderInv
  <1> QED
    BY <1>2, <1>3, FaultSteps

LEMMA DeathsUnlessLost ==
  ASSUME ~EarlyFrames, Uniform, "event" \notin Chatter
  PROVE  Spec => []LosslessFault
  <1>1. Init => LosslessFault
    BY InitFault DEF LosslessFault
  <1>2. Inv /\ Inv' /\ Lossless /\ Lossless' /\ LosslessFault /\ [Next]_vars
          => LosslessFault'
    BY LosslessFaultSteps
  <1> QED
    BY <1>1, <1>2, HandshakeUnlessLost, PTL DEF Spec

(* No ASSERT that a frame can reach fails, and no handler without a         *)
(* descriptor is followed, whatever boards do that speak in the order of    *)
(* the handshake: no unknown address (Tick), no second confirmation         *)
(* (ConfirmAddress), no description out of place (DescriptionDataInbound),  *)
(* no conflict of descriptors (HandshakeComplete, RegisterNewHandler), no   *)
(* data without a front end (FFDataInbound).  What is left are a full       *)
(* address pool and the instance that RequestNewHandler does not find.      *)
THEOREM NoAssertFails ==
  ASSUME ~EarlyFrames, Uniform, "event" \notin Chatter
  PROVE  Spec => [](fault \notin {"pool_exhausted", "bank_missing"} => NoFault)
  <1>1. LosslessFault => (fault \notin {"pool_exhausted", "bank_missing"} => NoFault)
    BY DEF LosslessFault, NoFault, Deaths
  <1> QED
    BY <1>1, DeathsUnlessLost, PTL

(* RequestNewHandler finds it if there is one instance of each type: then   *)
(* every front end was made with the descriptor that is the key of the      *)
(* registry, and nothing but a full pool stops the process.                 *)
THEOREM NoFaultUnlessFull ==
  ASSUME ~EarlyFrames, Uniform, OneInstance, "event" \notin Chatter
  PROVE  Spec => [](fault # "pool_exhausted" => NoFault)
  <1>1. LosslessFault => (fault # "pool_exhausted" => NoFault)
    BY DEF LosslessFault, NoFault, Deaths
  <1> QED
    BY <1>1, DeathsUnlessLost, PTL
=============================================================================
