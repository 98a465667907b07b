--------------------------- MODULE ConnectionFacts ---------------------------
(* What the operators of Connection do to a handler, field by field.       *)
EXTENDS Connection, TLAPS

LEMMA NewConnectionFacts ==
  /\ NewConnection \in Connections
  /\ ~NewConnection.dead /\ ~NewConnection.lost /\ NewConnection.answered
  /\ NewConnection.missed = 0
  /\ NewConnection.frontend = 0
  <1>1. NewConnection \in Connections
    BY ConnectionAssumption DEF NewConnection, Connections
  <1> QED
    BY <1>1 DEF NewConnection

(* A round over an answered handler only takes note of the new request. *)
LEMMA RequestAfterAnswer ==
  ASSUME NEW r \in Connections, r.answered
  PROVE  LET s == KeepAliveRequest(r)
         IN  /\ s.answered = FALSE /\ s.missed = r.missed
             /\ s.lost = r.lost /\ s.dead = r.dead
  BY DEF KeepAliveRequest, Connections

(* A round over a silent one counts a miss. *)
LEMMA RequestAfterSilence ==
  ASSUME NEW r \in Connections, ~r.answered
  PROVE  LET s == KeepAliveRequest(r)
         IN  /\ s.answered = FALSE /\ s.missed = r.missed + 1
             /\ s.lost
             /\ s.dead <=> r.dead \/ r.missed + 1 = DeadAfter
  BY DEF KeepAliveRequest, Connections

(* The counter stays in its range if the handler has not reached the end of *)
(* it: the hypothesis the code relies on without checking it.               *)
LEMMA RequestType ==
  ASSUME NEW r \in Connections, r.answered \/ r.missed < DeadAfter
  PROVE  KeepAliveRequest(r) \in Connections
  <1> DEFINE m == IF r.answered THEN r.missed ELSE r.missed + 1
  <1> HIDE DEF m
  <1>1. m \in 0 .. DeadAfter
    BY ConnectionAssumption DEF m, Connections
  <1>2. KeepAliveRequest(r) =
          [r EXCEPT !.missed = m, !.lost = r.lost \/ ~r.answered,
                    !.dead = r.dead \/ (~r.answered /\ m = DeadAfter),
                    !.answered = FALSE]
    BY DEF KeepAliveRequest, m, Connections
  <1>3. /\ (r.lost \/ ~r.answered) \in BOOLEAN
        /\ (r.dead \/ (~r.answered /\ m = DeadAfter)) \in BOOLEAN
    OBVIOUS
  <1> QED
    BY <1>1, <1>2, <1>3 DEF Connections

(* No other field is touched by a round. *)
LEMMA RequestKeeps ==
  ASSUME NEW r \in Connections
  PROVE  LET s == KeepAliveRequest(r)
         IN  /\ s.desc = r.desc /\ s.id = r.id
             /\ s.frontend = r.frontend /\ s.addressed = r.addressed
  BY DEF KeepAliveRequest, Connections

LEMMA AnswerFacts ==
  ASSUME NEW r \in Connections, NEW w \in BOOLEAN
  PROVE  LET s == KeepAliveAnswer(r, w)
         IN  /\ s \in Connections
             /\ s.answered /\ ~s.lost /\ s.missed = 0
             /\ s.dead = r.dead /\ s.desc = r.desc /\ s.id = r.id
             /\ s.frontend = r.frontend /\ s.addressed = r.addressed
  <1>1. 0 \in 0 .. DeadAfter
    BY ConnectionAssumption
  <1>2. KeepAliveAnswer(r, w) \in Connections
    BY <1>1 DEF KeepAliveAnswer, Connections
  <1> QED
    BY <1>2 DEF KeepAliveAnswer, Connections

LEMMA DescribedFacts ==
  ASSUME NEW h \in Handlers, NEW r \in Connections
  PROVE  LET s == Described(h, r)
         IN  /\ s \in Connections
             /\ DescriptorOf(h, r) \in Pointers
             /\ s.desc = DescriptorOf(h, r)
             /\ s.id = r.id /\ s.addressed = r.addressed
             /\ s.dead = r.dead /\ s.frontend = r.frontend
             /\ s.answered = r.answered /\ s.lost = r.lost /\ s.missed = r.missed
  <1>1. DescriptorOf(h, r) \in Pointers
    BY ConnectionAssumption DEF DescriptorOf, Connections, Pointers
  <1> DEFINE p == DescriptorOf(h, r)
  <1>2. Described(h, r) = [r EXCEPT !.desc = p]
    BY DEF Described
  <1> HIDE DEF p
  <1>3. p \in Pointers
    BY <1>1 DEF p
  <1>4. Described(h, r) \in Connections
    BY <1>2, <1>3 DEF Connections
  <1> QED
    BY <1>1, <1>2, <1>4 DEF Connections, p

LEMMA RebootFacts ==
  ASSUME NEW r \in Connections
  PROVE  LET s == CommandReboot(r)
         IN  /\ s \in Connections
             /\ s.dead /\ s.answered = r.answered /\ s.lost = r.lost
             /\ s.missed = r.missed /\ s.desc = r.desc /\ s.id = r.id
             /\ s.frontend = r.frontend /\ s.addressed = r.addressed
  BY DEF CommandReboot, Connections

LEMMA ConfirmedFacts ==
  ASSUME NEW r \in Connections
  PROVE  LET s == Confirmed(r)
         IN  /\ s \in Connections
             /\ s.addressed /\ s.desc = NoPointer /\ s.id = NoId
             /\ s.dead = r.dead /\ s.missed = r.missed /\ s.frontend = r.frontend
  BY DEF Confirmed, Connections

LEMMA IdentifiedFacts ==
  ASSUME NEW r \in Connections, NEW i \in Ids \cup {NoId}
  PROVE  LET s == Identified(r, i)
         IN  /\ s \in Connections
             /\ s.id = i /\ s.desc = r.desc /\ s.addressed = r.addressed
             /\ s.dead = r.dead /\ s.missed = r.missed /\ s.frontend = r.frontend
  BY DEF Identified, Connections

LEMMA LaunchFacts ==
  ASSUME NEW r \in Connections, NEW f \in Nat
  PROVE  LET s == Launch(r, f)
         IN  /\ s \in Connections
             /\ s.frontend = f
             /\ s.desc = r.desc /\ s.id = r.id /\ s.addressed = r.addressed
             /\ s.dead = r.dead /\ s.missed = r.missed
  BY DEF Launch, Connections
=============================================================================
