---------------------------- MODULE MCRubiServer ----------------------------
(* Small fleets of boards for RubiServer.                                  *)
EXTENDS RubiServer, TLC

CONSTANTS e1, e2      \* the boards

Solo == {e1}
Pair == {e1, e2}

Interchangeable == Permutations(Pair)

OneBus    == [d \in Pair |-> 1]
OneName   == [d \in Pair |-> "engine"]
OneBody   == [d \in Pair |-> "v1"]
NoIds     == [d \in Pair |-> NoId]
TwoIds    == (e1 :> "front" @@ e2 :> "rear")
SoloBus   == [d \in Solo |-> 1]
SoloName  == [d \in Solo |-> "engine"]
SoloBody  == [d \in Solo |-> "v1"]
SoloId    == [d \in Solo |-> "front"]

Cans1     == {1}
Nodes3    == 0 .. 2
MCNames   == {"engine"}
MCBodies  == {"v1"}
MCIds     == {"front", "rear"}
Data      == {"data"}
Talkative == {"data", "event"}
Silent    == {}
=============================================================================
