---------------------------- MODULE LinkDirectory ----------------------------
(***************************************************************************)
(* What the server promises the ROS side, without addresses, frames or     *)
(* descriptors: each board identity has at most one link to a board at a   *)
(* time; a link that is gone never comes back and is never handed out      *)
(* again; another link takes its place only after it is gone.              *)
(***************************************************************************)
CONSTANTS
  Identities,  \* board names with their instance ids
  Links,       \* connections to boards
  NoLink       \* the identity has never been linked

VARIABLES
  link,        \* the link of each identity
  gone         \* links given up for good

Used == gone \cup {link[x] : x \in Identities}

Init ==
  /\ link = [x \in Identities |-> NoLink]
  /\ gone = {}

(* A board joins under an identity that has no link, or whose link is gone. *)
(* It may be given up within the same step (a reboot order finds it).       *)
Attach(x, l) ==
  /\ link[x] = NoLink \/ link[x] \in gone
  /\ l \notin Used
  /\ link' = [link EXCEPT ![x] = l]
  /\ gone' \in {gone, gone \cup {l}}

(* Links are given up, in use or not. *)
GiveUp(ls) ==
  /\ gone' = gone \cup ls
  /\ UNCHANGED link

(* The server starts afresh. *)
Restart ==
  /\ link' = [x \in Identities |-> NoLink]
  /\ gone' = {}

Next ==
  \/ \E x \in Identities, l \in Links : Attach(x, l)
  \/ \E ls \in SUBSET Links : GiveUp(ls)
  \/ Restart

Spec == Init /\ [][Next]_<<link, gone>>
=============================================================================
