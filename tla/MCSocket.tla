------------------------------ MODULE MCSocket ------------------------------
(***************************************************************************)
(* The socket for TLC: in a behaviour the users either stop their fans or  *)
(* look at another branch before a reply streams.  But for reading stops,   *)
(* nothing a connection does can be repeated for ever within the bounds,   *)
(* so it is enough that one of its tasks goes on: less than the fairness   *)
(* of Spec.                                                                *)
(***************************************************************************)
EXTENDS SessionSocket

VARIABLE users

MCInit == Init /\ users \in {"stop", "navigate"}
MCNext ==
  /\ Next /\ UNCHANGED users
  /\ users = "stop" => tree'.moves = 0
  /\ users = "navigate" => \A c \in Conns : inbox'[c].stop = None
  /\ tree'.moves # tree.moves => \E c \in Conns : work[c].pc = "run" /\ work[c].holder = None

Tasks(c) == (Handler(c) \/ Worker(c) \/ Forward(c)) /\ UNCHANGED users

MCSpec == /\ MCInit /\ [][MCNext]_<<vars, users>>
          /\ \A c \in Conns : WF_<<vars, users>>(Tasks(c))
=============================================================================
