----------------------------- MODULE ModelAccess ----------------------------
(***************************************************************************)
(* What the session promises of its model: one user at a time, and at most *)
(* one generation, which only its user moves along its lifecycle           *)
(*                                                                         *)
(*     IDLE -> PREAMBLE -> RUNNING -> FINALIZING -> IDLE                   *)
(*                                                                         *)
(* with an exit to IDLE from every phase when a step fails                 *)
(* (drowse/generation/types.py GenState, drowse/base/exclusive.py).        *)
(***************************************************************************)
CONSTANTS Threads, None

VARIABLES user, phase

TypeOK ==
  /\ user \in Threads \cup {None}
  /\ phase \in {"IDLE", "PREAMBLE", "RUNNING", "FINALIZING"}

Init == user = None /\ phase = "IDLE"

\* A thread gets the idle model, for a generation or for another operation.
Take ==
  /\ user = None
  /\ user' \in Threads
  /\ phase' \in {"IDLE", "PREAMBLE"}

\* The user moves its generation forward.
Advance ==
  /\ user # None
  /\ \/ phase = "PREAMBLE" /\ phase' \in {"RUNNING", "FINALIZING"}
     \/ phase = "RUNNING" /\ phase' = "FINALIZING"
  /\ UNCHANGED user

\* The user gives the model back; a generation of its own is over.
Give ==
  /\ user # None
  /\ user' = None /\ phase' = "IDLE"

Next == Take \/ Advance \/ Give

Spec == Init /\ [][Next]_<<user, phase>>
=============================================================================
