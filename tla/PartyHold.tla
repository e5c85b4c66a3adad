----------------------------- MODULE PartyHold -----------------------------
(***************************************************************************)
(* What RelaySessions::hold promises the unhosting of one party on one     *)
(* node: while the party is held no copy of its contracts runs on the      *)
(* node, and while one runs the party cannot be held.  Both live in the    *)
(* process's memory.                                                       *)
(***************************************************************************)
VARIABLES
    held,       \* is the party held?
    relaying    \* does a relayed copy of the party's contracts run here?

HoldInit == held = FALSE /\ relaying = FALSE

TakeHold == ~held /\ ~relaying /\ held' = TRUE /\ UNCHANGED relaying
DropHold == held /\ held' = FALSE /\ UNCHANGED relaying
OpenRelay == ~held /\ ~relaying /\ relaying' = TRUE /\ UNCHANGED held
CloseRelay == relaying /\ relaying' = FALSE /\ UNCHANGED held
ProcessEnds == held' = FALSE /\ relaying' = FALSE

HoldNext == TakeHold \/ DropHold \/ OpenRelay \/ CloseRelay \/ ProcessEnds

HoldSpec == HoldInit /\ [][HoldNext]_<<held, relaying>>
=============================================================================
