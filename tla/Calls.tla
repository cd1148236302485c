-------------------------------- MODULE Calls --------------------------------
(***************************************************************************)
(* What the signalling gateway can rely on: the life of each call that the *)
(* media gateway carries, seen from outside.  A call rings once its offer   *)
(* has been taken, is established once, may be stopped for want of media    *)
(* only after that, and makes its identifier available again only by being *)
(* closed.                                                                 *)
(***************************************************************************)
CONSTANT Ids

VARIABLES
  call,      \* the state of the call with each identifier
  gateway    \* whether the media gateway is in service

vars == <<call, gateway>>

States == {"none", "ringing", "established", "stopped"}

Init == call = [id \in Ids |-> "none"] /\ gateway = "up"

Move(id, from, to) ==
  /\ gateway = "up"
  /\ call[id] \in from
  /\ call' = [call EXCEPT ![id] = to]
  /\ UNCHANGED gateway

Offer(id)     == Move(id, {"none"}, "ringing")
Establish(id) == Move(id, {"ringing"}, "established")
Stop(id)      == Move(id, {"established"}, "stopped")
Close(id)     == Move(id, {"ringing", "established", "stopped"}, "none")

GoDown == gateway = "up" /\ gateway' = "down" /\ UNCHANGED call

Next ==
  \/ \E id \in Ids : Offer(id) \/ Establish(id) \/ Stop(id) \/ Close(id)
  \/ GoDown

Spec == Init /\ [][Next]_vars
==============================================================================
