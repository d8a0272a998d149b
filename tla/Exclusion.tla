----------------------------- MODULE Exclusion ------------------------------
(***************************************************************************)
(* What withPathLock promises its callers: each call waits, then runs its  *)
(* callback while no other call does, or gives up.                         *)
(***************************************************************************)
CONSTANT Call         \* the calls of withPathLock on one target
VARIABLE phase        \* how far each call has come

Phase == {"before", "waiting", "inside", "over"}
Move(c, from, to) == phase[c] = from /\ phase' = [phase EXCEPT ![c] = to]

Init == phase = [c \in Call |-> "before"]

Begin(c)  == Move(c, "before", "waiting")
Enter(c)  == Move(c, "waiting", "inside") /\ \A d \in Call : phase[d] # "inside"
Leave(c)  == Move(c, "inside", "over")
GiveUp(c) == Move(c, "waiting", "over")

Next == \E c \in Call : Begin(c) \/ Enter(c) \/ Leave(c) \/ GiveUp(c)
Spec == Init /\ [][Next]_phase
=============================================================================
