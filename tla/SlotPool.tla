----------------------------- MODULE SlotPool -------------------------------
(***************************************************************************)
(* What a pool of equal slots promises: a slot the program does not have   *)
(* when it asks for one, until it has them all.                            *)
(***************************************************************************)
CONSTANT Slots

VARIABLES
    out,      \* slots the program has
    open,     \* the pool still has its storage
    status    \* "run", or the panic that ended it: "exceeds", "exhausted"

vars == <<out, open, status>>

PInit == out = {} /\ open = TRUE /\ status = "run"

Take(s) ==
    /\ status = "run" /\ open /\ s \notin out
    /\ out' = out \cup {s} /\ UNCHANGED <<open, status>>

\* A request that fits is refused only when the program has every slot, or
\* the storage is gone.
Refuse ==
    /\ status = "run"
    /\ \/ status' = "exceeds"
       \/ status' = "exhausted" /\ (open => out = Slots)
    /\ UNCHANGED <<out, open>>

Give(s) ==
    /\ status = "run" /\ s \in out
    /\ out' = out \ {s} /\ UNCHANGED <<open, status>>

Clear ==
    /\ status = "run" /\ out' = {}
    /\ (open' => open) /\ UNCHANGED status

PNext == (\E s \in Slots : Take(s) \/ Give(s)) \/ Refuse \/ Clear

PSpec == PInit /\ [][PNext]_vars
=============================================================================
