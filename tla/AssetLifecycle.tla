--------------------------- MODULE AssetLifecycle ---------------------------
(***************************************************************************)
(* What the storage service promises about one asset row, without workers, *)
(* claims, locks or clocks: it is opened by an upload, published once its  *)
(* content is verified, may be taken back to open, and is condemned only   *)
(* while nothing holds it.  A condemned row is never held, opened or       *)
(* published again: the only thing left is that it is discarded.           *)
(***************************************************************************)
CONSTANT Asset

VARIABLES
    phase,  \* of each row
    held    \* a binding or an operator's block keeps the row

vars == <<phase, held>>

Phase == {"unborn", "open", "published", "condemned", "gone"}

InUse(a) == phase[a] \in {"open", "published"}

Init ==
    /\ phase \in [Asset -> {"unborn", "published"}]
    /\ held = [a \in Asset |-> FALSE]

Move(a, p) ==
    /\ phase' = [phase EXCEPT ![a] = p]
    /\ UNCHANGED held

Open(a) == phase[a] \in {"unborn", "published"} /\ Move(a, "open")

Publish(a) == phase[a] = "open" /\ Move(a, "published")

Hold(a) ==
    /\ InUse(a)
    /\ held' = [held EXCEPT ![a] = TRUE]
    /\ UNCHANGED phase

LetGo(a) ==
    /\ InUse(a)
    /\ held' = [held EXCEPT ![a] = FALSE]
    /\ UNCHANGED phase

Condemn(a) == InUse(a) /\ ~held[a] /\ Move(a, "condemned")

Discard(a) == phase[a] = "condemned" /\ Move(a, "gone")

Next ==
    \E a \in Asset : \/ Open(a) \/ Publish(a)
                     \/ Hold(a) \/ LetGo(a)
                     \/ Condemn(a) \/ Discard(a)

Spec == Init /\ [][Next]_vars
=============================================================================
