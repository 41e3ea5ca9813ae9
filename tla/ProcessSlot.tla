---------------------------- MODULE ProcessSlot ----------------------------
(***************************************************************************)
(* What process.Manager promises of its slot: it holds the UI or one app,  *)
(* it is vacated before it is given to another program, an app gets in     *)
(* only when it was asked for, and whatever else happens the next program  *)
(* is the UI.  The promise ends when a launch is accepted while the slot   *)
(* is already being refilled (torn): the source does not exclude it.       *)
(***************************************************************************)
CONSTANTS
    Apps, UI, None,
    UIUnusable  \* the path of the UI binary is not valid: the slot stays empty

Programs == Apps \cup {UI}

VARIABLES
    occupant,  \* the program in the slot, or None
    wanted,    \* the program an empty slot waits for
    torn

slotVars == <<occupant, wanted, torn>>

SlotTypeOK ==
    /\ occupant \in Programs \cup {None}
    /\ wanted \in Programs \cup {None}
    /\ torn \in BOOLEAN

SlotInit == occupant = None /\ wanted = UI /\ torn = FALSE

\* The occupant is stopped, or exits by itself: who comes next is known.
Vacate(next) ==
    /\ occupant # None
    /\ occupant' = None
    /\ wanted' = next

Fill ==
    /\ occupant = None
    /\ wanted # None
    /\ occupant' = wanted
    /\ wanted' = None

\* The app could not be started: the UI comes back.
FallBack ==
    /\ wanted \in Apps
    /\ wanted' = UI
    /\ UNCHANGED occupant

Abandon ==
    /\ UIUnusable
    /\ occupant = None
    /\ wanted' = None
    /\ UNCHANGED occupant

Kept == torn = FALSE /\ torn' = FALSE
Torn == torn' = TRUE

SlotNext ==
    \/ Kept /\ (Fill \/ FallBack \/ Abandon \/ \E p \in Programs : Vacate(p))
    \/ Torn

SlotSpec == SlotInit /\ [][SlotNext]_slotVars
=============================================================================
