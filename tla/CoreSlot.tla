------------------------------ MODULE CoreSlot ------------------------------
(***************************************************************************)
(* What the supervisor promises about the Core, without saying how.  There *)
(* is one slot for a Core process.  While the daemon runs and sharing is   *)
(* wanted the slot is filled or a start is pending; otherwise it is off.   *)
(* One process never takes the slot straight from another, and only a      *)
(* pending start fills it.                                                 *)
(***************************************************************************)
CONSTANTS Pids, NoPid

VARIABLES
    up,      \* is the daemon running?
    wanted,  \* has the user asked for sharing?
    phase,   \* "off", "pending" or "filled"
    owner    \* the process in the slot

slotVars == <<up, wanted, phase, owner>>

Empty(p) == phase' = p /\ owner' = NoPid

Init == up = TRUE /\ wanted = TRUE /\ phase = "pending" /\ owner = NoPid

\* The user wants sharing: a slot that is off becomes pending.
Want ==
    /\ up
    /\ wanted' = TRUE
    /\ \/ phase = "off" /\ Empty("pending")
       \/ phase # "off" /\ UNCHANGED <<phase, owner>>
    /\ UNCHANGED up

\* Whatever is in the slot is replaced: a restart, or a config change.
Bounce == up /\ wanted' = TRUE /\ Empty("pending") /\ UNCHANGED up

\* The user stops sharing: nothing is in the slot and nothing is pending.
Unwant == up /\ wanted' = FALSE /\ Empty("off") /\ UNCHANGED up

\* A pending start succeeds.
Fill(p) ==
    /\ up /\ wanted /\ phase = "pending"
    /\ phase' = "filled" /\ owner' = p
    /\ UNCHANGED <<up, wanted>>

\* The process in the slot ends: a new start is pending at once.
Vacate == up /\ wanted /\ phase = "filled" /\ Empty("pending") /\ UNCHANGED <<up, wanted>>

Exit == up /\ up' = FALSE /\ Empty("off") /\ UNCHANGED wanted

Launch ==
    /\ ~up /\ up' = TRUE
    /\ wanted' \in BOOLEAN
    /\ Empty(IF wanted' THEN "pending" ELSE "off")

Next == Want \/ Bounce \/ Unwant \/ (\E p \in Pids : Fill(p)) \/ Vacate \/ Exit \/ Launch

Spec == Init /\ [][Next]_slotVars
=============================================================================
