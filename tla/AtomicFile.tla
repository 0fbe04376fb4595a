------------------------------ MODULE AtomicFile ------------------------------
(***************************************************************************)
(* What write_json_atomic promises of the file it writes: a reader finds   *)
(* the contents of one save, whole, and a power cut leaves those of the    *)
(* last save that was made durable or of one after it.                     *)
(***************************************************************************)
CONSTANTS
  Contents,   \* what a save may write
  Default     \* what the file holds at first

VARIABLES
  value,      \* what a reader finds
  left        \* what a power cut may leave

vars == <<value, left>>

Init == value = Default /\ left = {Default}

Save   == \E c \in Contents : value' = c /\ left' = left \cup {c}
Settle == value' = value /\ left' = {value}
Cut    == value' \in left /\ left' = {value'}

Spec == Init /\ [][Save \/ Settle \/ Cut]_vars
=============================================================================
