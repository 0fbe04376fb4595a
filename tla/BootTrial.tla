------------------------------ MODULE BootTrial ------------------------------
(***************************************************************************)
(* What the kernel path promises of booting, whatever its bookkeeping: the *)
(* saved default only ever moves to a kernel that came up and passed the   *)
(* health battery, a one-shot trial is armed only over such a default, and *)
(* every boot attempt consumes it.  architecture.md section 8.6 calls this *)
(* the failure geometry: one failed trial later the machine is back on a   *)
(* proven kernel with nobody present.                                      *)
(***************************************************************************)
EXTENDS Integers

CONSTANTS Kernels, Stock, None, Unset

VARIABLES default, trial, running, proven

vars == <<default, trial, running, proven>>

Init ==
  /\ default = Unset
  /\ trial = None
  /\ running = Stock
  /\ proven = {Stock}

\* The running kernel passes the battery.
Prove ==
  /\ running \in Kernels
  /\ proven' = proven \cup {running}
  /\ UNCHANGED <<default, trial, running>>

Pin ==
  /\ default' \in proven
  /\ UNCHANGED <<trial, running, proven>>

Arm ==
  /\ default \in proven
  /\ trial' \in Kernels
  /\ UNCHANGED <<default, running, proven>>

PowerOff ==
  /\ running' = None
  /\ UNCHANGED <<default, trial, proven>>

\* An attempt to boot, by the firmware alone or from the menu, which a panic
\* may end.
Boot ==
  /\ running = None
  /\ running' \in Kernels \cup {None}
  /\ trial' = None
  /\ UNCHANGED <<default, proven>>

Next == Prove \/ Pin \/ Arm \/ PowerOff \/ Boot

Spec == Init /\ [][Next]_vars
=============================================================================
