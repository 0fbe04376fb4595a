----------------------------- MODULE KernelClaims -----------------------------
(***************************************************************************)
(* What the updater says of the kernel path where the code of              *)
(* KernelLifecycle does otherwise.                                         *)
(***************************************************************************)
EXTENDS KernelLifecycle

\* A frozen kernel path is withheld from the queue, not only from synthesis
\* (cachy_void_update.py, cmd_commit).
FreezeWithholdsKernel ==
  [][u.pc = "plan" /\ ks.state \in Frozen => ~u'.dep]_vars
=============================================================================
