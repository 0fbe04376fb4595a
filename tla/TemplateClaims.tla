---------------------------- MODULE TemplateClaims ----------------------------
(***************************************************************************)
(* What the program says of the synthesis circuit where its code does      *)
(* otherwise.                                                              *)
(***************************************************************************)
EXTENDS TemplateSynthesis

\* The comment on the run lock in main: --dry-run prints the queue and mutates
\* nothing.
PreviewMutatesNothing ==
  [][\A p \in Previews :
       proc'[p] # proc[p] => UNCHANGED <<lock, fork, links, ks>>]_vars
=============================================================================
